---------------------------- MODULE CallsErrors ----------------------------
(***************************************************************************)
(* Calls: what threads and the C stack have to do with each other, and     *)
(* that calls, yields and errors keep it, wherever a longjmp ends and      *)
(* however many errors an error leads to.                                  *)
(*                                                                         *)
(* CallsInv is the inductive invariant.  GoodZ, RestZ and Waiting say the  *)
(* same of the states z between two operators of Calls: that all fits, and *)
(* that nothing is under way, or that luaG_runerror is still to be called. *)
(***************************************************************************)
EXTENDS Calls, FiniteSetTheorems, WellFoundedInduction, TLAPS

-----------------------------------------------------------------------------
(* Numbers and sequences.                                                  *)

\* The greatest of a set of numbers that is bounded.
LEMMA MaxIs ==
  ASSUME NEW N \in Nat, NEW S \in SUBSET (0..N), S # {}
  PROVE  Max(S) \in S /\ \A x \in S : x <= Max(S)
<1> DEFINE R == {N - x : x \in S}
<1>1. R \in SUBSET Nat /\ R # {}
  <2>1. \A x \in S : x \in 0..N /\ N - x \in Nat
    OBVIOUS
  <2>2. QED
    BY <2>1
<1>2. IsWellFoundedOn(OpToRel(<, Nat), Nat)
  BY NatLessThanWellFounded
<1>3. \E n \in R : \A m \in R : <<m, n>> \notin OpToRel(<, Nat)
  <2> HIDE DEF R
  <2>1. QED
    BY <1>1, <1>2, WFMin
<1>4. PICK n \in R : \A m \in R : ~(m < n)
  BY <1>1, <1>3 DEF OpToRel
<1>5. PICK x \in S : n = N - x
  BY <1>4
<1>6. ASSUME NEW y \in S PROVE y <= x
  <2>1. ~(N - y < N - x) /\ x \in 0..N /\ y \in 0..N
    BY <1>4, <1>5
  <2>2. QED
    BY <2>1
<1>7. \E u \in S : \A y \in S : u >= y
  <2>1. S \subseteq Int
    OBVIOUS
  <2>2. QED
    BY <1>6, <2>1
<1>8. Max(S) \in S /\ \A y \in S : Max(S) >= y
  BY <1>7 DEF Max
<1>9. QED
  BY <1>8

\* A sequence, of whatever: the stacks have values that nothing here depends on.
SeqIs(s) == \E V : s \in Seq(V)

LEMMA LenIs == ASSUME NEW s, SeqIs(s) PROVE Len(s) \in Nat
BY DEF SeqIs
LEMMA Appended ==
  ASSUME NEW s, NEW e, SeqIs(s)
  PROVE  SeqIs(Append(s, e)) /\ Len(Append(s, e)) = Len(s) + 1
<1>1. PICK V : s \in Seq(V)
  BY DEF SeqIs
<1>2. s \in Seq(V \cup {e}) /\ e \in V \cup {e}
  BY <1>1
<1>3. Append(s, e) \in Seq(V \cup {e}) /\ Len(Append(s, e)) = Len(s) + 1
  BY <1>2
<1>4. QED
  BY <1>3 DEF SeqIs
LEMMA Cut ==
  ASSUME NEW s, NEW m \in Int, NEW n \in Int, SeqIs(s)
  PROVE  SeqIs(SubSeq(s, m, n)) /\ Len(SubSeq(s, m, n)) = IF m <= n THEN n - m + 1 ELSE 0
<1>1. PICK V : s \in Seq(V)
  BY DEF SeqIs
<1> DEFINE W == {s[i] : i \in m..n}
<1>2. SubSeq(s, m, n) \in Seq(W) /\ Len(SubSeq(s, m, n)) = IF m <= n THEN n - m + 1 ELSE 0
  BY <1>1
<1>3. QED
  BY <1>2 DEF SeqIs
LEMMA Joined ==
  ASSUME NEW s, NEW r, SeqIs(s), SeqIs(r)
  PROVE  SeqIs(s \o r) /\ Len(s \o r) = Len(s) + Len(r)
<1>1. PICK V : s \in Seq(V)
  BY DEF SeqIs
<1>2. PICK W : r \in Seq(W)
  BY DEF SeqIs
<1>3. s \in Seq(V \cup W) /\ r \in Seq(V \cup W)
  BY <1>1, <1>2
<1>4. s \o r \in Seq(V \cup W) /\ Len(s \o r) = Len(s) + Len(r)
  BY <1>3
<1>5. QED
  BY <1>4 DEF SeqIs
LEMMA Replaced ==
  ASSUME NEW s, NEW n \in Nat, NEW e, SeqIs(s)
  PROVE  SeqIs([s EXCEPT ![n] = e]) /\ Len([s EXCEPT ![n] = e]) = Len(s)
<1>1. PICK V : s \in Seq(V)
  BY DEF SeqIs
<1>2. s \in Seq(V \cup {e}) /\ e \in V \cup {e}
  BY <1>1
<1>3. [s EXCEPT ![n] = e] \in Seq(V \cup {e}) /\ Len([s EXCEPT ![n] = e]) = Len(s)
  <2>1. s \in [1..Len(s) -> V \cup {e}] /\ Len(s) \in Nat
    BY <1>2
  <2>2. [s EXCEPT ![n] = e] \in [1..Len(s) -> V \cup {e}]
    BY <1>2, <2>1
  <2>3. QED
    BY <2>1, <2>2
<1>4. QED
  BY <1>3 DEF SeqIs
LEMMA Inserted ==
  ASSUME NEW s, NEW n \in Int, NEW e, SeqIs(s), 1 <= n, n <= Len(s) + 1
  PROVE  SeqIs(InsertAt(s, n, e)) /\ Len(InsertAt(s, n, e)) = Len(s) + 1
<1>1. SeqIs(<<e>>) /\ Len(<<e>>) = 1
  <2>1. <<e>> \in Seq({e})
    OBVIOUS
  <2>2. QED
    BY <2>1 DEF SeqIs
<1>2. Len(s) \in Nat
  BY LenIs
<1>3. SeqIs(SubSeq(s, 1, n - 1)) /\ Len(SubSeq(s, 1, n - 1)) = n - 1
  BY <1>2, Cut
<1>4. SeqIs(SubSeq(s, n, Len(s))) /\ Len(SubSeq(s, n, Len(s))) = Len(s) - n + 1
  BY <1>2, Cut
<1>5. SeqIs(SubSeq(s, 1, n - 1) \o <<e>>) /\ Len(SubSeq(s, 1, n - 1) \o <<e>>) = n
  BY <1>1, <1>3, Joined
<1> DEFINE one == SubSeq(s, 1, n - 1) \o <<e>>
           two == SubSeq(s, n, Len(s))
<1>6. InsertAt(s, n, e) = one \o two
  BY DEF InsertAt
<1>9. Len(one) = n /\ Len(two) = Len(s) - n + 1
  BY <1>4, <1>5
<1> HIDE DEF one, two
<1>7. SeqIs(one \o two) /\ Len(one \o two) = Len(one) + Len(two)
  BY <1>4, <1>5, Joined DEF one, two
<1>8. QED
  BY <1>2, <1>6, <1>7, <1>9
LEMMA Fixed ==
  /\ \A n \in Nat : SeqIs(Nils(n)) /\ Len(Nils(n)) = n
  /\ \A a : SeqIs(<<a>>) /\ Len(<<a>>) = 1
  /\ \A a, b : SeqIs(<<a, b>>) /\ Len(<<a, b>>) = 2
  /\ \A a, b, c : SeqIs(<<a, b, c>>) /\ Len(<<a, b, c>>) = 3
<1>1. ASSUME NEW n \in Nat PROVE Nils(n) \in Seq({"nil"}) /\ Len(Nils(n)) = n
  BY DEF Nils
<1>2. ASSUME NEW a PROVE <<a>> \in Seq({a}) /\ Len(<<a>>) = 1
  OBVIOUS
<1>3. ASSUME NEW a, NEW b PROVE <<a, b>> \in Seq({a, b}) /\ Len(<<a, b>>) = 2
  OBVIOUS
<1>4. ASSUME NEW a, NEW b, NEW c PROVE <<a, b, c>> \in Seq({a, b, c}) /\ Len(<<a, b, c>>) = 3
  OBVIOUS
<1>5. QED
  BY <1>1, <1>2, <1>3, <1>4 DEF SeqIs
-----------------------------------------------------------------------------
(* The invariant: threads M and a C stack D fit each other.                *)

Statuses == {"OK", "YIELD", "ERRRUN", "ERRERR"}
Protects == {"pcall", "xpcall"}
Ks       == {"pcall", "xpcall", "dofile"}                        \* with a continuation
Callers  == {"call", "pcall", "ypcall", "tm", "errormsg"}        \* luaD_call

Frame ==
  [func : Nat, top : Nat, nres : {-1, 0, 1, 2}, lua : BOOLEAN, fresh : BOOLEAN, op : {"none", "CALL", "ADD"},
   yp : BOOLEAN, k : Ks \cup {"none"}, extra : Nat, olderr : Nat]
Make(status, stack, ci, nny, nCcalls, errfunc, big) ==
  [status |-> status, stack |-> stack, nny |-> nny, nCcalls |-> nCcalls, errfunc |-> errfunc,
   big |-> big, ci |-> ci]
ThreadOver(V) ==
  [status : Statuses, stack : Seq(V), nny : Int, nCcalls : Int, errfunc : Nat, big : BOOLEAN,
   ci : Seq(Frame)]
IsThread(th) == (\E V : th \in ThreadOver(V)) /\ Len(th.ci) >= 1
Places == Nat \ {0}
Record ==
       [a : {"call", "ypcall", "tm", "errormsg"}, t : Threads, at : Places, ny : BOOLEAN]
  \cup [a : {"pcall"}, t : Threads, at : Places, ny : BOOLEAN, func : Nat, nny : Int,
        errfunc : Nat, nCcalls : Int]
  \cup [a : {"C", "docall"}, t : Threads, at : Places, back : BOOLEAN, status : Statuses]
  \cup [a : {"exec"}, t : Threads, at : Places]
  \cup [a : {"resume"}, t : Threads, at : Places, oldnny : Int, nCcalls : Int]
  \cup [a : {"unroll"}, t : Threads, at : Places, status : Statuses]
Typed(M, D) ==
  /\ M = [t \in Threads |-> M[t]] /\ \A t \in Threads : IsThread(M[t])
  /\ D \in Seq(Record) /\ Len(D) >= 1

\* The slots up to the last EXTRA_STACK ones.
lim(th) == LUAI_MAXSTACK + (IF th.big THEN ErrorSpace ELSE 0) - EXTRA_STACK
FrameFits(i, f) ==
  IF i = 1 THEN f.func = 1 /\ f.top >= 1 + LUA_MINSTACK /\ ~f.lua /\ ~f.yp
  ELSE /\ f.func >= 2
       /\ IF f.lua THEN f.func + FrameSize <= f.top ELSE f.func + 2 <= f.top
       /\ f.yp => ~f.lua /\ f.k \in Protects /\ f.extra \in 1..f.top
Slots(th) ==
  /\ Len(th.stack) <= lim(th) + 3
  /\ \A i \in 1..Len(th.ci) :
       IF errorstatus(th.status) THEN th.ci[i].top <= lim(th) + 4
       ELSE FrameFits(i, th.ci[i]) /\ th.ci[i].top <= lim(th)
Fits(M) == \A t \in Threads : Slots(M[t])

Base(D) ==
  /\ D[1].a = "docall" /\ D[1].t = "main"
  /\ \A j \in 2..Len(D) : D[j].a # "docall"
  /\ Len(D) >= 2 => D[2].a = "pcall" /\ ~D[1].back

\* The records of a thread are together, the outer calls first.
Together(D) ==
  \A i, j \in 1..Len(D) : i < j /\ (\A k \in (i + 1)..j : D[k].a # "resume") => D[i].t = D[j].t
Apart(D) ==
  \A i, j, k \in 1..Len(D) : i < k /\ k <= j /\ D[k].a = "resume" => D[i].t # D[j].t
Order(D) ==
  \A i, j \in 1..Len(D) :
    i < j /\ D[i].t = D[j].t =>
      D[i].at <= D[j].at /\ (D[j].a \in {"C", "exec"} => D[i].at < D[j].at)

\* Next to each other are only records of functions of which one calls the other.
InExec(q, n, th) == \A i \in q.at..n : th.ci[i].lua /\ (th.ci[i].fresh <=> i = q.at)
Linked(q, r, th) ==     \* th: the thread of q
  /\ r.a = "resume" => /\ q.a = "C" /\ ~q.back /\ q.at = Len(th.ci)
                       /\ th.ci[q.at].func <= Len(th.stack) /\ Len(th.stack) + 1 <= th.ci[q.at].top
                       /\ ~th.ci[q.at].yp
  /\ r.a \in {"call", "pcall", "ypcall"} => q.a \in {"C", "docall"} /\ r.at = q.at
  /\ r.a = "tm" => q.a = "exec" /\ InExec(q, r.at, th)
  /\ r.a = "C" => \/ q.a \in Callers \cup {"resume"} /\ r.at = q.at + 1
                  \/ q.a = "exec" /\ InExec(q, r.at - 1, th)
  /\ r.a = "exec" => \/ q.a \in Callers \cup {"resume"} /\ r.at = q.at + 1
                     \/ q.a = "unroll" /\ q.status = "YIELD"
  /\ r.a = "unroll" => q.a = "resume"
Links(M, D) == \A j \in 1..(Len(D) - 1) : Linked(D[j], D[j + 1], M[D[j].t])

IsNy(r) == r.a \in Callers /\ r.ny
Ny(D, t, m) == Cardinality({i \in 1..m : D[i].t = t /\ IsNy(D[i])})
Calling(D, m) == Cardinality({i \in 1..m : D[i].a \in Callers \cup {"resume"}})

\* What a record says of its thread.
Free(r) == r.a = "ypcall" \/ (r.a = "call" /\ ~r.ny)
Yieldable(D, t, m) == t # "main" /\ \A i \in 1..m : D[i].t = t => ~IsNy(D[i])
Placed(r, th) ==
  /\ r.at <= Len(th.ci)
  /\ r.a \in {"docall", "resume", "unroll"} => r.at = 1
  /\ r.a = "pcall" => r.func \in th.ci[r.at].func..th.ci[r.at].top /\ ~th.ci[r.at].yp
  /\ r.a \in {"pcall", "errormsg"} => r.ny
  /\ r.a \in {"ypcall", "tm"} => ~r.ny
  /\ Free(r) => th.ci[r.at].k \in Ks
  /\ r.a = "C" => ~th.ci[r.at].lua /\ r.at >= 2
  /\ r.a = "exec" => th.ci[r.at].lua /\ r.at >= 2
Saved(r, D, m) ==       \* r is the record after the first m of D
  /\ r.a = "pcall" => /\ r.nny = Ny(D, r.t, m) + IF r.t = "main" THEN 1 ELSE 0
                      /\ r.nCcalls = Calling(D, m)
  /\ Free(r) => Yieldable(D, r.t, m)
  /\ r.a = "resume" => r.oldnny = 1 /\ r.nCcalls = Calling(D, m) + 1
Located(M, D) == \A j \in 1..Len(D) : Placed(D[j], M[D[j].t]) /\ Saved(D[j], D, j - 1)

\* A C function that has no record any more has a continuation, and one with a record that
\* has let a longjmp to lua_resume find it still waits in lua_pcallk.
Has(D, a, t, i) == \E j \in 1..Len(D) : D[j].a = a /\ D[j].t = t /\ D[j].at = i
ContinuedAt(th, D, t, i) ==
  /\ ~th.ci[i].lua =>
       \/ Has(D, "C", t, i)
       \/ th.status = "YIELD" /\ i = Len(th.ci)
       \/ th.ci[i].k \in Ks /\ \A l \in 2..i : ~Has(D, "C", t, l)
  /\ th.ci[i].yp /\ Has(D, "C", t, i) => Has(D, "ypcall", t, i)
Continued(M, D) ==
  \A t \in Threads : ~errorstatus(M[t].status) => \A i \in 2..Len(M[t].ci) : ContinuedAt(M[t], D, t, i)

InUse(D, t) == \E j \in 1..Len(D) : D[j].t = t
Counts(M, D) ==
  /\ \A t \in Threads :
       M[t].nny = Ny(D, t, Len(D)) + IF t = "main" \/ ~InUse(D, t) THEN 1 ELSE 0
  /\ \A j \in 1..Len(D) : j = Len(D) \/ D[j + 1].a = "resume" => M[D[j].t].nCcalls = Calling(D, j)
Asleep(th) ==
  /\ th.status = "OK" => Len(th.ci) = 1 /\ Len(th.stack) >= 1
  /\ th.status = "YIELD" => /\ Len(th.ci) >= 2 /\ ~Ci(th).lua /\ ~Ci(th).yp
                            /\ Ci(th).extra = Ci(th).func /\ Ci(th).func <= Len(th.stack)
Idle(M, D) == \A t \in Threads : IF InUse(D, t) THEN M[t].status = "OK" ELSE Asleep(M[t])

Shape(D)   == Base(D) /\ Together(D) /\ Apart(D) /\ Order(D)
Good(M, D) ==
  /\ Typed(M, D) /\ Fits(M) /\ Shape(D) /\ Links(M, D) /\ Located(M, D)
  /\ Continued(M, D) /\ Counts(M, D) /\ Idle(M, D)

\* What can be the last record, and what of its thread when nothing is under way.
AtRest(r, th) ==
  /\ r.a \in {"docall", "C", "exec", "unroll"}
  /\ r.a = "docall" => Len(th.ci) = 1
  /\ r.a = "C" => /\ r.at = Len(th.ci) /\ ~Ci(th).yp
                  /\ ~r.back => Ci(th).func <= Len(th.stack)
                  /\ errorstatus(r.status) => Len(th.stack) >= 2
                  /\ Len(th.stack) + (IF r.back THEN 0 ELSE LUA_MINSTACK) <= Ci(th).top
  /\ r.a = "exec" => InExec(r, Len(th.ci), th)
  /\ r.a = "unroll" => /\ Len(th.ci) >= 2 /\ ~Ci(th).lua /\ Ci(th).k \in Ks
                       /\ r.status # "OK" /\ (Ci(th).yp \/ r.status = "YIELD")
                       /\ Len(th.stack) <= IF r.status = "YIELD" THEN lim(th) ELSE Ci(th).top
CallsInv == Good(L, C) /\ AtRest(Last(C), L[Last(C).t])
-----------------------------------------------------------------------------
(* What the operators do to a thread.                                      *)

LEMMA ThreadIs ==
  ASSUME NEW th, IsThread(th)
  PROVE  /\ th.status \in Statuses /\ SeqIs(th.stack) /\ Len(th.stack) \in Nat
         /\ th.ci \in Seq(Frame) /\ Len(th.ci) \in Nat \ {0} /\ th.nny \in Int /\ th.nCcalls \in Int
         /\ th.errfunc \in Nat /\ th.big \in BOOLEAN
         /\ Ci(th) = th.ci[Len(th.ci)] /\ Ci(th) \in Frame
         /\ \A i \in 1..Len(th.ci) : th.ci[i] \in Frame
<1>1. PICK V : th \in ThreadOver(V)
  BY DEF IsThread
<1>2. th.stack \in Seq(V) /\ th.ci \in Seq(Frame) /\ Len(th.ci) \in Nat \ {0}
  BY <1>1 DEF ThreadOver, IsThread
<1>3. Ci(th) = th.ci[Len(th.ci)] /\ \A i \in 1..Len(th.ci) : th.ci[i] \in Frame
  BY <1>2 DEF Ci, Last
<1>4. QED
  BY <1>1, <1>2, <1>3 DEF ThreadOver, SeqIs

\* One field of a thread changes.
PutStatus(th, v) == [th EXCEPT !.status = v]
PutStack(th, v) == [th EXCEPT !.stack = v]
PutInfos(th, v) == [th EXCEPT !.ci = v]
PutNny(th, v) == [th EXCEPT !.nny = v]
PutCalls(th, v) == [th EXCEPT !.nCcalls = v]
PutErrfunc(th, v) == [th EXCEPT !.errfunc = v]
PutBig(th, v) == [th EXCEPT !.big = v]
LEMMA SetStatus ==
  ASSUME NEW th, IsThread(th), NEW v, v \in Statuses, NEW w, w = PutStatus(th, v)
  PROVE  /\ IsThread(w) /\ w.status = v
         /\ w.stack = th.stack /\ w.ci = th.ci /\ w.nny = th.nny /\ w.nCcalls = th.nCcalls
         /\ w.errfunc = th.errfunc /\ w.big = th.big
<1>1. PICK V : th \in ThreadOver(V)
  BY DEF IsThread
<1>2. w \in ThreadOver(V) /\ Len(w.ci) >= 1
  BY <1>1 DEF ThreadOver, IsThread, PutStatus
<1>3. QED
  BY <1>1, <1>2 DEF ThreadOver, IsThread, PutStatus
LEMMA SetStack ==
  ASSUME NEW th, IsThread(th), NEW v, SeqIs(v), NEW w, w = PutStack(th, v)
  PROVE  /\ IsThread(w) /\ w.stack = v
         /\ w.status = th.status /\ w.ci = th.ci /\ w.nny = th.nny /\ w.nCcalls = th.nCcalls
         /\ w.errfunc = th.errfunc /\ w.big = th.big
<1>1. PICK V : th \in ThreadOver(V)
  BY DEF IsThread
<1>2. PICK W : v \in Seq(W)
  BY DEF SeqIs
<1>3. th \in ThreadOver(V \cup W) /\ v \in Seq(V \cup W)
  BY <1>1, <1>2 DEF ThreadOver
<1>4. w \in ThreadOver(V \cup W) /\ w.ci = th.ci
  BY <1>3 DEF ThreadOver, PutStack
<1>5. QED
  BY <1>3, <1>4 DEF ThreadOver, IsThread, PutStack
LEMMA SetInfos ==
  ASSUME NEW th, IsThread(th), NEW v \in Seq(Frame), Len(v) >= 1, NEW w, w = PutInfos(th, v)
  PROVE  /\ IsThread(w) /\ w.ci = v
         /\ w.status = th.status /\ w.stack = th.stack /\ w.nny = th.nny /\ w.nCcalls = th.nCcalls
         /\ w.errfunc = th.errfunc /\ w.big = th.big
<1>1. PICK V : th \in ThreadOver(V)
  BY DEF IsThread
<1>2. w \in ThreadOver(V) /\ Len(w.ci) >= 1
  BY <1>1 DEF ThreadOver, IsThread, PutInfos
<1>3. QED
  BY <1>1, <1>2 DEF ThreadOver, IsThread, PutInfos
LEMMA SetNny ==
  ASSUME NEW th, IsThread(th), NEW v, v \in Int, NEW w, w = PutNny(th, v)
  PROVE  /\ IsThread(w) /\ w.nny = v
         /\ w.status = th.status /\ w.stack = th.stack /\ w.ci = th.ci /\ w.nCcalls = th.nCcalls
         /\ w.errfunc = th.errfunc /\ w.big = th.big
<1>1. PICK V : th \in ThreadOver(V)
  BY DEF IsThread
<1>2. w \in ThreadOver(V) /\ Len(w.ci) >= 1
  BY <1>1 DEF ThreadOver, IsThread, PutNny
<1>3. QED
  BY <1>1, <1>2 DEF ThreadOver, IsThread, PutNny
LEMMA SetCalls ==
  ASSUME NEW th, IsThread(th), NEW v, v \in Int, NEW w, w = PutCalls(th, v)
  PROVE  /\ IsThread(w) /\ w.nCcalls = v
         /\ w.status = th.status /\ w.stack = th.stack /\ w.ci = th.ci /\ w.nny = th.nny
         /\ w.errfunc = th.errfunc /\ w.big = th.big
<1>1. PICK V : th \in ThreadOver(V)
  BY DEF IsThread
<1>2. w \in ThreadOver(V) /\ Len(w.ci) >= 1
  BY <1>1 DEF ThreadOver, IsThread, PutCalls
<1>3. QED
  BY <1>1, <1>2 DEF ThreadOver, IsThread, PutCalls
LEMMA SetErrfunc ==
  ASSUME NEW th, IsThread(th), NEW v, v \in Nat, NEW w, w = PutErrfunc(th, v)
  PROVE  /\ IsThread(w) /\ w.errfunc = v
         /\ w.status = th.status /\ w.stack = th.stack /\ w.ci = th.ci /\ w.nny = th.nny
         /\ w.nCcalls = th.nCcalls /\ w.big = th.big
<1>1. PICK V : th \in ThreadOver(V)
  BY DEF IsThread
<1>2. w \in ThreadOver(V) /\ Len(w.ci) >= 1
  BY <1>1 DEF ThreadOver, IsThread, PutErrfunc
<1>3. QED
  BY <1>1, <1>2 DEF ThreadOver, IsThread, PutErrfunc
LEMMA SetBig ==
  ASSUME NEW th, IsThread(th), NEW v, v \in BOOLEAN, NEW w, w = PutBig(th, v)
  PROVE  /\ IsThread(w) /\ w.big = v
         /\ w.status = th.status /\ w.stack = th.stack /\ w.ci = th.ci /\ w.nny = th.nny
         /\ w.nCcalls = th.nCcalls /\ w.errfunc = th.errfunc
<1>1. PICK V : th \in ThreadOver(V)
  BY DEF IsThread
<1>2. w \in ThreadOver(V) /\ Len(w.ci) >= 1
  BY <1>1 DEF ThreadOver, IsThread, PutBig
<1>3. QED
  BY <1>1, <1>2 DEF ThreadOver, IsThread, PutBig

\* Only the stack and the CallInfos change.
Rest6(w, th) ==
  w.status = th.status /\ w.nny = th.nny /\ w.nCcalls = th.nCcalls /\ w.errfunc = th.errfunc /\ w.big = th.big
LEMMA Stack ==
  ASSUME NEW th, IsThread(th), NEW s, SeqIs(s), NEW w, w = PutStack(th, s)
  PROVE  IsThread(w) /\ w.stack = s /\ w.ci = th.ci /\ Rest6(w, th)
BY SetStack DEF Rest6
LEMMA Infos ==
  ASSUME NEW th, IsThread(th), NEW c \in Seq(Frame), Len(c) >= 1, NEW w, w = PutInfos(th, c)
  PROVE  IsThread(w) /\ w.stack = th.stack /\ w.ci = c /\ Rest6(w, th)
BY SetInfos DEF Rest6
LEMMA Pushed ==
  ASSUME NEW th, IsThread(th), NEW v
  PROVE  /\ IsThread(Push(th, v)) /\ Len(Push(th, v).stack) = Len(th.stack) + 1
         /\ Push(th, v).ci = th.ci /\ Rest6(Push(th, v), th)
<1>1. SeqIs(Append(th.stack, v)) /\ Len(Append(th.stack, v)) = Len(th.stack) + 1
  BY ThreadIs, Appended
<1>2. Push(th, v) = PutStack(th, Append(th.stack, v))
  BY DEF Push, PutStack
<1> DEFINE s == Append(th.stack, v)
           w == Push(th, v)
<1>3. SeqIs(s) /\ Len(s) = Len(th.stack) + 1 /\ w = PutStack(th, s)
  BY <1>1, <1>2
<1> HIDE DEF s, w
<1>4. IsThread(w) /\ w.stack = s /\ w.ci = th.ci /\ Rest6(w, th)
  BY <1>3, Stack
<1>5. QED
  BY <1>3, <1>4 DEF w
\* The CallInfo of the running function changes.
LEMMA CiIs ==
  ASSUME NEW th, IsThread(th), NEW f \in Frame
  PROVE  /\ IsThread(OnCi(th, f)) /\ OnCi(th, f).stack = th.stack /\ Rest6(OnCi(th, f), th)
         /\ OnCi(th, f).ci = [th.ci EXCEPT ![Len(th.ci)] = f] /\ Len(OnCi(th, f).ci) = Len(th.ci)
         /\ OnCi(th, f).ci[Len(th.ci)] = f
         /\ \A i \in 1..(Len(th.ci) - 1) : OnCi(th, f).ci[i] = th.ci[i]
         /\ Ci(OnCi(th, f)) = f
<1> DEFINE c == [th.ci EXCEPT ![Len(th.ci)] = f]
           w == OnCi(th, f)
<1>1. /\ c \in Seq(Frame) /\ Len(c) = Len(th.ci) /\ c[Len(th.ci)] = f /\ Len(c) >= 1
      /\ \A i \in 1..(Len(th.ci) - 1) : c[i] = th.ci[i]
  BY ThreadIs
<1>2. w = PutInfos(th, c)
  BY DEF OnCi, PutInfos
<1> HIDE DEF c, w
<1>3. IsThread(w) /\ w.stack = th.stack /\ w.ci = c /\ Rest6(w, th)
  BY <1>1, <1>2, Infos
<1>4. Ci(w) = f
  BY <1>1, <1>3 DEF Ci, Last
<1>5. QED
  BY <1>1, <1>3, <1>4 DEF c, w
LEMMA Sizes ==
  /\ LUAI_MAXCCALLS \in Nat /\ ExtraCCalls \in Nat /\ LUAI_MAXSTACK \in Nat /\ ErrorSpace \in Nat
  /\ EXTRA_STACK \in Nat /\ LUA_MINSTACK \in Nat /\ FrameSize \in Nat
  /\ LUAI_MAXCCALLS >= 2 /\ EXTRA_STACK >= 4 /\ LUA_MINSTACK >= 3 /\ FrameSize >= 1
  /\ 1 + LUA_MINSTACK + EXTRA_STACK <= LUAI_MAXSTACK
BY CallsAssumption
LEMMA FrameIs ==
  ASSUME NEW f \in Frame
  PROVE  /\ f.func \in Nat /\ f.top \in Nat /\ f.nres \in {-1, 0, 1, 2} /\ f.lua \in BOOLEAN
         /\ f.fresh \in BOOLEAN /\ f.yp \in BOOLEAN /\ f.k \in Ks \cup {"none"} /\ f.extra \in Nat /\ f.olderr \in Nat
BY DEF Frame
LEMMA FrameHas ==
  ASSUME NEW f \in Frame, NEW w
  PROVE  /\ w = [f EXCEPT !.op = "none"] \/ w = [f EXCEPT !.yp = FALSE]
              \/ w = [f EXCEPT !.op = "CALL"] \/ w = [f EXCEPT !.op = "ADD"] => w \in Frame
         /\ \A n \in Nat : w = [f EXCEPT !.top = n] => w \in Frame
BY DEF Frame
LEMMA FrontStack == ASSUME NEW s, SeqIs(s) PROVE SeqIs(Front(s)) /\ Len(Front(s)) <= Len(s)
<1>1. Len(s) \in Nat
  BY LenIs
<1>2. SeqIs(SubSeq(s, 1, Len(s) - 1))
      /\ Len(SubSeq(s, 1, Len(s) - 1)) = IF 1 <= Len(s) - 1 THEN Len(s) - 1 - 1 + 1 ELSE 0
  BY <1>1, Cut
<1>3. QED
  BY <1>1, <1>2 DEF Front
LEMMA ErrorObject ==
  ASSUME NEW th, IsThread(th), NEW st, NEW n \in Nat
  PROVE  LET w == seterrorobj(th, st, n)
         IN IsThread(w) /\ Len(w.stack) = n + 1 /\ w.ci = th.ci /\ Rest6(w, th)
<1> DEFINE e == IF st = "ERRERR" THEN "error in error handling" ELSE Last(th.stack)
           s == Append(SubSeq(th.stack, 1, n), e)
           w == seterrorobj(th, st, n)
<1>1. SeqIs(SubSeq(th.stack, 1, n)) /\ Len(SubSeq(th.stack, 1, n)) = n
  BY ThreadIs, Cut
<1>2. SeqIs(s) /\ Len(s) = n + 1
  <2> HIDE DEF e
  <2>1. QED
    BY <1>1, Appended
<1>3. w = PutStack(th, s)
  BY DEF seterrorobj, PutStack
<1> HIDE DEF s, w
<1>4. IsThread(w) /\ w.stack = s /\ w.ci = th.ci /\ Rest6(w, th)
  BY <1>2, <1>3, Stack
<1>5. QED
  BY <1>2, <1>4 DEF w

LEMMA WantedIs ==
  ASSUME NEW vals, SeqIs(vals), NEW n \in {-1, 0, 1, 2}
  PROVE  SeqIs(Wanted(vals, n)) /\ Len(Wanted(vals, n)) = IF n = -1 THEN Len(vals) ELSE n
<1>1. CASE n = -1
  BY <1>1 DEF Wanted
<1>2. CASE n # -1
  <2>1. n \in Nat /\ SeqIs(Nils(n))
    BY <1>2, Fixed
  <2>2. SeqIs(vals \o Nils(n))
    BY <2>1, Joined
  <2>3. SeqIs(SubSeq(vals \o Nils(n), 1, n)) /\ Len(SubSeq(vals \o Nils(n), 1, n)) = n
    BY <2>1, <2>2, Cut
  <2>4. QED
    BY <1>2, <2>3 DEF Wanted
<1>3. QED
  BY <1>1, <1>2

LEMMA FrontIs ==
  ASSUME NEW c \in Seq(Frame), Len(c) >= 2
  PROVE  /\ Front(c) \in Seq(Frame) /\ Len(Front(c)) = Len(c) - 1
         /\ \A i \in 1..(Len(c) - 1) : Front(c)[i] = c[i]
BY DEF Front
\* The frame is left, and the results take the place of the function.
LEMMA Poscall ==
  ASSUME NEW th, IsThread(th), Len(th.ci) >= 2, Ci(th).func >= 1, NEW vals, SeqIs(vals)
  PROVE  LET w == luaD_poscall(th, vals)
         IN /\ IsThread(w) /\ w.ci = Front(th.ci) /\ Rest6(w, th)
            /\ Len(w.ci) = Len(th.ci) - 1 /\ \A i \in 1..(Len(th.ci) - 1) : w.ci[i] = th.ci[i]
            /\ Len(w.stack) = Ci(th).func - 1 + IF Ci(th).nres = -1 THEN Len(vals) ELSE Ci(th).nres
<1> DEFINE a == SubSeq(th.stack, 1, Ci(th).func - 1)
           b == Wanted(vals, Ci(th).nres)
           s == a \o b
           w == luaD_poscall(th, vals)
<1>0. Ci(th) \in Frame
  BY ThreadIs
<1>1. Ci(th).func \in Nat /\ Ci(th).nres \in {-1, 0, 1, 2}
  BY <1>0, FrameIs
<1>2. SeqIs(a) /\ Len(a) = Ci(th).func - 1
  BY <1>1, ThreadIs, Cut
<1>3. SeqIs(b) /\ Len(b) = IF Ci(th).nres = -1 THEN Len(vals) ELSE Ci(th).nres
  BY <1>1, WantedIs
<1>4. SeqIs(s) /\ Len(s) = Len(a) + Len(b)
  <2> HIDE DEF a, b
  <2>1. QED
    BY <1>2, <1>3, Joined
<1>5. w = [th EXCEPT !.ci = Front(th.ci), !.stack = s]
  BY DEF luaD_poscall
<1>6. w = [th EXCEPT !.stack = s, !.ci = Front(th.ci)]
  BY <1>5
<1>7. Front(th.ci) \in Seq(Frame) /\ Len(Front(th.ci)) = Len(th.ci) - 1
      /\ \A i \in 1..(Len(th.ci) - 1) : Front(th.ci)[i] = th.ci[i]
  BY ThreadIs, FrontIs
<1>8. Len(s) = Ci(th).func - 1 + IF Ci(th).nres = -1 THEN Len(vals) ELSE Ci(th).nres
  BY <1>2, <1>3, <1>4
<1> DEFINE c == Front(th.ci)
           u == PutStack(th, s)
<1>11. SeqIs(s) /\ w = PutInfos(u, c) /\ c \in Seq(Frame) /\ Len(c) >= 1
  BY <1>4, <1>6, <1>7, ThreadIs DEF PutStack, PutInfos
<1>12. u = PutStack(th, s)
  OBVIOUS
<1> HIDE DEF s, w, c, u
<1>13. IsThread(u) /\ u.stack = s /\ u.ci = th.ci /\ Rest6(u, th)
  BY <1>11, <1>12, Stack
<1>14. IsThread(w) /\ w.stack = s /\ w.ci = c /\ Rest6(w, u)
  BY <1>11, <1>13, Infos
<1>9. Rest6(w, th)
  BY <1>13, <1>14 DEF Rest6
<1>10. QED
  BY <1>7, <1>8, <1>9, <1>14 DEF w, c

LEMMA Refilled ==
  ASSUME NEW th, IsThread(th)
  PROVE  LET w == Refill(th)
         IN /\ IsThread(w) /\ Rest6(w, th) /\ Len(w.stack) = Ci(th).top
            /\ w.ci = [th.ci EXCEPT ![Len(th.ci)] = [Ci(th) EXCEPT !.op = "none"]]
<1> DEFINE f == [Ci(th) EXCEPT !.op = "none"]
           s == SubSeq(th.stack \o Nils(FrameSize), 1, Ci(th).top)
           u == PutStack(th, s)
           w == Refill(th)
<1>0. Ci(th) \in Frame /\ SeqIs(th.stack)
  BY ThreadIs
<1>1. Ci(th).top \in Nat /\ FrameSize \in Nat /\ f \in Frame
  BY <1>0, FrameIs, FrameHas, Sizes
<1>2. SeqIs(th.stack \o Nils(FrameSize))
  BY <1>0, <1>1, Fixed, Joined
<1>3. SeqIs(s) /\ Len(s) = Ci(th).top
  <2> DEFINE r == th.stack \o Nils(FrameSize)
             n == Ci(th).top
  <2>1. SeqIs(r) /\ n \in Nat /\ s = SubSeq(r, 1, n)
    BY <1>1, <1>2
  <2> HIDE DEF r, n, s
  <2>2. SeqIs(s) /\ Len(s) = IF 1 <= n THEN n - 1 + 1 ELSE 0
    BY <2>1, Cut
  <2>3. QED
    BY <2>1, <2>2 DEF n
<1>4. w = OnCi(u, f)
  BY DEF Refill, PutStack
<1>5. IsThread(u) /\ u.stack = s /\ u.ci = th.ci /\ Rest6(u, th)
  <2> HIDE DEF s
  <2>1. QED
    BY <1>3, Stack
<1> HIDE DEF s, u, f, w
<1>6. /\ IsThread(w) /\ w.stack = u.stack /\ Rest6(w, u)
      /\ w.ci = [u.ci EXCEPT ![Len(u.ci)] = f]
  BY <1>1, <1>4, <1>5, CiIs
<1>7. QED
  BY <1>3, <1>5, <1>6 DEF w, f, Rest6

LEMMA Stored ==
  ASSUME NEW th, IsThread(th)
  PROVE  LET w == storeresult(th)
         IN /\ IsThread(w) /\ Rest6(w, th) /\ Len(w.stack) <= Len(th.stack)
            /\ w.ci = [th.ci EXCEPT ![Len(th.ci)] = [Ci(th) EXCEPT !.op = "none"]]
<1> DEFINE f == [Ci(th) EXCEPT !.op = "none"]
           a == Front(th.stack)
           s == [a EXCEPT ![Ci(th).func + 1] = Last(th.stack)]
           u == PutStack(th, s)
           w == storeresult(th)
<1>0. Ci(th) \in Frame /\ SeqIs(th.stack)
  BY ThreadIs
<1>1. Ci(th).func + 1 \in Nat /\ f \in Frame
  <2>1. Ci(th).func \in Nat
    BY <1>0, FrameIs
  <2>2. f \in Frame
    BY <1>0, FrameHas
  <2>3. \A n \in Nat : n + 1 \in Nat
    OBVIOUS
  <2> HIDE DEF f
  <2>4. QED
    BY <2>1, <2>2, <2>3
<1>2. SeqIs(a) /\ Len(a) <= Len(th.stack)
  BY <1>0, FrontStack
<1>3. SeqIs(s) /\ Len(s) <= Len(th.stack)
  <2> HIDE DEF a
  <2>1. SeqIs(s) /\ Len(s) = Len(a)
    BY <1>1, <1>2, Replaced
  <2>2. QED
    BY <1>2, <2>1
<1>4. w = OnCi(u, f)
  BY DEF storeresult, PutStack
<1>5. IsThread(u) /\ u.stack = s /\ u.ci = th.ci /\ Rest6(u, th)
  <2> HIDE DEF s
  <2>1. QED
    BY <1>3, Stack
<1> HIDE DEF s, u, f, w
<1>6. /\ IsThread(w) /\ w.stack = u.stack /\ Rest6(w, u)
      /\ w.ci = [u.ci EXCEPT ![Len(u.ci)] = f]
  BY <1>1, <1>4, <1>5, CiIs
<1>7. QED
  BY <1>3, <1>5, <1>6 DEF w, f, Rest6
LEMMA FinishedOp ==
  ASSUME NEW th, IsThread(th)
  PROVE  LET w == luaV_finishOp(th)
         IN /\ IsThread(w) /\ Rest6(w, th) /\ (Len(w.stack) <= Len(th.stack) \/ Len(w.stack) = Ci(th).top)
            /\ w.ci = [th.ci EXCEPT ![Len(th.ci)] = [Ci(th) EXCEPT !.op = "none"]]
BY Stored, Refilled DEF luaV_finishOp

\* The frame gets room for n slots more.
LEMMA Roomier ==
  ASSUME NEW th, IsThread(th), NEW n \in Nat
  PROVE  LET w == lua_checkstack(th, n)
             h == IF Ci(th).top >= Len(th.stack) + n THEN Ci(th).top ELSE Len(th.stack) + n
         IN /\ IsThread(w) /\ Rest6(w, th) /\ w.stack = th.stack /\ Len(w.ci) = Len(th.ci)
            /\ w.ci = [th.ci EXCEPT ![Len(th.ci)] = [Ci(th) EXCEPT !.top = h]]
            /\ Ci(w) = [Ci(th) EXCEPT !.top = h]
            /\ \A i \in 1..(Len(th.ci) - 1) : w.ci[i] = th.ci[i]
<1> DEFINE S == {Ci(th).top, Len(th.stack) + n}
           h == IF Ci(th).top >= Len(th.stack) + n THEN Ci(th).top ELSE Len(th.stack) + n
           f == [Ci(th) EXCEPT !.top = h]
<1>0. Ci(th) \in Frame /\ Len(th.stack) \in Nat
  BY ThreadIs
<1>1. Ci(th).top \in Nat /\ Len(th.stack) \in Nat /\ h \in Nat /\ f \in Frame
  <2>1. Ci(th).top \in Nat
    BY <1>0, FrameIs
  <2>2. h \in Nat
    BY <1>0, <2>1
  <2> HIDE DEF h
  <2>3. f \in Frame
    BY <1>0, <2>2, FrameHas
  <2>4. QED
    BY <1>0, <2>1, <2>2, <2>3
<1>2. S \in SUBSET (0..h) /\ S # {} /\ h \in S
  BY <1>1
<1>3. Max(S) \in S /\ \A x \in S : x <= Max(S)
  BY <1>1, <1>2, MaxIs
<1>4. Max(S) = h
  BY <1>1, <1>3
<1>5. lua_checkstack(th, n) = OnCi(th, f)
  BY <1>4 DEF lua_checkstack
<1>6. QED
  BY <1>1, <1>5, CiIs
LEMMA Unprotected ==
  ASSUME NEW th, IsThread(th)
  PROVE  LET w == unprotected(th)
         IN /\ IsThread(w) /\ w.stack = th.stack /\ w.status = th.status /\ w.nny = th.nny
            /\ w.nCcalls = th.nCcalls /\ w.big = th.big /\ Len(w.ci) = Len(th.ci)
            /\ w.ci = [th.ci EXCEPT ![Len(th.ci)] = [Ci(th) EXCEPT !.yp = FALSE]]
            /\ Ci(w) = [Ci(th) EXCEPT !.yp = FALSE]
            /\ \A i \in 1..(Len(th.ci) - 1) : w.ci[i] = th.ci[i]
<1> DEFINE u == PutErrfunc(th, Ci(th).olderr)
           f == [Ci(th) EXCEPT !.yp = FALSE]
<1>0. Ci(th) \in Frame
  BY ThreadIs
<1>1. f \in Frame /\ Ci(th).olderr \in Nat
  BY <1>0, FrameIs, FrameHas
<1>3. /\ IsThread(u) /\ u.status = th.status /\ u.stack = th.stack /\ u.ci = th.ci
      /\ u.nny = th.nny /\ u.nCcalls = th.nCcalls /\ u.big = th.big
  <2>1. u = PutErrfunc(th, Ci(th).olderr)
    OBVIOUS
  <2> HIDE DEF u
  <2>2. QED
    BY <1>1, <2>1, SetErrfunc
<1>4. unprotected(th) = OnCi(u, f)
  BY DEF unprotected, PutErrfunc
<1>6. Ci(th) = th.ci[Len(th.ci)]
  BY ThreadIs
<1> HIDE DEF u, f
<1> DEFINE w == OnCi(u, f)
<1>5. /\ IsThread(w) /\ w.stack = u.stack /\ Rest6(w, u)
      /\ w.ci = [u.ci EXCEPT ![Len(u.ci)] = f] /\ Len(w.ci) = Len(u.ci)
      /\ \A i \in 1..(Len(u.ci) - 1) : w.ci[i] = u.ci[i]
      /\ Ci(w) = f
  BY <1>1, <1>3, CiIs
<1> HIDE DEF w
<1>7. QED
  BY <1>3, <1>4, <1>5 DEF Rest6, f, w
LEMMA LimIs ==
  ASSUME NEW th, IsThread(th)
  PROVE  /\ lim(th) \in Nat /\ lim(th) >= LUAI_MAXSTACK - EXTRA_STACK
         /\ th.big => lim(th) = LUAI_MAXSTACK + ErrorSpace - EXTRA_STACK
         /\ ~th.big => lim(th) = LUAI_MAXSTACK - EXTRA_STACK
         /\ LUAI_MAXSTACK - EXTRA_STACK >= 1 + LUA_MINSTACK
<1>1. th.big \in BOOLEAN
  BY ThreadIs
<1>2. QED
  BY <1>1, Sizes DEF lim
\* No slot or frame is beyond n.
Within(th, n) == Len(th.stack) <= n /\ \A i \in 1..Len(th.ci) : th.ci[i].top <= n
LEMMA Shrunk ==
  ASSUME NEW th, IsThread(th), NEW n \in Nat, Within(th, n)
  PROVE  LET w == luaD_shrinkstack(th)
         IN /\ IsThread(w) /\ w.stack = th.stack /\ w.ci = th.ci /\ w.status = th.status
            /\ w.nny = th.nny /\ w.nCcalls = th.nCcalls /\ w.errfunc = th.errfunc
            /\ w.big = th.big \/ (~w.big /\ Within(th, LUAI_MAXSTACK - EXTRA_STACK))
<1> DEFINE S == {Len(th.stack)} \cup {th.ci[i].top : i \in DOMAIN th.ci}
           b == th.big /\ stackinuse(th) > LUAI_MAXSTACK - EXTRA_STACK
           w == luaD_shrinkstack(th)
           e == LUAI_MAXSTACK - EXTRA_STACK
<1>1. /\ Len(th.stack) \in Nat /\ DOMAIN th.ci = 1..Len(th.ci) /\ Len(th.ci) \in Nat
      /\ \A i \in 1..Len(th.ci) : th.ci[i].top \in Nat
  <2>1. /\ Len(th.stack) \in Nat /\ th.ci \in Seq(Frame) /\ Len(th.ci) \in Nat
        /\ \A i \in 1..Len(th.ci) : th.ci[i] \in Frame
    BY ThreadIs
  <2>2. DOMAIN th.ci = 1..Len(th.ci)
    BY <2>1
  <2>3. QED
    BY <2>1, <2>2, FrameIs
<1>2. S \in SUBSET (0..n) /\ S # {}
  <2>1. \A i \in DOMAIN th.ci : th.ci[i].top \in 0..n
    BY <1>1 DEF Within
  <2>2. Len(th.stack) \in 0..n
    BY <1>1 DEF Within
  <2>3. QED
    BY <2>1, <2>2
<1>3. Max(S) \in S /\ \A x \in S : x <= Max(S)
  <2> HIDE DEF S
  <2>1. QED
    BY <1>2, MaxIs
<1>4. stackinuse(th) = Max(S) + 1 /\ Max(S) \in Nat
  BY <1>2, <1>3 DEF stackinuse
<1>5. b \in BOOLEAN /\ e \in Nat
  BY Sizes, ThreadIs
<1>6. w = PutBig(th, b)
  BY DEF luaD_shrinkstack, PutBig
<1>7. b = th.big \/ (~b /\ Within(th, e))
  <2>1. CASE b
    BY <2>1, ThreadIs
  <2>2. CASE ~th.big
    BY <2>2, ThreadIs, <1>5
  <2>3. CASE ~b /\ th.big
    <3>1. Max(S) <= e
      BY <2>3, <1>4, <1>5
    <3>2. \A x \in S : x \in Nat /\ x <= e
      <4> HIDE DEF S, e
      <4>1. QED
        BY <3>1, <1>2, <1>3, <1>4, <1>5
    <3>3. Within(th, e)
      BY <3>2, <1>1 DEF Within
    <3>4. QED
      BY <2>3, <3>3
  <2>4. QED
    BY <2>1, <2>2, <2>3, <1>5, ThreadIs
<1> HIDE DEF b, w
<1>8. /\ IsThread(w) /\ w.big = b /\ w.stack = th.stack /\ w.ci = th.ci /\ w.status = th.status
      /\ w.nny = th.nny /\ w.nCcalls = th.nCcalls /\ w.errfunc = th.errfunc
  BY <1>5, <1>6, SetBig
<1>9. QED
  BY <1>7, <1>8 DEF w

LEMMA InfosCut ==
  ASSUME NEW c \in Seq(Frame), NEW n \in 1..Len(c)
  PROVE  /\ SubSeq(c, 1, n) \in Seq(Frame) /\ Len(SubSeq(c, 1, n)) = n
         /\ \A i \in 1..n : SubSeq(c, 1, n)[i] = c[i]
OBVIOUS
LEMMA Bounds ==
  ASSUME NEW th, IsThread(th), Slots(th)
  PROVE  Within(th, lim(th) + 4) /\ (~errorstatus(th.status) => \A i \in 1..Len(th.ci) : th.ci[i].top <= lim(th))
<1>1. lim(th) \in Nat /\ Len(th.stack) \in Nat
  BY LimIs, ThreadIs
<1>2. \A i \in 1..Len(th.ci) : th.ci[i].top \in Nat
  BY ThreadIs, FrameIs
<1>3. QED
  BY <1>1, <1>2 DEF Within, Slots
\* The stack as it is after an error, with the frames up to m and the error at n.
Recut(th, st, m, n, ny, nC, e) ==
  [luaD_shrinkstack([[[seterrorobj(th, st, n - 1) EXCEPT !.ci = SubSeq(th.ci, 1, m)] EXCEPT !.nny = ny]
                      EXCEPT !.nCcalls = nC]) EXCEPT !.errfunc = e]
LEMMA RecutIs ==
  ASSUME NEW th, IsThread(th), Slots(th), ~errorstatus(th.status), NEW st, NEW m, m \in 1..Len(th.ci),
         NEW n, n \in Nat, n >= 1, n <= th.ci[m].top, NEW ny, ny \in Int, NEW nC, nC \in Int,
         NEW e, e \in Nat
  PROVE  LET w == Recut(th, st, m, n, ny, nC, e)
         IN /\ IsThread(w) /\ Slots(w) /\ w.status = th.status /\ Len(w.stack) = n /\ Len(w.ci) = m
            /\ \A i \in 1..m : w.ci[i] = th.ci[i]
            /\ w.nny = ny /\ w.nCcalls = nC /\ w.errfunc = e
<1> DEFINE a1 == seterrorobj(th, st, n - 1)
           c  == SubSeq(th.ci, 1, m)
           a2 == PutInfos(a1, c)
           a3 == PutNny(a2, ny)
           a  == PutCalls(a3, nC)
           b  == luaD_shrinkstack(a)
           w  == PutErrfunc(b, e)
<1>1. IsThread(a1) /\ Len(a1.stack) = n /\ Rest6(a1, th) /\ n - 1 \in Nat
  <2>1. n - 1 \in Nat /\ n = (n - 1) + 1
    OBVIOUS
  <2> HIDE DEF a1
  <2>2. IsThread(a1) /\ Len(a1.stack) = (n - 1) + 1 /\ Rest6(a1, th)
    BY <2>1, ErrorObject DEF a1
  <2>3. QED
    BY <2>1, <2>2
<1>2. c \in Seq(Frame) /\ Len(c) = m /\ m >= 1 /\ \A i \in 1..m : c[i] = th.ci[i]
  BY InfosCut, ThreadIs
<1>3. a2 = PutInfos(a1, c) /\ a3 = PutNny(a2, ny) /\ a = PutCalls(a3, nC)
  OBVIOUS
<1> HIDE DEF a1, c, a2, a3, a
<1>4. IsThread(a2) /\ a2.stack = a1.stack /\ a2.ci = c /\ Rest6(a2, a1)
  BY <1>1, <1>2, <1>3, Infos
<1>5. /\ IsThread(a3) /\ a3.stack = a1.stack /\ a3.ci = c /\ a3.status = th.status /\ a3.nny = ny
      /\ a3.big = th.big
  <2>1. IsThread(a2) /\ a3 = PutNny(a2, ny)
    BY <1>3, <1>4
  <2>2. /\ IsThread(a3) /\ a3.stack = a2.stack /\ a3.ci = a2.ci /\ a3.status = a2.status /\ a3.nny = ny
        /\ a3.big = a2.big
    BY <2>1, SetNny
  <2>3. QED
    BY <2>2, <1>1, <1>4 DEF Rest6
<1>6. /\ IsThread(a) /\ a.stack = a1.stack /\ a.ci = c /\ a.status = th.status /\ a.nny = ny
      /\ a.nCcalls = nC /\ a.big = th.big
  <2>1. IsThread(a3) /\ a = PutCalls(a3, nC)
    BY <1>3, <1>5
  <2>2. /\ IsThread(a) /\ a.stack = a3.stack /\ a.ci = a3.ci /\ a.status = a3.status /\ a.nny = a3.nny
        /\ a.nCcalls = nC /\ a.big = a3.big
    BY <2>1, SetCalls
  <2>3. QED
    BY <2>2, <1>5
<1>7. \A i \in 1..m : FrameFits(i, c[i]) /\ c[i].top <= lim(th) /\ c[i].top \in Nat
  <2>1. m \in 1..Len(th.ci) /\ Len(th.ci) \in Nat /\ \A i \in 1..Len(th.ci) : th.ci[i].top \in Nat
    BY ThreadIs, FrameIs
  <2>2. QED
    BY <1>2, <2>1 DEF Slots
<1>8. Within(a, lim(th)) /\ lim(th) \in Nat
  <2>1. lim(th) \in Nat
    BY LimIs
  <2>2. th.ci[m].top <= lim(th) /\ th.ci[m].top \in Nat
    BY <1>2, <1>7
  <2>3. n <= lim(th)
    BY <2>1, <2>2
  <2>4. QED
    BY <2>1, <2>3, <1>1, <1>2, <1>6, <1>7 DEF Within
<1>9. /\ IsThread(b) /\ b.stack = a.stack /\ b.ci = a.ci /\ b.status = a.status
      /\ b.nny = ny /\ b.nCcalls = nC
      /\ b.big = a.big \/ (~b.big /\ Within(a, LUAI_MAXSTACK - EXTRA_STACK))
  BY <1>6, <1>8, Shrunk
<1>10. w = PutErrfunc(b, e)
  OBVIOUS
<1> HIDE DEF b, w
<1>11. /\ IsThread(w) /\ w.stack = b.stack /\ w.ci = b.ci /\ w.status = b.status
       /\ w.nny = ny /\ w.nCcalls = nC /\ w.errfunc = e /\ w.big = b.big
  <2>1. IsThread(b) /\ w = PutErrfunc(b, e)
    BY <1>9, <1>10
  <2>2. /\ IsThread(w) /\ w.stack = b.stack /\ w.ci = b.ci /\ w.status = b.status
        /\ w.nny = b.nny /\ w.nCcalls = b.nCcalls /\ w.errfunc = e /\ w.big = b.big
    BY <2>1, SetErrfunc
  <2>3. QED
    BY <2>2, <1>9
<1>12. Within(w, lim(w)) /\ lim(w) \in Nat
  <2>1. CASE b.big = a.big
    <3>1. lim(w) = lim(th)
      BY <2>1, <1>6, <1>11 DEF lim
    <3>2. QED
      BY <3>1, <1>8, <1>9, <1>11 DEF Within
  <2>2. CASE ~b.big /\ Within(a, LUAI_MAXSTACK - EXTRA_STACK)
    <3>1. lim(w) = LUAI_MAXSTACK - EXTRA_STACK /\ lim(w) \in Nat
      BY <2>2, <1>11, LimIs
    <3>2. QED
      BY <3>1, <2>2, <1>9, <1>11 DEF Within
  <2>3. QED
    BY <2>1, <2>2, <1>9
<1>13. Slots(w)
  <2>1. Len(w.stack) <= lim(w) + 3
    BY <1>12, <1>11, ThreadIs DEF Within
  <2>2. w.status = th.status /\ w.ci = c
    BY <1>6, <1>9, <1>11
  <2>3. QED
    BY <1>2, <1>7, <1>12, <2>1, <2>2 DEF Slots, Within
<1>14. w = Recut(th, st, m, n, ny, nC, e)
  BY DEF w, b, a, a3, a2, a1, c, Recut, PutInfos, PutNny, PutCalls, PutErrfunc
<1>15. QED
  BY <1>1, <1>2, <1>6, <1>9, <1>11, <1>13, <1>14
\* The same, to be cited as a whole.
CanRecut(th, m, n, ny, nC, e) ==
  /\ IsThread(th) /\ Slots(th) /\ ~errorstatus(th.status) /\ m \in 1..Len(th.ci)
  /\ n \in Nat /\ n >= 1 /\ n <= th.ci[m].top /\ ny \in Int /\ nC \in Int /\ e \in Nat
IsRecut(w, th, m, n, ny, nC) ==
  /\ IsThread(w) /\ Slots(w) /\ w.status = th.status /\ Len(w.stack) = n /\ Len(w.ci) = m
  /\ \A i \in 1..m : w.ci[i] = th.ci[i]
  /\ w.nny = ny /\ w.nCcalls = nC
LEMMA RecutHas ==
  ASSUME NEW th, NEW st, NEW m, NEW n, NEW ny, NEW nC, NEW e, CanRecut(th, m, n, ny, nC, e)
  PROVE  IsRecut(Recut(th, st, m, n, ny, nC, e), th, m, n, ny, nC)
<1> DEFINE w == Recut(th, st, m, n, ny, nC, e)
<1>1. /\ IsThread(th) /\ Slots(th) /\ ~errorstatus(th.status) /\ m \in 1..Len(th.ci)
      /\ n \in Nat /\ n >= 1 /\ n <= th.ci[m].top /\ ny \in Int /\ nC \in Int /\ e \in Nat
  BY DEF CanRecut
<1>2. IsThread(w) /\ Slots(w)
  BY <1>1, RecutIs
<1>3. w.status = th.status /\ Len(w.stack) = n
  BY <1>1, RecutIs
<1>4. Len(w.ci) = m /\ \A i \in 1..m : w.ci[i] = th.ci[i]
  BY <1>1, RecutIs
<1>5. w.nny = ny /\ w.nCcalls = nC
  BY <1>1, RecutIs
<1> HIDE DEF w
<1>6. IsRecut(w, th, m, n, ny, nC)
  BY <1>2, <1>3, <1>4, <1>5 DEF IsRecut
<1>7. QED
  BY <1>6 DEF w
LEMMA UnwoundIs ==
  ASSUME NEW th, IsThread(th), NEW r, NEW st
  PROVE  Unwound(th, r, st) = Recut(th, st, r.at, r.func, r.nny, r.nCcalls, r.errfunc)
<1>1. seterrorobj(th, st, r.func - 1).ci = th.ci
  BY DEF seterrorobj, IsThread, ThreadOver
<1>2. QED
  BY <1>1 DEF Unwound, Recut
LEMMA RecoverIs ==
  ASSUME NEW th, IsThread(th), NEW i, NEW st, NEW n
  PROVE  recover(th, st, i, n) = Recut(th, st, i, th.ci[i].extra, 0, n, th.ci[i].olderr)
<1>1. seterrorobj(th, st, th.ci[i].extra - 1).ci = th.ci
  BY DEF seterrorobj, IsThread, ThreadOver
<1>2. QED
  BY <1>1 DEF recover, Recut
LEMMA DeadIs ==
  ASSUME NEW th, IsThread(th), Slots(th), ~errorstatus(th.status), NEW st \in {"ERRRUN", "ERRERR"}
  PROVE  LET w == dead(th, st)
         IN /\ IsThread(w) /\ w.status = st /\ w.big = th.big /\ w.nny = th.nny
            /\ Len(w.stack) = Len(th.stack) + 1 /\ Within(w, lim(w) + 4)
<1> DEFINE e == seterrorobj(th, st, Len(th.stack))
           f == [Ci(e) EXCEPT !.top = Len(e.stack)]
           u == OnCi(e, f)
           w == PutStatus(u, st)
<1>1. Len(th.stack) \in Nat
  BY ThreadIs
<1>2. IsThread(e) /\ Len(e.stack) = Len(th.stack) + 1 /\ e.ci = th.ci /\ Rest6(e, th)
  BY <1>1, ErrorObject
<1> HIDE DEF e
<1>3. f \in Frame
  <2>1. Ci(e) \in Frame /\ Len(e.stack) \in Nat
    BY <1>2, ThreadIs
  <2>2. QED
    BY <2>1, FrameHas
<1>4. f.top = Len(e.stack)
  <2>1. Ci(e) \in Frame /\ Len(e.stack) \in Nat
    BY <1>2, ThreadIs
  <2>2. QED
    BY <2>1 DEF Frame
<1> HIDE DEF f
<1>5. /\ IsThread(u) /\ u.stack = e.stack /\ Rest6(u, e) /\ Len(u.ci) = Len(e.ci)
      /\ u.ci[Len(e.ci)] = f /\ \A i \in 1..(Len(e.ci) - 1) : u.ci[i] = e.ci[i]
  BY <1>2, <1>3, CiIs
<1>6. w = PutStatus(u, st) /\ st \in Statuses
  BY DEF Statuses
<1>7. w = dead(th, st)
  BY DEF dead, e, f, w, u, PutStatus
<1> HIDE DEF u, w
<1>8. IsThread(w) /\ w.stack = u.stack /\ w.ci = u.ci /\ w.status = st /\ w.big = u.big /\ w.nny = u.nny
  BY <1>5, <1>6, SetStatus
<1>9. w.big = th.big /\ w.nny = th.nny /\ Len(w.stack) = Len(th.stack) + 1
  BY <1>2, <1>5, <1>8 DEF Rest6
<1>10. lim(w) = lim(th) /\ lim(th) \in Nat
  BY <1>9, LimIs DEF lim
<1>11. Len(w.stack) <= lim(w) + 4
  BY <1>1, <1>9, <1>10 DEF Slots
<1>12. ASSUME NEW i \in 1..Len(w.ci) PROVE w.ci[i].top <= lim(w) + 4
  <2>1. Len(e.ci) \in Nat /\ Len(w.ci) = Len(e.ci)
    BY <1>2, <1>5, <1>8, ThreadIs
  <2>2. CASE i = Len(e.ci)
    BY <2>2, <1>4, <1>5, <1>8, <1>11
  <2>3. CASE i \in 1..(Len(e.ci) - 1)
    <3>1. w.ci[i] = th.ci[i] /\ i \in 1..Len(th.ci)
      BY <2>1, <2>3, <1>2, <1>5, <1>8
    <3>2. th.ci[i].top <= lim(th) /\ th.ci[i].top \in Nat
      BY <3>1, ThreadIs, FrameIs DEF Slots
    <3>3. QED
      BY <3>1, <3>2, <1>10
  <2>4. QED
    BY <2>1, <2>2, <2>3
<1>13. QED
  BY <1>7, <1>8, <1>9, <1>11, <1>12 DEF Within

\* What lua_resume leaves of the stack of the coroutine.
LEMMA LeftIs ==
  ASSUME NEW co, IsThread(co), NEW r, r.oldnny \in Int, r.nCcalls \in Int, NEW n \in Nat, n <= Len(co.stack)
  PROVE  LET w == Left(co, r, n)
         IN /\ IsThread(w) /\ w.ci = co.ci /\ w.status = co.status /\ w.big = co.big
            /\ Len(w.stack) = Len(co.stack) - n /\ w.nny = r.oldnny
<1> DEFINE s == SubSeq(co.stack, 1, Len(co.stack) - n)
           a == PutStack(co, s)
           x == r.oldnny
           y == r.nCcalls - 1
           b == PutNny(a, x)
           w == PutCalls(b, y)
<1>1. SeqIs(s) /\ Len(s) = Len(co.stack) - n
  <2>1. SeqIs(co.stack) /\ Len(co.stack) \in Nat /\ Len(co.stack) - n \in Nat
    BY ThreadIs
  <2>2. SeqIs(s) /\ Len(s) = IF 1 <= Len(co.stack) - n THEN Len(co.stack) - n - 1 + 1 ELSE 0
    BY <2>1, Cut
  <2>3. QED
    BY <2>1, <2>2
<1>2. a = PutStack(co, s) /\ b = PutNny(a, x)
      /\ w = PutCalls(b, y) /\ y \in Int /\ x \in Int
  OBVIOUS
<1>3. w = Left(co, r, n)
  BY DEF Left, PutStack, PutNny, PutCalls
<1> HIDE DEF s, a, b, w, x, y
<1>4. IsThread(a) /\ a.stack = s /\ a.ci = co.ci /\ a.status = co.status /\ a.big = co.big
  BY <1>1, <1>2, SetStack
<1>5. IsThread(b) /\ b.stack = s /\ b.ci = co.ci /\ b.status = co.status /\ b.big = co.big /\ b.nny = x
  BY <1>2, <1>4, SetNny
<1>6. /\ IsThread(w) /\ w.stack = s /\ w.ci = co.ci /\ w.status = co.status /\ w.big = co.big
      /\ w.nny = x
  BY <1>2, <1>5, SetCalls
<1>7. QED
  BY <1>1, <1>3, <1>6 DEF x
-----------------------------------------------------------------------------
(* The C stack.                                                            *)

LEMMA RecordIs ==
  ASSUME NEW r \in Record
  PROVE  /\ r.t \in Threads /\ r.at \in Nat /\ r.at >= 1
         /\ r.a \in Callers \cup {"C", "docall", "exec", "resume", "unroll"}
         /\ r.a \in Callers => r.ny \in BOOLEAN
         /\ r.a \in {"C", "docall"} => r.back \in BOOLEAN /\ r.status \in Statuses
         /\ r.a = "unroll" => r.status \in Statuses
         /\ r.a = "pcall" => r.func \in Nat /\ r.nny \in Int /\ r.errfunc \in Nat /\ r.nCcalls \in Int
         /\ r.a = "resume" => r.oldnny \in Int /\ r.nCcalls \in Int
BY DEF Record, Callers, Places
LEMMA PushedRecord ==
  ASSUME NEW D \in Seq(Record), NEW r \in Record
  PROVE  LET E == Append(D, r)
         IN /\ E \in Seq(Record) /\ Len(E) = Len(D) + 1 /\ E[Len(D) + 1] = r /\ Last(E) = r
            /\ \A i \in 1..Len(D) : E[i] = D[i]
BY DEF Last

\* E is the beginning of D, but the last record may be marked.
Alike(q, r) ==
  q.a = r.a /\ q.t = r.t /\ q.at = r.at /\ (q.a \notin {"C", "docall", "unroll"} => q = r)
Beginning(E, D, m) ==
  /\ E \in Seq(Record) /\ m \in 1..Len(D) /\ Len(E) = m
  /\ \A i \in 1..m : Alike(D[i], E[i]) /\ (i < m => E[i] = D[i])

LEMMA ShapeBeginning ==
  ASSUME NEW D \in Seq(Record), Shape(D), NEW m, NEW E, Beginning(E, D, m)
  PROVE  Shape(E)
<1>1. /\ m \in Nat /\ m >= 1 /\ m <= Len(D) /\ Len(E) = m /\ Len(D) \in Nat
      /\ \A i \in 1..m : E[i].a = D[i].a /\ E[i].t = D[i].t /\ E[i].at = D[i].at
      /\ \A i \in 1..m : i < m => E[i] = D[i]
  BY DEF Beginning, Alike
<1>2. Base(E)
  BY <1>1 DEF Shape, Base
<1>3. Together(E)
  <2>1. ASSUME NEW i \in 1..m, NEW j \in 1..m, i < j, \A k \in (i + 1)..j : E[k].a # "resume"
        PROVE  E[i].t = E[j].t
    <3>1. \A k \in (i + 1)..j : D[k].a # "resume"
      BY <1>1, <2>1
    <3>2. i \in 1..Len(D) /\ j \in 1..Len(D)
      BY <1>1
    <3>3. D[i].t = D[j].t
      BY <2>1, <3>1, <3>2 DEF Shape, Together
    <3>4. QED
      BY <1>1, <3>3
  <2>2. QED
    BY <1>1, <2>1 DEF Together
<1>4. Apart(E)
  <2>1. ASSUME NEW i \in 1..m, NEW j \in 1..m, NEW k \in 1..m, i < k, k <= j, E[k].a = "resume"
        PROVE  E[i].t # E[j].t
    <3>1. i \in 1..Len(D) /\ j \in 1..Len(D) /\ k \in 1..Len(D) /\ D[k].a = "resume"
      BY <1>1, <2>1
    <3>2. D[i].t # D[j].t
      BY <2>1, <3>1 DEF Shape, Apart
    <3>3. QED
      BY <1>1, <3>2
  <2>2. QED
    BY <1>1, <2>1 DEF Apart
<1>5. Order(E)
  <2>1. ASSUME NEW i \in 1..m, NEW j \in 1..m, i < j, E[i].t = E[j].t
        PROVE  E[i].at <= E[j].at /\ (E[j].a \in {"C", "exec"} => E[i].at < E[j].at)
    <3>1. i \in 1..Len(D) /\ j \in 1..Len(D) /\ D[i].t = D[j].t
      BY <1>1, <2>1
    <3>2. D[i].at <= D[j].at /\ (D[j].a \in {"C", "exec"} => D[i].at < D[j].at)
      BY <2>1, <3>1 DEF Shape, Order
    <3>3. QED
      BY <1>1, <3>2
  <2>2. QED
    BY <1>1, <2>1 DEF Order
<1>6. QED
  BY <1>2, <1>3, <1>4, <1>5 DEF Shape

\* A record that may follow the last one.
Follows(r, D) ==
  /\ r.a # "docall" /\ (Len(D) = 1 => r.a = "pcall" /\ ~D[1].back)
  /\ IF r.a = "resume" THEN \A j \in 1..Len(D) : D[j].t # r.t
     ELSE /\ D[Len(D)].t = r.t /\ D[Len(D)].at <= r.at
          /\ r.a \in {"C", "exec"} => D[Len(D)].at < r.at
LEMMA ShapePushed ==
  ASSUME NEW D \in Seq(Record), Len(D) >= 1, Shape(D), NEW r \in Record, Follows(r, D)
  PROVE  Shape(Append(D, r))
<1> DEFINE E == Append(D, r)
           n == Len(D)
<1>1. n \in Nat /\ n >= 1 /\ Len(E) = n + 1 /\ E[n + 1] = r /\ \A i \in 1..n : E[i] = D[i]
  BY PushedRecord
<1>0. \A i \in 1..(n + 1) : i \in 1..n \/ i = n + 1
  BY <1>1
<1>2. /\ r.at \in Nat /\ \A i \in 1..n : D[i].at \in Nat
  BY RecordIs
<1> HIDE DEF E, n
<1>3. Base(E)
  <2>1. E[1] = D[1] /\ D[1].a = "docall" /\ D[1].t = "main"
    BY <1>1 DEF Shape, Base
  <2>2. \A j \in 2..(n + 1) : E[j].a # "docall"
    <3>1. \A j \in 2..n : D[j].a # "docall" /\ E[j] = D[j]
      BY <1>1 DEF Shape, Base, n
    <3>2. r.a # "docall"
      BY DEF Follows
    <3>3. QED
      BY <1>0, <1>1, <3>1, <3>2
  <2>3. E[2].a = "pcall" /\ ~D[1].back
    <3>1. CASE n = 1
      BY <1>1, <3>1 DEF Follows, n
    <3>2. CASE n >= 2
      <4>1. E[2] = D[2]
        BY <1>1, <3>2
      <4>2. QED
        BY <3>2, <4>1 DEF Shape, Base, n
    <3>3. QED
      BY <1>1, <3>1, <3>2
  <2>4. QED
    BY <1>1, <2>1, <2>2, <2>3 DEF Base
<1>4. Together(E)
  <2>1. ASSUME NEW i \in 1..(n + 1), NEW j \in 1..(n + 1), i < j, \A k \in (i + 1)..j : E[k].a # "resume"
        PROVE  E[i].t = E[j].t
    <3>0. i \in 1..n
      BY <1>1, <2>1
    <3>1. CASE j \in 1..n
      <4>1. \A k \in (i + 1)..j : D[k].a # "resume"
        BY <1>1, <2>1, <3>1
      <4>2. QED
        BY <1>1, <2>1, <3>0, <3>1, <4>1 DEF Shape, Together, n
    <3>2. CASE j = n + 1
      <4>1. r.a # "resume"
        BY <1>1, <2>1, <3>2
      <4>2. \A k \in (i + 1)..n : D[k].a # "resume"
        BY <1>1, <2>1, <3>2
      <4>3. D[i].t = D[n].t
        <5>1. CASE i = n
          BY <5>1
        <5>2. CASE i < n
          BY <1>1, <3>0, <4>2, <5>2 DEF Shape, Together, n
        <5>3. QED
          BY <3>0, <5>1, <5>2, <1>1
      <4>4. QED
        BY <1>1, <3>0, <3>2, <4>1, <4>3 DEF Follows, n
    <3>3. QED
      BY <1>0, <3>1, <3>2
  <2>2. QED
    BY <1>1, <2>1 DEF Together
<1>5. Apart(E)
  <2>1. ASSUME NEW i \in 1..(n + 1), NEW j \in 1..(n + 1), NEW k \in 1..(n + 1),
               i < k, k <= j, E[k].a = "resume"
        PROVE  E[i].t # E[j].t
    <3>0. i \in 1..n
      BY <1>1, <2>1
    <3>1. CASE j \in 1..n
      <4>1. k \in 1..n /\ D[k].a = "resume"
        BY <1>1, <2>1, <3>1
      <4>2. QED
        BY <1>1, <2>1, <3>0, <3>1, <4>1 DEF Shape, Apart, n
    <3>2. CASE j = n + 1 /\ r.a = "resume"
      BY <1>1, <3>0, <3>2 DEF Follows, n
    <3>3. CASE j = n + 1 /\ r.a # "resume"
      <4>1. k \in 1..n /\ D[k].a = "resume"
        BY <1>0, <1>1, <2>1, <3>3
      <4>2. D[i].t # D[n].t
        BY <1>1, <2>1, <3>0, <4>1 DEF Shape, Apart, n
      <4>3. QED
        BY <1>1, <3>0, <3>3, <4>2 DEF Follows, n
    <3>4. QED
      BY <1>0, <3>1, <3>2, <3>3
  <2>2. QED
    BY <1>1, <2>1 DEF Apart
<1>6. Order(E)
  <2>1. ASSUME NEW i \in 1..(n + 1), NEW j \in 1..(n + 1), i < j, E[i].t = E[j].t
        PROVE  E[i].at <= E[j].at /\ (E[j].a \in {"C", "exec"} => E[i].at < E[j].at)
    <3>0. i \in 1..n
      BY <1>1, <2>1
    <3>1. CASE j \in 1..n
      BY <1>1, <2>1, <3>0, <3>1 DEF Shape, Order, n
    <3>2. CASE j = n + 1
      <4>1. r.a # "resume"
        BY <1>1, <2>1, <3>0, <3>2 DEF Follows, n
      <4>2. D[n].t = r.t /\ D[n].at <= r.at /\ (r.a \in {"C", "exec"} => D[n].at < r.at)
        BY <4>1 DEF Follows, n
      <4>3. D[i].at <= D[n].at
        <5>1. CASE i = n
          BY <1>1, <1>2, <5>1
        <5>2. CASE i < n
          BY <1>1, <2>1, <3>0, <3>2, <4>2, <5>2 DEF Shape, Order, n
        <5>3. QED
          BY <1>1, <3>0, <5>1, <5>2
      <4>4. D[i].at \in Nat /\ D[n].at \in Nat
        BY <1>1, <1>2, <3>0
      <4>5. E[i] = D[i] /\ E[j] = r
        BY <1>1, <3>0, <3>2
      <4>6. QED
        BY <1>2, <4>2, <4>3, <4>4, <4>5
    <3>3. QED
      BY <1>0, <3>1, <3>2
  <2>2. QED
    BY <1>1, <2>1 DEF Order
<1>7. QED
  BY <1>3, <1>4, <1>5, <1>6 DEF Shape, E

\* Whom the records after the m-th belong to.
LEMMA After ==
  ASSUME NEW D \in Seq(Record), Shape(D), NEW m \in 1..Len(D), NEW j \in 1..m, NEW i \in (m + 1)..Len(D),
         D[j].t = D[i].t
  PROVE  D[m].t = D[i].t
<1>1. CASE j = m
  BY <1>1
<1>2. CASE j < m
  <2>1. \A k \in (j + 1)..m : D[k].a # "resume"
    <3>1. ASSUME NEW k \in (j + 1)..m, D[k].a = "resume" PROVE FALSE
      <4>1. j \in 1..Len(D) /\ i \in 1..Len(D) /\ k \in 1..Len(D) /\ j < k /\ k <= i
        OBVIOUS
      <4>2. QED
        BY <3>1, <4>1 DEF Shape, Apart
    <3>2. QED
      BY <3>1
  <2>2. j \in 1..Len(D)
    OBVIOUS
  <2>3. QED
    BY <1>2, <2>1, <2>2 DEF Shape, Together
<1>3. QED
  BY <1>1, <1>2
\* A thread that does not run has resumed one.
LEMMA Resumed ==
  ASSUME NEW D \in Seq(Record), Shape(D), NEW t, InUse(D, t), t # D[Len(D)].t
  PROVE  \E j \in 1..(Len(D) - 1) : /\ D[j].t = t /\ D[j + 1].a = "resume"
                                    /\ \A i \in (j + 1)..Len(D) : D[i].t # t
<1> DEFINE S == {i \in 1..Len(D) : D[i].t = t}
           j == Max(S)
<1>1. S \in SUBSET (0..Len(D)) /\ S # {} /\ Len(D) \in Nat
  BY DEF InUse
<1>2. Max(S) \in S /\ \A x \in S : x <= Max(S)
  <2> HIDE DEF S
  <2>1. QED
    BY <1>1, MaxIs
<1>3. j \in 1..(Len(D) - 1) /\ D[j].t = t /\ \A i \in (j + 1)..Len(D) : D[i].t # t
  <2>1. j \in 1..Len(D) /\ D[j].t = t /\ \A i \in S : i <= j
    BY <1>2
  <2> HIDE DEF j
  <2>2. QED
    BY <2>1
<1> HIDE DEF j, S
<1>4. D[j + 1].a = "resume"
  <2>1. j \in 1..Len(D) /\ j + 1 \in 1..Len(D) /\ j < j + 1 /\ \A k \in (j + 1)..(j + 1) : k = j + 1
    BY <1>1, <1>3
  <2>2. D[j].t # D[j + 1].t
    BY <1>3, <2>1
  <2>3. QED
    BY <2>1, <2>2 DEF Shape, Together
<1>5. QED
  BY <1>3, <1>4
\* The last setjmp is one of the thread that runs.
LEMMA Catcher ==
  ASSUME NEW D \in Seq(Record), Shape(D), Len(D) >= 2
  PROVE  LET j == Max({i \in DOMAIN D : D[i].a \in {"pcall", "resume"}})
         IN /\ j \in 2..Len(D) /\ D[j].a \in {"pcall", "resume"} /\ D[j].t = D[Len(D)].t
            /\ \A i \in (j + 1)..Len(D) : D[i].a \notin {"pcall", "resume"}
<1> DEFINE S == {i \in DOMAIN D : D[i].a \in {"pcall", "resume"}}
           j == Max(S)
<1>1. S \in SUBSET (0..Len(D)) /\ 2 \in S /\ Len(D) \in Nat
  BY DEF Shape, Base
<1>2. Max(S) \in S /\ \A x \in S : x <= Max(S)
  <2> HIDE DEF S
  <2>1. QED
    BY <1>1, MaxIs
<1>3. /\ j \in 2..Len(D) /\ D[j].a \in {"pcall", "resume"}
      /\ \A i \in (j + 1)..Len(D) : D[i].a \notin {"pcall", "resume"}
  <2>1. j \in 1..Len(D) /\ D[j].a \in {"pcall", "resume"} /\ (\A i \in S : i <= j) /\ j >= 2
    BY <1>1, <1>2
  <2> HIDE DEF j
  <2>2. QED
    BY <2>1
<1>4. D[j].t = D[Len(D)].t
  <2> HIDE DEF j, S
  <2>1. CASE j = Len(D)
    BY <2>1
  <2>2. CASE j < Len(D)
    BY <1>3, <2>2 DEF Shape, Together
  <2>3. QED
    BY <1>3, <2>1, <2>2
<1>5. QED
  BY <1>3, <1>4

\* Counting.
NyOf(D, t, m) == {i \in 1..m : D[i].t = t /\ IsNy(D[i])}
CallingOf(D, m) == {i \in 1..m : D[i].a \in Callers \cup {"resume"}}
LEMMA UpTo ==
  ASSUME NEW S, NEW U, NEW m, m \in Nat, m >= 1, S \subseteq 1..m,
         \A i : i \in U <=> i \in S /\ i \in 1..(m - 1)
  PROVE  /\ IsFiniteSet(S) /\ Cardinality(S) \in Nat /\ Cardinality(U) \in Nat
         /\ Cardinality(S) = Cardinality(U) + IF m \in S THEN 1 ELSE 0
<1>1. IsFiniteSet(1..m)
  BY FS_Interval
<1>2. IsFiniteSet(S) /\ IsFiniteSet(U)
  BY <1>1, FS_Subset
<1>3. Cardinality(S) \in Nat /\ Cardinality(U) \in Nat
  BY <1>2, FS_CardinalityType
<1>0. (\A i \in 1..m : i \in 1..(m - 1) \/ i = m) /\ m \notin 1..(m - 1)
  OBVIOUS
<1>4. CASE m \in S
  <2>1. S = U \cup {m} /\ m \notin U
    BY <1>0, <1>4
  <2>2. QED
    BY <1>2, <1>3, <1>4, <2>1, FS_AddElement
<1>5. CASE m \notin S
  <2>1. S = U
    BY <1>0, <1>5
  <2>2. Cardinality(S) = Cardinality(U)
    BY <2>1, Zenon
  <2>3. QED
    BY <1>2, <1>3, <1>5, <2>2
<1>6. QED
  BY <1>2, <1>3, <1>4, <1>5
LEMMA NyStep ==
  ASSUME NEW D, NEW t, NEW m \in Nat, m >= 1
  PROVE  /\ Ny(D, t, m) \in Nat /\ Ny(D, t, m - 1) \in Nat
         /\ Ny(D, t, m) = Ny(D, t, m - 1) + IF D[m].t = t /\ IsNy(D[m]) THEN 1 ELSE 0
<1> DEFINE S == NyOf(D, t, m)
           U == NyOf(D, t, m - 1)
<1>1. S \subseteq 1..m /\ (\A i : i \in U <=> i \in S /\ i \in 1..(m - 1)) /\ (m \in S <=> D[m].t = t /\ IsNy(D[m]))
  BY DEF NyOf
<1> HIDE DEF S, U
<1>2. /\ Cardinality(S) \in Nat /\ Cardinality(U) \in Nat
      /\ Cardinality(S) = Cardinality(U) + IF m \in S THEN 1 ELSE 0
  BY <1>1, UpTo
<1>3. QED
  BY <1>1, <1>2 DEF S, U, NyOf, Ny
LEMMA CallingStep ==
  ASSUME NEW D, NEW m \in Nat, m >= 1
  PROVE  /\ Calling(D, m) \in Nat /\ Calling(D, m - 1) \in Nat
         /\ Calling(D, m) = Calling(D, m - 1) + IF D[m].a \in Callers \cup {"resume"} THEN 1 ELSE 0
<1> DEFINE S == CallingOf(D, m)
           U == CallingOf(D, m - 1)
<1>1. S \subseteq 1..m /\ (\A i : i \in U <=> i \in S /\ i \in 1..(m - 1)) /\ (m \in S <=> D[m].a \in Callers \cup {"resume"})
  BY DEF CallingOf
<1> HIDE DEF S, U
<1>2. /\ Cardinality(S) \in Nat /\ Cardinality(U) \in Nat
      /\ Cardinality(S) = Cardinality(U) + IF m \in S THEN 1 ELSE 0
  BY <1>1, UpTo
<1>3. QED
  BY <1>1, <1>2 DEF S, U, CallingOf, Calling
LEMMA CountsAlike ==
  ASSUME NEW D, NEW E, NEW m \in Nat, \A i \in 1..m : Alike(D[i], E[i])
  PROVE  (\A t : Ny(E, t, m) = Ny(D, t, m)) /\ Calling(E, m) = Calling(D, m)
<1>1. \A i \in 1..m : E[i].a = D[i].a /\ E[i].t = D[i].t /\ (IsNy(E[i]) <=> IsNy(D[i]))
  BY DEF Alike, IsNy, Callers
<1>2. \A t : {i \in 1..m : E[i].t = t /\ IsNy(E[i])} = {i \in 1..m : D[i].t = t /\ IsNy(D[i])}
  BY <1>1
<1>3. {i \in 1..m : E[i].a \in Callers \cup {"resume"}} = {i \in 1..m : D[i].a \in Callers \cup {"resume"}}
  BY <1>1
<1>4. QED
  BY <1>2, <1>3 DEF Ny, Calling
LEMMA NyShort ==
  ASSUME NEW D, NEW t, NEW m \in Nat, NEW n \in Nat, m <= n,
         \A i \in (m + 1)..n : ~(D[i].t = t /\ IsNy(D[i]))
  PROVE  Ny(D, t, n) = Ny(D, t, m)
<1>1. {i \in 1..n : D[i].t = t /\ IsNy(D[i])} = {i \in 1..m : D[i].t = t /\ IsNy(D[i])}
  <2>1. \A i \in 1..n : i \in 1..m \/ i \in (m + 1)..n
    OBVIOUS
  <2>2. QED
    BY <2>1
<1>2. QED
  BY <1>1 DEF Ny
LEMMA NyZero ==
  ASSUME NEW D, NEW t, NEW m \in Nat
  PROVE  Ny(D, t, m) \in Nat /\ (Ny(D, t, m) = 0 <=> \A i \in 1..m : D[i].t = t => ~IsNy(D[i]))
<1> DEFINE S == NyOf(D, t, m)
<1>1. IsFiniteSet(1..m) /\ S \subseteq 1..m
  BY FS_Interval DEF NyOf
<1>2. IsFiniteSet(S)
  BY <1>1, FS_Subset
<1>3. Cardinality(S) \in Nat /\ (Cardinality(S) = 0 <=> S = {})
  BY <1>2, FS_CardinalityType, FS_EmptySet
<1>4. S = {} <=> \A i \in 1..m : D[i].t = t => ~IsNy(D[i])
  BY DEF NyOf
<1>5. Cardinality(S) = Ny(D, t, m)
  BY DEF Ny, NyOf
<1> HIDE DEF S
<1>6. QED
  BY <1>3, <1>4, <1>5
-----------------------------------------------------------------------------
(* When threads and a C stack still fit each other.                        *)

Agree(g, f) ==
  /\ g.func = f.func /\ g.lua = f.lua /\ g.fresh = f.fresh /\ g.k = f.k /\ g.yp = f.yp
  /\ g.top >= f.top
\* w is th, but its stack may have another size and its frames may be larger.
Same(w, th) ==
  /\ w.stack = th.stack /\ Len(w.ci) = Len(th.ci) /\ \A i \in 1..Len(th.ci) : Agree(w.ci[i], th.ci[i])
  /\ w.nny = th.nny /\ w.nCcalls = th.nCcalls /\ w.status = th.status
\* The frames that r and the records before it know are the same.
Below(u, th, r) ==
  /\ r.at <= Len(u.ci)
  /\ \A i \in 1..r.at : Agree(u.ci[i], th.ci[i])
                        \/ (i = r.at /\ r.a = "C" /\ u.ci[i].lua = th.ci[i].lua)
\* A thread without records.
Rested(th) ==
  /\ th.nny = 1 /\ Asleep(th)
  /\ ~errorstatus(th.status) =>
       \A i \in 2..Len(th.ci) :
         ~th.ci[i].lua => (th.status = "YIELD" /\ i = Len(th.ci)) \/ th.ci[i].k \in Ks
MainNy(t) == IF t = "main" THEN 1 ELSE 0

LEMMA GoodIs ==
  ASSUME NEW M, NEW D, Good(M, D)
  PROVE  /\ D \in Seq(Record) /\ Len(D) \in Nat /\ Len(D) >= 1 /\ Shape(D)
         /\ D[1].a = "docall" /\ D[1].t = "main"
         /\ \A j \in 1..Len(D) : /\ D[j] \in Record /\ D[j].t \in Threads /\ D[j].at \in Nat /\ D[j].at >= 1
                                 /\ D[j].at <= Len(M[D[j].t].ci)
         /\ \A t \in Threads : IsThread(M[t]) /\ Slots(M[t])
         /\ "main" \in Threads
<1>1. D \in Seq(Record) /\ Len(D) \in Nat /\ Len(D) >= 1 /\ \A j \in 1..Len(D) : D[j] \in Record
  BY DEF Good, Typed
<1>2. \A j \in 1..Len(D) : D[j].t \in Threads /\ D[j].at \in Nat /\ D[j].at >= 1
  BY <1>1, RecordIs
<1>3. \A j \in 1..Len(D) : D[j].at <= Len(M[D[j].t].ci)
  BY DEF Good, Located, Placed
<1>4. Shape(D) /\ D[1].a = "docall" /\ D[1].t = "main"
  BY DEF Good, Shape, Base
<1>5. \A t \in Threads : IsThread(M[t]) /\ Slots(M[t])
  BY DEF Good, Typed, Fits
<1>6. QED
  BY <1>1, <1>2, <1>3, <1>4, <1>5 DEF Threads

LEMMA RestedIs ==
  ASSUME NEW M, NEW D, Good(M, D), NEW t \in Threads, ~InUse(D, t)
  PROVE  Rested(M[t])
<1>1. t # "main"
  BY GoodIs DEF InUse
<1>2. Asleep(M[t])
  BY DEF Good, Idle
<1>3. Ny(D, t, Len(D)) = 0
  BY GoodIs, NyZero DEF InUse
<1>4. M[t].nny = 1
  BY <1>3 DEF Good, Counts
<1>5. \A a, i : ~Has(D, a, t, i)
  BY DEF Has, InUse
<1>6. QED
  BY <1>2, <1>4, <1>5 DEF Rested, Good, Continued, ContinuedAt

\* What Below says of the frames of the earlier records.
LEMMA Lower ==
  ASSUME NEW M, NEW D, Good(M, D), NEW m \in 1..Len(D), NEW u, Below(u, M[D[m].t], D[m]), IsThread(u)
  PROVE  /\ \A i \in 1..D[m].at : i < D[m].at \/ D[m].a # "C" => Agree(u.ci[i], M[D[m].t].ci[i])
         /\ \A j \in 1..m : D[j].t = D[m].t => Placed(D[j], u)
         /\ \A j \in 1..(m - 1) : D[j].t = D[m].t /\ D[j + 1].a # "resume" =>
              Linked(D[j], D[j + 1], u)
<1> DEFINE t == D[m].t
           th == M[t]
<1>1. /\ \A j \in 1..Len(D) : D[j].at \in Nat /\ D[j].at >= 1 /\ D[j].at <= Len(M[D[j].t].ci)
      /\ Len(D) \in Nat /\ m \in Nat /\ m >= 1 /\ m <= Len(D)
  BY GoodIs
<1>2. \A i \in 1..D[m].at : i < D[m].at \/ D[m].a # "C" => Agree(u.ci[i], th.ci[i])
  BY <1>1 DEF Below
<1>3. \A j \in 1..m : D[j].t = t => D[j].at <= D[m].at
  <2>1. ASSUME NEW j \in 1..m, D[j].t = t PROVE D[j].at <= D[m].at
    <3>1. CASE j = m
      BY <1>1, <3>1
    <3>2. CASE j < m
      BY <1>1, <2>1, <3>2 DEF Good, Shape, Order
    <3>3. QED
      BY <1>1, <3>1, <3>2
  <2>2. QED
    BY <2>1
<1>4. \A j \in 1..(m - 1) : D[j].t = t /\ D[m].a = "C" => D[j].at < D[m].at
  <2>1. ASSUME NEW j \in 1..(m - 1), D[j].t = t, D[m].a = "C" PROVE D[j].at < D[m].at
    <3>1. j \in 1..Len(D) /\ m \in 1..Len(D) /\ j < m
      BY <1>1
    <3>2. QED
      BY <2>1, <3>1 DEF Good, Shape, Order
  <2>2. QED
    BY <2>1
<1>5. D[m].at <= Len(u.ci) /\ Len(u.ci) \in Nat
  BY ThreadIs DEF Below
<1>6. ASSUME NEW j \in 1..m, D[j].t = t PROVE Placed(D[j], u)
  <2>1. Placed(D[j], th) /\ D[j].at <= D[m].at /\ D[j].at \in 1..D[m].at
    BY <1>1, <1>3, <1>6 DEF Good, Located
  <2>2. CASE D[j].at < D[m].at \/ D[m].a # "C"
    <3> DEFINE g == u.ci[D[j].at]
               f == th.ci[D[j].at]
    <3>1. Agree(g, f)
      BY <1>2, <2>1, <2>2
    <3>2. f \in Frame /\ g \in Frame
      BY <1>1, <1>5, <2>1, GoodIs, ThreadIs
    <3>3. f.top \in Nat /\ g.top \in Nat /\ f.func \in Nat
      <4> HIDE DEF f, g
      <4>1. QED
        BY <3>2, FrameIs
    <3>4. \A x : x \in f.func..f.top => x \in g.func..g.top
      BY <3>1, <3>3 DEF Agree
    <3>5. D[j].at <= Len(u.ci)
      BY <1>1, <1>5, <2>1
    <3>6. D[j].a = "pcall" => D[j].func \in f.func..f.top
      BY <2>1 DEF Placed
    <3> DEFINE G == g.func..g.top
               F == f.func..f.top
    <3> HIDE DEF F, G
    <3>7. D[j].a = "pcall" => D[j].func \in G
      <4>1. \A x : x \in F => x \in G
        BY <3>4 DEF F, G
      <4>2. D[j].a = "pcall" => D[j].func \in F
        BY <3>6 DEF F
      <4>3. QED
        BY <4>1, <4>2
    <3>8. D[j].a = "pcall" => D[j].func \in u.ci[D[j].at].func..u.ci[D[j].at].top
      BY <3>7 DEF G
    <3>9. u.ci[D[j].at].lua = th.ci[D[j].at].lua /\ u.ci[D[j].at].yp = th.ci[D[j].at].yp
          /\ u.ci[D[j].at].k = th.ci[D[j].at].k
      BY <3>1 DEF Agree
    <3> HIDE DEF f, g
    <3>10. QED
      BY <2>1, <3>5, <3>8, <3>9 DEF Placed
  <2>3. CASE D[j].at = D[m].at /\ D[m].a = "C"
    <3>1. j = m
      BY <1>1, <1>4, <1>6, <2>3
    <3>2. u.ci[D[m].at].lua = th.ci[D[m].at].lua
      <4>1. D[m].at \in 1..D[m].at
        BY <2>1, <2>3
      <4>2. \A i \in 1..D[m].at : \/ Agree(u.ci[i], th.ci[i])
                                  \/ u.ci[i].lua = th.ci[i].lua
        BY DEF Below
      <4>3. \/ Agree(u.ci[D[m].at], th.ci[D[m].at])
            \/ u.ci[D[m].at].lua = th.ci[D[m].at].lua
        <5> HIDE DEF th, t
        <5>1. QED
          BY <4>1, <4>2
      <4>4. QED
        BY <4>3 DEF Agree
    <3>3. QED
      BY <1>5, <2>1, <2>3, <3>1, <3>2 DEF Placed, Free
  <2>4. QED
    BY <1>1, <2>1, <2>2, <2>3
<1>7. ASSUME NEW j \in 1..(m - 1), D[j].t = t, D[j + 1].a # "resume" PROVE Linked(D[j], D[j + 1], u)
  <2>1. j \in 1..Len(D) /\ j + 1 \in 1..Len(D) /\ j + 1 \in 1..m /\ j < j + 1 /\ j \in 1..(Len(D) - 1)
    BY <1>1
  <2>2. D[j + 1].t = t
    <3>1. \A k \in (j + 1)..(j + 1) : D[k].a # "resume"
      BY <1>7
    <3>2. QED
      BY <1>7, <2>1, <3>1 DEF Good, Shape, Together
  <2>3. Linked(D[j], D[j + 1], th)
    BY <1>7, <2>1 DEF Good, Links
  <2>4. /\ D[j + 1].at <= D[m].at /\ D[j].at \in Nat /\ D[j + 1].at \in Nat /\ D[j].at >= 1
        /\ (D[m].a = "C" => D[j + 1].at < D[m].at \/ j + 1 = m)
    BY <1>1, <1>3, <1>4, <2>1, <2>2
  <2>5. D[j + 1].a = "tm" /\ InExec(D[j], D[j + 1].at, th) => InExec(D[j], D[j + 1].at, u)
    <3>1. ASSUME D[j + 1].a = "tm", NEW i \in D[j].at..D[j + 1].at PROVE Agree(u.ci[i], th.ci[i])
      BY <1>1, <1>2, <2>4, <3>1
    <3>2. QED
      BY <3>1 DEF InExec, Agree
  <2>6. InExec(D[j], D[j + 1].at - 1, th) => InExec(D[j], D[j + 1].at - 1, u)
    <3>1. ASSUME NEW i \in D[j].at..(D[j + 1].at - 1) PROVE Agree(u.ci[i], th.ci[i])
      BY <1>1, <1>2, <2>4, <3>1
    <3>2. QED
      BY <3>1 DEF InExec, Agree
  <2>7. QED
    BY <1>7, <2>3, <2>5, <2>6 DEF Linked
<1>8. QED
  BY <1>2, <1>6, <1>7

\* The same for the other threads.
LEMMA Others ==
  ASSUME NEW M, NEW D, Good(M, D), NEW j \in 1..Len(D), NEW w, IsThread(w), Same(w, M[D[j].t])
  PROVE  /\ Placed(D[j], w)
         /\ j < Len(D) => Linked(D[j], D[j + 1], w)
<1> DEFINE th == M[D[j].t]
<1>1. /\ D[j].at \in Nat /\ D[j].at >= 1 /\ D[j].at <= Len(th.ci) /\ IsThread(th) /\ Len(D) \in Nat
      /\ \A i \in 1..Len(D) : D[i].at \in Nat /\ D[i].at <= Len(M[D[i].t].ci)
  BY GoodIs
<1>2. Len(th.ci) \in Nat /\ Len(th.stack) \in Nat /\ \A i \in 1..Len(th.ci) : th.ci[i].top \in Nat /\ th.ci[i].func \in Nat
  BY <1>1, ThreadIs, FrameIs
<1>3. \A i \in 1..Len(th.ci) : Agree(w.ci[i], th.ci[i])
  BY DEF Same
<1>4. Placed(D[j], th)
  BY DEF Good, Located
<1>5. Placed(D[j], w)
  <2>1. Agree(w.ci[D[j].at], th.ci[D[j].at])
    BY <1>1, <1>2, <1>3
  <2>2. D[j].a = "pcall" => D[j].func \in Nat
    BY GoodIs, RecordIs
  <2>3. D[j].a = "pcall" => D[j].func \in w.ci[D[j].at].func..w.ci[D[j].at].top
    <3> DEFINE g == w.ci[D[j].at]
               f == th.ci[D[j].at]
    <3>1. Agree(g, f) /\ D[j].at \in 1..Len(th.ci) /\ Len(w.ci) = Len(th.ci)
      BY <2>1, <1>1, <1>2 DEF Same
    <3>2. D[j].a = "pcall" => D[j].func \in f.func..f.top
      BY <1>4 DEF Placed
    <3>3. g \in Frame /\ f \in Frame
      BY <1>1, <3>1, ThreadIs
    <3> HIDE DEF g, f
    <3>4. g.top \in Nat /\ f.top \in Nat /\ f.func \in Nat
      BY <3>3, FrameIs
    <3>5. QED
      BY <3>1, <3>2, <3>4, <2>2 DEF Agree, g, f
  <2>4. QED
    BY <1>4, <2>1, <2>3 DEF Placed, Agree, Same
<1>6. ASSUME j < Len(D) PROVE Linked(D[j], D[j + 1], w)
  <2>1. j + 1 \in 1..Len(D) /\ j \in 1..(Len(D) - 1) /\ j < j + 1
    BY <1>1, <1>6
  <2>2. Linked(D[j], D[j + 1], th)
    BY <2>1 DEF Good, Links
  <2>3. D[j + 1].a # "resume" => D[j + 1].t = D[j].t
    <3>1. D[j + 1].a # "resume" => \A k \in (j + 1)..(j + 1) : D[k].a # "resume"
      BY <2>1
    <3>2. QED
      BY <2>1, <3>1 DEF Good, Shape, Together
  <2>4. D[j + 1].a # "resume" => D[j + 1].at \in Nat /\ D[j + 1].at <= Len(th.ci)
    BY <1>1, <2>1, <2>3
  <2>5. D[j + 1].a # "resume" =>
          /\ InExec(D[j], D[j + 1].at, th) => InExec(D[j], D[j + 1].at, w)
          /\ InExec(D[j], D[j + 1].at - 1, th) => InExec(D[j], D[j + 1].at - 1, w)
    <3>1. ASSUME D[j + 1].a # "resume", NEW i \in D[j].at..D[j + 1].at PROVE Agree(w.ci[i], th.ci[i])
      BY <1>1, <1>2, <1>3, <2>4, <3>1
    <3>2. D[j + 1].a # "resume" => \A i : i \in D[j].at..(D[j + 1].at - 1) => i \in D[j].at..D[j + 1].at
      BY <1>1, <2>4
    <3>3. QED
      BY <3>1, <3>2 DEF InExec, Agree
  <2>6. D[j + 1].a = "resume" =>
          /\ D[j].at = Len(w.ci) /\ Len(w.stack) + 1 <= w.ci[D[j].at].top /\ ~w.ci[D[j].at].yp
          /\ w.ci[D[j].at].func <= Len(w.stack)
    <3> DEFINE g == w.ci[D[j].at]
               f == th.ci[D[j].at]
    <3>1. /\ Agree(g, f) /\ f.top \in Nat /\ w.stack = th.stack /\ Len(w.ci) = Len(th.ci)
          /\ D[j].at \in 1..Len(th.ci)
      BY <1>1, <1>2, <1>3 DEF Same
    <3>4. g \in Frame
      BY <1>1, <3>1, ThreadIs
    <3>2. D[j + 1].a = "resume" => D[j].at = Len(th.ci) /\ Len(th.stack) + 1 <= f.top /\ ~f.yp
                                    /\ f.func <= Len(th.stack)
      BY <2>2 DEF Linked
    <3> HIDE DEF g, f
    <3>5. g.top \in Nat
      BY <3>4, FrameIs
    <3>6. g.func = f.func /\ g.yp = f.yp /\ g.top >= f.top
      BY <3>1 DEF Agree
    <3> DEFINE n == Len(th.stack)
    <3>7. n \in Nat
      BY <1>1, ThreadIs
    <3>8. D[j + 1].a = "resume" => n + 1 <= f.top
      BY <3>2
    <3>9. \A x \in Nat : x + 1 <= f.top => x + 1 <= g.top
      BY <3>1, <3>5, <3>6
    <3> HIDE DEF n
    <3>10. D[j + 1].a = "resume" => n + 1 <= g.top
      BY <3>7, <3>8, <3>9
    <3>11. D[j + 1].a = "resume" =>
             D[j].at = Len(w.ci) /\ Len(w.stack) + 1 <= g.top /\ ~g.yp /\ g.func <= Len(w.stack)
      BY <3>1, <3>2, <3>6, <3>10 DEF n
    <3>12. QED
      BY <3>11 DEF g
  <2>7. QED
    BY <2>2, <2>5, <2>6 DEF Linked
<1>7. QED
  BY <1>5, <1>6
\* The first m records remain, and u is what becomes of the thread of the last of them.
Remains(u, M, D, m, E) ==
  LET t == D[m].t
  IN /\ IsThread(u) /\ Slots(u) /\ u.status = "OK"
     /\ u.nny = Ny(D, t, m) + MainNy(t) /\ u.nCcalls = Calling(D, m)
     /\ Below(u, M[t], D[m]) /\ (D[m].a = "C" => ~u.ci[D[m].at].yp)
     /\ \A i \in (D[m].at + 1)..Len(u.ci) : ContinuedAt(u, E, t, i)
Apartfrom(N, M, E, t) ==
  /\ N = [s \in Threads |-> N[s]]
  /\ \A s \in Threads : s # t =>
       /\ IsThread(N[s]) /\ Slots(N[s])
       /\ IF InUse(E, s) THEN Same(N[s], M[s]) ELSE Rested(N[s])

LEMMA RemainsGood ==
  ASSUME NEW M, NEW D, Good(M, D), NEW m, NEW E, Beginning(E, D, m), NEW N,
         Apartfrom(N, M, E, D[m].t), Remains(N[D[m].t], M, D, m, E)
  PROVE  Good(N, E)
<1> DEFINE t == D[m].t
           u == N[t]
<1>1. /\ D \in Seq(Record) /\ Len(D) \in Nat /\ Shape(D) /\ D[1].t = "main"
      /\ \A j \in 1..Len(D) : /\ D[j] \in Record /\ D[j].t \in Threads /\ D[j].at \in Nat /\ D[j].at >= 1
                              /\ D[j].at <= Len(M[D[j].t].ci)
      /\ \A s \in Threads : IsThread(M[s])
  BY GoodIs
<1>2. /\ m \in Nat /\ m >= 1 /\ m <= Len(D) /\ Len(E) = m /\ m \in 1..Len(D) /\ E \in Seq(Record)
      /\ \A i \in 1..m : Alike(D[i], E[i]) /\ E[i].a = D[i].a /\ E[i].t = D[i].t /\ E[i].at = D[i].at
      /\ \A i \in 1..m : i < m => E[i] = D[i]
  BY <1>1 DEF Beginning, Alike
<1>3. t \in Threads /\ InUse(E, t)
  BY <1>1, <1>2 DEF InUse
<1>4. \A s \in Threads : IsThread(N[s]) /\ Slots(N[s])
  <2>1. IsThread(u) /\ Slots(u)
    BY DEF Remains
  <2>2. QED
    BY <2>1 DEF Apartfrom
<1>5. Typed(N, E)
  BY <1>2, <1>4 DEF Typed, Apartfrom
<1>6. Fits(N)
  BY <1>4 DEF Fits
<1>7. Shape(E)
  BY <1>1, ShapeBeginning
<1>8. IsThread(u) /\ Below(u, M[t], D[m])
  BY DEF Remains
<1>9. /\ \A i \in 1..D[m].at : i < D[m].at \/ D[m].a # "C" => Agree(u.ci[i], M[t].ci[i])
      /\ \A j \in 1..m : D[j].t = t => Placed(D[j], u)
      /\ \A j \in 1..(m - 1) : D[j].t = t /\ D[j + 1].a # "resume" => Linked(D[j], D[j + 1], u)
  BY <1>2, <1>8, Lower
<1>10. \A j \in 1..m : D[j].t # t => IsThread(N[D[j].t]) /\ Same(N[D[j].t], M[D[j].t])
  <2>1. ASSUME NEW j \in 1..m, D[j].t # t PROVE IsThread(N[D[j].t]) /\ Same(N[D[j].t], M[D[j].t])
    <3>1. InUse(E, D[j].t) /\ D[j].t \in Threads
      BY <1>1, <1>2 DEF InUse
    <3>2. QED
      BY <2>1, <3>1 DEF Apartfrom
  <2>2. QED
    BY <2>1
<1>11. \A j \in 1..(m - 1) : D[j + 1].a = "resume" => D[j].t # t
  <2>1. ASSUME NEW j \in 1..(m - 1), D[j + 1].a = "resume" PROVE D[j].t # t
    <3>1. j \in 1..Len(D) /\ j + 1 \in 1..Len(D) /\ j < j + 1 /\ j + 1 <= m
      BY <1>2
    <3>2. QED
      BY <1>1, <1>2, <2>1, <3>1 DEF Shape, Apart
  <2>2. QED
    BY <2>1
<1>12. Links(N, E)
  <2>1. ASSUME NEW j \in 1..(m - 1) PROVE Linked(E[j], E[j + 1], N[E[j].t])
    <3>1. E[j] = D[j] /\ Alike(D[j + 1], E[j + 1]) /\ j \in 1..m /\ j \in 1..Len(D) /\ j < Len(D)
      BY <1>2
    <3>2. Linked(D[j], D[j + 1], N[D[j].t])
      <4>1. CASE D[j].t = t
        BY <1>9, <1>11, <3>1, <4>1
      <4>2. CASE D[j].t # t
        BY <1>10, <3>1, <4>2, Others
      <4>3. QED
        BY <4>1, <4>2
    <3>3. QED
      BY <3>1, <3>2 DEF Linked, Alike
  <2>2. QED
    BY <1>2, <2>1 DEF Links
<1>13. Located(N, E)
  <2>1. ASSUME NEW j \in 1..m PROVE Placed(E[j], N[E[j].t]) /\ Saved(E[j], E, j - 1)
    <3>1. E[j].t = D[j].t /\ Alike(D[j], E[j]) /\ j \in 1..Len(D) /\ j - 1 \in Nat /\ j - 1 <= m
      BY <1>2
    <3>2. Placed(D[j], N[D[j].t])
      <4>1. CASE D[j].t = t
        BY <1>9, <4>1
      <4>2. CASE D[j].t # t
        BY <1>10, <3>1, <4>2, Others
      <4>3. QED
        BY <4>1, <4>2
    <3>3. Placed(E[j], N[E[j].t])
      BY <3>1, <3>2 DEF Placed, Alike, Free
    <3>4. \A i \in 1..(j - 1) : Alike(D[i], E[i]) /\ E[i] = D[i]
      BY <1>2
    <3>5. (\A s : Ny(E, s, j - 1) = Ny(D, s, j - 1)) /\ Calling(E, j - 1) = Calling(D, j - 1)
      BY <3>1, <3>4, CountsAlike
    <3>6. \A s : Yieldable(D, s, j - 1) => Yieldable(E, s, j - 1)
      BY <3>4 DEF Yieldable
    <3>7. Saved(D[j], D, j - 1)
      BY <3>1 DEF Good, Located
    <3>8. Saved(E[j], E, j - 1)
      BY <3>1, <3>5, <3>6, <3>7 DEF Saved, Alike, Free
    <3>9. QED
      BY <3>3, <3>8
  <2>2. QED
    BY <1>2, <2>1 DEF Located
\* Who has all records after the m-th.
<1>14. \A s \in Threads : s # t /\ InUse(E, s) => \A i \in (m + 1)..Len(D) : D[i].t # s
  <2>1. ASSUME NEW s \in Threads, s # t, InUse(E, s), NEW i \in (m + 1)..Len(D), D[i].t = s PROVE FALSE
    <3>1. PICK j \in 1..m : D[j].t = s
      BY <1>2, <2>1 DEF InUse
    <3>2. D[m].t = D[i].t
      BY <1>1, <1>2, <2>1, <3>1, After
    <3>3. QED
      BY <2>1, <3>2
  <2>2. QED
    BY <2>1
<1>15. \A s \in Threads : InUse(E, s) => InUse(D, s)
  BY <1>2 DEF InUse
<1>16. \A s \in Threads : s # t /\ InUse(E, s) => \A a, i : Has(E, a, s, i) <=> Has(D, a, s, i)
  BY <1>2, <1>14 DEF Has
<1>17. \A i \in 2..Len(u.ci) : ContinuedAt(u, E, t, i)
  <2>1. ASSUME NEW i \in 2..Len(u.ci), i <= D[m].at PROVE ContinuedAt(u, E, t, i)
    <3> DEFINE th == M[t]
    <3>0. i \in Nat /\ i >= 2 /\ i <= Len(th.ci) /\ i \in 2..Len(th.ci) /\ i \in 1..D[m].at /\ Len(th.ci) \in Nat
      BY <1>1, <1>2, <2>1, ThreadIs
    <3>1. th.status = "OK"
      BY <1>2, <1>3, <1>15 DEF Good, Idle
    <3>2. ContinuedAt(th, D, t, i)
      BY <1>3, <3>0, <3>1 DEF Good, Continued, errorstatus
    <3>3. \A j \in 1..Len(D) : D[j].t = t /\ D[j].at = i /\ D[j].a = "C" => j <= m
      <4>1. ASSUME NEW j \in 1..Len(D), D[j].t = t, D[j].at = i, D[j].a = "C", m < j PROVE FALSE
        <5>1. D[m].at < D[j].at
          BY <1>1, <1>2, <4>1 DEF Shape, Order
        <5>2. QED
          BY <1>1, <1>2, <2>1, <4>1, <5>1
      <4>2. QED
        BY <1>2, <4>1
    <3>4. \A j \in 1..Len(D) : D[j].t = t /\ D[j].at = i /\ D[j].a = "ypcall" => j <= m \/ (D[m].a = "C" /\ i = D[m].at)
      <4>1. ASSUME NEW j \in 1..Len(D), D[j].t = t, D[j].at = i, D[j].a = "ypcall", m < j,
                   ~(D[m].a = "C" /\ i = D[m].at)
            PROVE FALSE
        <5>1. j - 1 \in 1..(Len(D) - 1) /\ j - 1 \in 1..Len(D) /\ (j - 1) + 1 = j /\ j - 1 >= m
          BY <1>2, <4>1
        <5>2. D[j - 1].a \in {"C", "docall"} /\ D[j].at = D[j - 1].at
          BY <4>1, <5>1 DEF Good, Links, Linked
        <5>3. D[j - 1].t = t
          <6>1. \A k \in ((j - 1) + 1)..j : D[k].a # "resume"
            BY <4>1, <5>1
          <6>2. j - 1 \in 1..Len(D) /\ j \in 1..Len(D) /\ j - 1 < j
            BY <1>2, <4>1, <5>1
          <6>3. Together(D)
            BY <1>1 DEF Shape
          <6>4. D[j - 1].t = D[j].t
            BY <6>1, <6>2, <6>3 DEF Together
          <6>5. QED
            BY <4>1, <6>4
        <5>4. D[j - 1].a = "C"
          <6>1. D[j - 1].a = "docall" => D[j - 1].at = 1
            BY <5>1 DEF Good, Located, Placed
          <6>2. QED
            BY <3>0, <4>1, <5>2, <6>1
        <5>5. j - 1 # m
          BY <2>1, <4>1, <5>2, <5>4
        <5>6. D[m].at < D[j - 1].at
          BY <1>1, <1>2, <5>1, <5>3, <5>4, <5>5 DEF Shape, Order
        <5>7. QED
          BY <1>1, <1>2, <2>1, <4>1, <5>1, <5>2, <5>6
      <4>2. QED
        BY <1>2, <4>1
    <3>5. Has(E, "C", t, i) <=> Has(D, "C", t, i)
      BY <1>2, <3>3 DEF Has
    <3>6. \A l \in 2..i : ~Has(D, "C", t, l) => ~Has(E, "C", t, l)
      BY <1>2 DEF Has
    <3>7. CASE i < D[m].at \/ D[m].a # "C"
      <4>1. Agree(u.ci[i], th.ci[i])
        BY <1>9, <3>0, <3>7
      <4>2. Has(D, "ypcall", t, i) => Has(E, "ypcall", t, i)
        BY <1>2, <3>4, <3>7, <3>0, <1>1 DEF Has
      <4>3. QED
        BY <3>1, <3>2, <3>5, <3>6, <4>1, <4>2 DEF ContinuedAt, Agree
    <3>8. CASE i = D[m].at /\ D[m].a = "C"
      <4>1. Has(E, "C", t, i)
        BY <1>2, <3>8 DEF Has
      <4>2. ~u.ci[i].yp
        BY <3>8 DEF Remains
      <4>3. QED
        BY <4>1, <4>2 DEF ContinuedAt
    <3>9. QED
      BY <1>1, <1>2, <2>1, <3>0, <3>7, <3>8
  <2>2. ASSUME NEW i \in 2..Len(u.ci), ~(i <= D[m].at) PROVE ContinuedAt(u, E, t, i)
    <3>1. i \in (D[m].at + 1)..Len(u.ci)
      BY <1>1, <1>2, <2>2, <1>8, ThreadIs
    <3>2. QED
      BY <3>1 DEF Remains
  <2>3. QED
    BY <2>1, <2>2
<1>18. Continued(N, E)
  <2>1. ASSUME NEW s \in Threads, s # t, ~errorstatus(N[s].status), NEW i \in 2..Len(N[s].ci)
        PROVE  ContinuedAt(N[s], E, s, i)
    <3>1. CASE InUse(E, s)
      <4>1. Same(N[s], M[s])
        BY <2>1, <3>1 DEF Apartfrom
      <4>2. ContinuedAt(M[s], D, s, i)
        BY <2>1, <4>1 DEF Good, Continued, Same
      <4>3. i \in 1..Len(M[s].ci)
        BY <4>1 DEF Same
      <4>4. Agree(N[s].ci[i], M[s].ci[i]) /\ N[s].status = M[s].status /\ Len(N[s].ci) = Len(M[s].ci)
        BY <4>1, <4>3 DEF Same
      <4>5. QED
        BY <1>16, <2>1, <3>1, <4>2, <4>4 DEF ContinuedAt, Agree
    <3>2. CASE ~InUse(E, s)
      <4>1. Rested(N[s])
        BY <2>1, <3>2 DEF Apartfrom
      <4>2. \A a, l : ~Has(E, a, s, l)
        BY <3>2 DEF Has, InUse
      <4>3. QED
        BY <2>1, <4>1, <4>2 DEF ContinuedAt, Rested
    <3>3. QED
      BY <3>1, <3>2
  <2>2. QED
    BY <1>17, <2>1 DEF Continued
<1>19. \A k \in 0..m : (\A s : Ny(E, s, k) = Ny(D, s, k)) /\ Calling(E, k) = Calling(D, k)
  <2>1. ASSUME NEW k \in 0..m PROVE (\A s : Ny(E, s, k) = Ny(D, s, k)) /\ Calling(E, k) = Calling(D, k)
    <3>1. k \in Nat /\ \A i \in 1..k : Alike(D[i], E[i])
      BY <1>2
    <3>2. QED
      BY <3>1, CountsAlike
  <2>2. QED
    BY <2>1
<1>20. Counts(N, E)
  <2>1. ASSUME NEW s \in Threads
        PROVE  N[s].nny = Ny(E, s, m) + IF s = "main" \/ ~InUse(E, s) THEN 1 ELSE 0
    <3>1. CASE s = t
      <4>1. u.nny = Ny(D, t, m) + MainNy(t)
        BY DEF Remains
      <4>2. QED
        BY <1>2, <1>3, <1>19, <3>1, <4>1 DEF MainNy
    <3>2. CASE s # t /\ InUse(E, s)
      <4>1. N[s].nny = M[s].nny
        BY <3>2 DEF Apartfrom, Same
      <4>2. M[s].nny = Ny(D, s, Len(D)) + IF s = "main" \/ ~InUse(D, s) THEN 1 ELSE 0
        BY DEF Good, Counts
      <4>3. Ny(D, s, Len(D)) = Ny(D, s, m)
        BY <1>1, <1>2, <1>14, <3>2, NyShort
      <4>4. QED
        BY <1>2, <1>15, <1>19, <3>2, <4>1, <4>2, <4>3
    <3>3. CASE s # t /\ ~InUse(E, s)
      <4>1. N[s].nny = 1
        BY <3>3 DEF Apartfrom, Rested
      <4>2. Ny(E, s, m) = 0
        BY <1>2, <3>3, NyZero DEF InUse
      <4>3. QED
        BY <3>3, <4>1, <4>2
    <3>4. QED
      BY <3>1, <3>2, <3>3
  <2>2. ASSUME NEW j \in 1..m, j = m \/ E[j + 1].a = "resume" PROVE N[E[j].t].nCcalls = Calling(E, j)
    <3>1. CASE j = m
      BY <1>2, <1>19, <3>1 DEF Remains
    <3>2. CASE j # m
      <4>1. j \in 1..(m - 1) /\ j \in 1..Len(D) /\ D[j + 1].a = "resume" /\ E[j].t = D[j].t
        BY <1>2, <2>2, <3>2
      <4>2. D[j].t # t
        BY <1>11, <4>1
      <4>3. N[D[j].t].nCcalls = M[D[j].t].nCcalls
        BY <1>10, <4>2 DEF Same
      <4>4. M[D[j].t].nCcalls = Calling(D, j)
        BY <4>1 DEF Good, Counts
      <4>5. QED
        BY <1>2, <1>19, <4>1, <4>3, <4>4
    <3>3. QED
      BY <3>1, <3>2
  <2>3. QED
    BY <1>2, <2>1, <2>2 DEF Counts
<1>21. Idle(N, E)
  <2>1. ASSUME NEW s \in Threads PROVE IF InUse(E, s) THEN N[s].status = "OK" ELSE Asleep(N[s])
    <3>1. CASE s = t
      BY <1>3, <3>1 DEF Remains
    <3>2. CASE s # t /\ InUse(E, s)
      BY <1>15, <3>2 DEF Apartfrom, Same, Good, Idle
    <3>3. CASE s # t /\ ~InUse(E, s)
      BY <3>3 DEF Apartfrom, Rested
    <3>4. QED
      BY <3>1, <3>2, <3>3
  <2>2. QED
    BY <2>1 DEF Idle
<1>22. QED
  BY <1>5, <1>6, <1>7, <1>12, <1>13, <1>18, <1>20, <1>21 DEF Good
\* Record r follows, and u is what becomes of its thread.
Enters(u, M, D, r) ==
  LET n == Len(D)
      q == D[n]
  IN /\ r \in Record /\ Follows(r, D) /\ IsThread(u) /\ Slots(u) /\ u.status = "OK"
     /\ u.nny = Ny(D, r.t, n) + MainNy(r.t) + (IF IsNy(r) THEN 1 ELSE 0)
     /\ u.nCcalls = Calling(D, n) + (IF r.a \in Callers \cup {"resume"} THEN 1 ELSE 0)
     /\ r.a # "resume" => Below(u, M[r.t], q)
     /\ Linked(q, r, IF r.a = "resume" THEN M[q.t] ELSE u)
     /\ Placed(r, u) /\ Saved(r, D, n)
     /\ \A i \in 2..Len(u.ci) : r.a = "resume" \/ i > q.at => ContinuedAt(u, Append(D, r), r.t, i)
     /\ r.a # "resume" /\ q.a = "C" => (u.ci[q.at].yp => r.a = "ypcall" /\ r.at = q.at)

LEMMA EntersGood ==
  ASSUME NEW M, NEW D, Good(M, D), NEW r, NEW u, Enters(u, M, D, r), NEW N, N = [M EXCEPT ![r.t] = u]
  PROVE  Good(N, Append(D, r))
<1> DEFINE n == Len(D)
           t == r.t
           E == Append(D, r)
           q == D[n]
<1>1. /\ D \in Seq(Record) /\ n \in Nat /\ n >= 1 /\ Shape(D) /\ D[1].t = "main" /\ n \in 1..n
      /\ \A j \in 1..n : /\ D[j] \in Record /\ D[j].t \in Threads /\ D[j].at \in Nat /\ D[j].at >= 1
                         /\ D[j].at <= Len(M[D[j].t].ci)
      /\ \A s \in Threads : IsThread(M[s]) /\ Slots(M[s])
  BY GoodIs
<1>2. r \in Record /\ Follows(r, D) /\ IsThread(u) /\ Slots(u) /\ t \in Threads /\ r.at \in Nat
  BY RecordIs DEF Enters
<1>3. E \in Seq(Record) /\ Len(E) = n + 1 /\ E[n + 1] = r /\ \A i \in 1..n : E[i] = D[i]
  BY <1>1, <1>2, PushedRecord
<1>4. M = [s \in Threads |-> M[s]]
  BY DEF Good, Typed
<1>5. N = [s \in Threads |-> N[s]] /\ N[t] = u /\ \A s \in Threads : s # t => N[s] = M[s]
  BY <1>2, <1>4
<1> HIDE DEF E
<1>6. \A j \in 1..(n + 1) : j \in 1..n \/ j = n + 1
  BY <1>1
<1>7. r.a = "resume" => q.t # t /\ \A j \in 1..n : D[j].t # t
  BY <1>1, <1>2 DEF Follows
<1>8. r.a # "resume" => q.t = t
  BY <1>2 DEF Follows
<1>9. r.a # "resume" =>
        /\ \A i \in 1..q.at : i < q.at \/ q.a # "C" => Agree(u.ci[i], M[t].ci[i])
        /\ \A j \in 1..n : D[j].t = t => Placed(D[j], u)
        /\ \A j \in 1..(n - 1) : D[j].t = t /\ D[j + 1].a # "resume" => Linked(D[j], D[j + 1], u)
  <2>1. ASSUME r.a # "resume"
        PROVE /\ \A i \in 1..q.at : i < q.at \/ q.a # "C" => Agree(u.ci[i], M[t].ci[i])
              /\ \A j \in 1..n : D[j].t = t => Placed(D[j], u)
              /\ \A j \in 1..(n - 1) : D[j].t = t /\ D[j + 1].a # "resume" => Linked(D[j], D[j + 1], u)
    <3>1. Below(u, M[D[n].t], D[n]) /\ D[n].t = t
      BY <1>8, <2>1 DEF Enters
    <3>2. QED
      BY <1>1, <1>2, <3>1, Lower
  <2>2. QED
    BY <2>1
<1>10. Typed(N, E)
  <2>1. \A s \in Threads : IsThread(N[s])
    BY <1>1, <1>2, <1>5
  <2>2. Len(E) >= 1 /\ E \in Seq(Record)
    BY <1>1, <1>3
  <2>3. QED
    BY <1>5, <2>1, <2>2 DEF Typed
<1>11. Fits(N)
  BY <1>1, <1>2, <1>5 DEF Fits
<1>12. Shape(E)
  BY <1>1, <1>2, ShapePushed DEF E
<1>13. \A j \in 1..(n - 1) : D[j + 1].a = "resume" => D[j].t # t
  <2>1. ASSUME NEW j \in 1..(n - 1), D[j + 1].a = "resume", r.a # "resume" PROVE D[j].t # t
    <3>1. j \in 1..n /\ j + 1 \in 1..n /\ j < j + 1 /\ j + 1 <= n
      BY <1>1
    <3>2. QED
      BY <1>1, <1>8, <2>1, <3>1 DEF Shape, Apart
  <2>2. QED
    BY <1>1, <1>7, <2>1
<1>14. Links(N, E)
  <2>1. ASSUME NEW j \in 1..(n - 1) PROVE Linked(E[j], E[j + 1], N[E[j].t])
    <3>1. E[j] = D[j] /\ E[j + 1] = D[j + 1] /\ j \in 1..n /\ D[j].t \in Threads
      BY <1>1, <1>3
    <3>2. Linked(D[j], D[j + 1], M[D[j].t])
      BY DEF Good, Links
    <3>3. CASE D[j].t = t
      BY <1>5, <1>2, <1>7, <1>9, <1>13, <3>1, <3>3
    <3>4. CASE D[j].t # t
      BY <1>5, <3>1, <3>2, <3>4
    <3>5. QED
      BY <3>3, <3>4
  <2>2. Linked(E[n], E[n + 1], N[E[n].t])
    <3>1. N[q.t] = IF r.a = "resume" THEN M[q.t] ELSE u
      BY <1>1, <1>2, <1>5, <1>7, <1>8
    <3>2. QED
      BY <1>1, <1>3, <3>1 DEF Enters
  <2>3. \A j \in 1..n : j \in 1..(n - 1) \/ j = n
    BY <1>1
  <2>4. (n + 1) - 1 = n
    BY <1>1
  <2>5. QED
    BY <1>3, <2>1, <2>2, <2>3, <2>4 DEF Links
<1>15. \A k \in 0..n : (\A s : Ny(E, s, k) = Ny(D, s, k)) /\ Calling(E, k) = Calling(D, k)
  <2>1. ASSUME NEW k \in 0..n PROVE (\A s : Ny(E, s, k) = Ny(D, s, k)) /\ Calling(E, k) = Calling(D, k)
    <3>1. k \in Nat /\ \A i \in 1..k : Alike(D[i], E[i])
      BY <1>1, <1>3 DEF Alike
    <3>2. QED
      BY <3>1, CountsAlike
  <2>2. QED
    BY <2>1
<1>16. \A s : \A k \in 0..n : Yieldable(D, s, k) => Yieldable(E, s, k)
  BY <1>1, <1>3 DEF Yieldable
<1>17. Located(N, E)
  <2>1. ASSUME NEW j \in 1..n PROVE Placed(E[j], N[E[j].t]) /\ Saved(E[j], E, j - 1)
    <3>1. E[j] = D[j] /\ j - 1 \in 0..n /\ D[j].t \in Threads
      BY <1>1, <1>3
    <3>2. Placed(D[j], M[D[j].t]) /\ Saved(D[j], D, j - 1)
      BY DEF Good, Located
    <3>3. Saved(D[j], E, j - 1)
      BY <1>15, <1>16, <3>1, <3>2 DEF Saved
    <3>4. CASE D[j].t = t
      BY <1>5, <1>2, <1>7, <1>9, <3>1, <3>3, <3>4
    <3>5. CASE D[j].t # t
      BY <1>5, <3>1, <3>2, <3>3, <3>5
    <3>6. QED
      BY <3>4, <3>5
  <2>2. Placed(E[n + 1], N[E[n + 1].t]) /\ Saved(E[n + 1], E, n)
    <3>1. Placed(r, u) /\ Saved(r, D, n) /\ n \in 0..n
      BY <1>1 DEF Enters
    <3>2. QED
      BY <1>3, <1>5, <1>2, <1>15, <1>16, <3>1 DEF Saved
  <2>3. (n + 1) - 1 = n
    BY <1>1
  <2>4. QED
    BY <1>3, <1>6, <2>1, <2>2, <2>3 DEF Located
<1>18. \A s : s # t => (InUse(E, s) <=> InUse(D, s)) /\ \A a, i : Has(E, a, s, i) <=> Has(D, a, s, i)
  BY <1>1, <1>3, <1>6 DEF InUse, Has
<1>19. InUse(E, t) /\ (r.a # "resume" => InUse(D, t))
  BY <1>1, <1>3, <1>8 DEF InUse
<1>20. ASSUME NEW i \in 2..Len(u.ci) PROVE ContinuedAt(u, E, t, i)
  <2>1. CASE r.a = "resume" \/ i > q.at
    BY <2>1 DEF Enters, E
  <2>2. CASE r.a # "resume" /\ ~(i > q.at)
    <3> DEFINE th == M[t]
    <3>0. i \in Nat /\ i >= 2 /\ i <= q.at /\ i \in 1..q.at /\ i \in 2..Len(th.ci) /\ Len(th.ci) \in Nat
      BY <1>1, <1>2, <1>8, <2>2, ThreadIs
    <3>1. th.status = "OK" /\ u.status = "OK"
      BY <1>19, <1>2, <2>2 DEF Good, Idle, Enters
    <3>2. ContinuedAt(th, D, t, i)
      BY <1>2, <3>0, <3>1 DEF Good, Continued, errorstatus
    <3>3. r.a = "C" => q.at < r.at
      BY <1>2, <2>2 DEF Follows
    <3>4. Has(E, "C", t, i) <=> Has(D, "C", t, i)
      BY <1>1, <1>3, <1>6, <3>0, <3>3 DEF Has
    <3>5. Has(D, "ypcall", t, i) => Has(E, "ypcall", t, i)
      BY <1>1, <1>3, <1>6 DEF Has
    <3>6. \A l \in 2..i : ~Has(D, "C", t, l) => ~Has(E, "C", t, l)
      <4>1. ASSUME NEW l \in 2..i, Has(E, "C", t, l) PROVE Has(D, "C", t, l)
        <5>1. PICK j \in 1..(n + 1) : E[j].a = "C" /\ E[j].t = t /\ E[j].at = l
          BY <1>3, <4>1 DEF Has
        <5>2. j # n + 1
          BY <1>1, <1>2, <1>3, <3>0, <3>3, <5>1
        <5>3. QED
          BY <1>1, <1>3, <1>6, <5>1, <5>2 DEF Has
      <4>2. QED
        BY <4>1
    <3>7. CASE i < q.at \/ q.a # "C"
      <4>1. Agree(u.ci[i], th.ci[i])
        BY <1>9, <2>2, <3>0, <3>7
      <4>2. QED
        BY <3>1, <3>2, <3>4, <3>5, <3>6, <4>1 DEF ContinuedAt, Agree
    <3>8. CASE i = q.at /\ q.a = "C"
      <4>1. Has(E, "C", t, i)
        BY <1>1, <1>3, <1>8, <2>2, <3>8 DEF Has
      <4>2. u.ci[i].yp => r.a = "ypcall" /\ r.at = i
        BY <2>2, <3>8 DEF Enters
      <4>3. u.ci[i].yp => Has(E, "ypcall", t, i)
        BY <1>1, <1>3, <1>6, <4>2 DEF Has
      <4>4. QED
        BY <4>1, <4>3 DEF ContinuedAt
    <3>9. QED
      BY <1>1, <3>0, <3>7, <3>8
  <2>3. QED
    BY <2>1, <2>2
<1>21. Continued(N, E)
  <2>1. ASSUME NEW s \in Threads, s # t, ~errorstatus(N[s].status), NEW i \in 2..Len(N[s].ci)
        PROVE  ContinuedAt(N[s], E, s, i)
    <3>1. ContinuedAt(M[s], D, s, i) /\ N[s] = M[s]
      BY <1>5, <2>1 DEF Good, Continued
    <3>2. QED
      BY <1>18, <2>1, <3>1 DEF ContinuedAt
  <2>2. QED
    BY <1>2, <1>5, <1>20, <2>1 DEF Continued
<1>22. Counts(N, E)
  <2>1. ASSUME NEW s \in Threads
        PROVE  N[s].nny = Ny(E, s, n + 1) + IF s = "main" \/ ~InUse(E, s) THEN 1 ELSE 0
    <3>1. Ny(E, s, n + 1) = Ny(E, s, n) + (IF r.t = s /\ IsNy(r) THEN 1 ELSE 0) /\ Ny(E, s, n) \in Nat
      <4>1. n + 1 \in Nat /\ n + 1 >= 1 /\ (n + 1) - 1 = n
        BY <1>1
      <4>2. QED
        BY <1>3, <4>1, NyStep
    <3>2. Ny(E, s, n) = Ny(D, s, n)
      BY <1>1, <1>15
    <3>3. CASE s = t
      <4>1. u.nny = Ny(D, t, n) + MainNy(t) + (IF IsNy(r) THEN 1 ELSE 0)
        BY DEF Enters
      <4>2. QED
        BY <1>5, <1>2, <1>19, <3>1, <3>2, <3>3, <4>1 DEF MainNy
    <3>4. CASE s # t
      <4>1. M[s].nny = Ny(D, s, n) + IF s = "main" \/ ~InUse(D, s) THEN 1 ELSE 0
        BY DEF Good, Counts
      <4>2. QED
        BY <1>5, <1>18, <3>1, <3>2, <3>4, <4>1
    <3>5. QED
      BY <3>3, <3>4
  <2>2. ASSUME NEW j \in 1..n, E[j + 1].a = "resume" PROVE N[E[j].t].nCcalls = Calling(E, j)
    <3>0. E[j] = D[j] /\ D[j].t \in Threads
      BY <1>1, <1>3
    <3>1. D[j].t # t
      <4>1. CASE j \in 1..(n - 1)
        BY <1>3, <1>13, <2>2, <4>1, <1>1
      <4>2. CASE j = n
        BY <1>3, <1>7, <2>2, <4>2
      <4>3. QED
        BY <1>1, <4>1, <4>2
    <3>2. M[D[j].t].nCcalls = Calling(D, j)
      <4>1. j = n \/ D[j + 1].a = "resume"
        <5>1. j = n \/ j + 1 \in 1..n
          BY <1>1
        <5>2. QED
          BY <1>3, <2>2, <5>1
      <4>2. QED
        BY <4>1 DEF Good, Counts
    <3>3. QED
      BY <1>1, <1>5, <1>15, <3>0, <3>1, <3>2
  <2>3. N[E[n + 1].t].nCcalls = Calling(E, n + 1)
    <3>1. n + 1 \in Nat /\ n + 1 >= 1 /\ (n + 1) - 1 = n
      BY <1>1
    <3>2. Calling(E, n + 1) = Calling(E, n) + IF r.a \in Callers \cup {"resume"} THEN 1 ELSE 0
      BY <1>3, <3>1, CallingStep
    <3>3. Calling(E, n) = Calling(D, n)
      BY <1>1, <1>15
    <3>4. u.nCcalls = Calling(D, n) + (IF r.a \in Callers \cup {"resume"} THEN 1 ELSE 0)
      BY DEF Enters
    <3>5. QED
      BY <1>2, <1>3, <1>5, <3>2, <3>3, <3>4
  <2>4. ASSUME NEW j \in 1..(n + 1), j = n + 1 \/ E[j + 1].a = "resume"
        PROVE  N[E[j].t].nCcalls = Calling(E, j)
    BY <1>6, <2>2, <2>3, <2>4
  <2>5. QED
    BY <1>3, <2>1, <2>4 DEF Counts
<1>23. Idle(N, E)
  <2>1. ASSUME NEW s \in Threads PROVE IF InUse(E, s) THEN N[s].status = "OK" ELSE Asleep(N[s])
    <3>1. CASE s = t
      BY <1>2, <1>5, <1>19, <3>1 DEF Enters
    <3>2. CASE s # t
      BY <1>5, <1>18, <3>2 DEF Good, Idle
    <3>3. QED
      BY <3>1, <3>2
  <2>2. QED
    BY <2>1 DEF Idle
<1>24. QED
  BY <1>10, <1>11, <1>12, <1>14, <1>17, <1>21, <1>22, <1>23 DEF Good, E
LEMMA SameIs == ASSUME NEW th, IsThread(th) PROVE Same(th, th)
<1>1. \A i \in 1..Len(th.ci) : th.ci[i].top \in Nat
  BY ThreadIs, FrameIs
<1>2. QED
  BY <1>1 DEF Same, Agree
Moved(M, t, u) == [M EXCEPT ![t] = u]
LEMMA Untouched ==
  ASSUME NEW M, NEW D, Good(M, D), NEW m, NEW E, Beginning(E, D, m),
         \A i \in (m + 1)..Len(D) : D[i].t = D[m].t, NEW N, NEW u, N = Moved(M, D[m].t, u)
  PROVE  Apartfrom(N, M, E, D[m].t) /\ N[D[m].t] = u
<1>1. M = [s \in Threads |-> M[s]]
  BY DEF Good, Typed
<1>2. m \in 1..Len(D) /\ D[m].t \in Threads /\ Len(D) \in Nat
  BY GoodIs DEF Beginning
<1>3. N = [s \in Threads |-> N[s]] /\ N[D[m].t] = u /\ \A s \in Threads : s # D[m].t => N[s] = M[s]
  BY <1>1, <1>2 DEF Moved
<1>4. ASSUME NEW s \in Threads, s # D[m].t, ~InUse(E, s) PROVE Rested(M[s])
  <2>1. \A i \in 1..Len(D) : i \in 1..m \/ i \in (m + 1)..Len(D)
    BY <1>2
  <2>2. ~InUse(D, s)
    BY <1>4, <2>1 DEF InUse, Beginning, Alike
  <2>3. QED
    BY <2>2, RestedIs
<1>5. \A s \in Threads : IsThread(M[s]) /\ Slots(M[s]) /\ Same(M[s], M[s])
  BY GoodIs, SameIs
<1>6. QED
  BY <1>3, <1>4, <1>5 DEF Apartfrom
LEMMA CutGood ==
  ASSUME NEW M, NEW D, Good(M, D), NEW m, NEW E, Beginning(E, D, m),
         \A i \in (m + 1)..Len(D) : D[i].t = D[m].t, NEW u, Remains(u, M, D, m, E),
         NEW N, N = Moved(M, D[m].t, u)
  PROVE  Good(N, E)
<1>1. Apartfrom(N, M, E, D[m].t) /\ N[D[m].t] = u
  BY Untouched
<1>2. Remains(N[D[m].t], M, D, m, E)
  BY <1>1
<1>3. QED
  BY <1>1, <1>2, RemainsGood

-----------------------------------------------------------------------------
(* States.                                                                 *)

IsZ(z)   == z = [L |-> z.L, C |-> z.C, err |-> z.err]
GoodZ(z) == IsZ(z) /\ Good(z.L, z.C)
\* What luaD_call and its like leave: nothing under way, or a message for luaG_runerror.
RestZ(z) == GoodZ(z) /\ z.err = "none" /\ AtRest(Last(z.C), Th(z))
Full(th) == th.nCcalls >= LUAI_MAXCCALLS
LEMMA ZIs ==
  ASSUME NEW z, GoodZ(z)
  PROVE  LET n == Len(z.C)
         IN /\ n \in Nat /\ n >= 1 /\ n \in 1..n /\ Last(z.C) = z.C[n] /\ T(z) = z.C[n].t /\ T(z) \in Threads
            /\ z.C \in Seq(Record) /\ z.C[n] \in Record
            /\ Th(z) = z.L[T(z)] /\ IsThread(Th(z)) /\ Slots(Th(z)) /\ Th(z).status = "OK"
            /\ z.L = [s \in Threads |-> z.L[s]]
            /\ Th(z).nny = Ny(z.C, T(z), n) + MainNy(T(z)) /\ Th(z).nCcalls = Calling(z.C, n)
            /\ Placed(z.C[n], Th(z))
            /\ Ny(z.C, T(z), n) \in Nat /\ Calling(z.C, n) \in Nat
<1> DEFINE n == Len(z.C)
<1>1. n \in Nat /\ n >= 1 /\ n \in 1..n /\ z.C \in Seq(Record) /\ z.C[n] \in Record /\ z.C[n].t \in Threads
  BY GoodIs DEF GoodZ
<1>2. Last(z.C) = z.C[n] /\ T(z) = z.C[n].t /\ Th(z) = z.L[T(z)]
  BY DEF Last, T, Th
<1>3. IsThread(Th(z)) /\ Slots(Th(z)) /\ z.L = [s \in Threads |-> z.L[s]]
  BY <1>1, <1>2, GoodIs DEF GoodZ, Good, Typed
<1>4. InUse(z.C, T(z))
  BY <1>1, <1>2 DEF InUse
<1>5. Th(z).status = "OK" /\ Th(z).nny = Ny(z.C, T(z), n) + MainNy(T(z)) /\ Th(z).nCcalls = Calling(z.C, n)
  <2>1. Th(z).status = "OK"
    BY <1>1, <1>2, <1>4 DEF GoodZ, Good, Idle
  <2>2. Th(z).nny = Ny(z.C, T(z), n) + IF T(z) = "main" \/ ~InUse(z.C, T(z)) THEN 1 ELSE 0
    BY <1>1, <1>2 DEF GoodZ, Good, Counts
  <2>3. Th(z).nCcalls = Calling(z.C, n)
    BY <1>1, <1>2 DEF GoodZ, Good, Counts
  <2>4. QED
    BY <1>4, <2>1, <2>2, <2>3 DEF MainNy
<1>6. Placed(z.C[n], Th(z))
  BY <1>1, <1>2 DEF GoodZ, Good, Located
<1>7. Ny(z.C, T(z), n) \in Nat /\ Calling(z.C, n) \in Nat
  BY <1>1, NyStep, CallingStep
<1>8. QED
  BY <1>1, <1>2, <1>3, <1>5, <1>6, <1>7

LEMMA OnIs ==
  ASSUME NEW z, IsZ(z), NEW th
  PROVE  LET w == On(z, th)
         IN IsZ(w) /\ w.L = [z.L EXCEPT ![T(z)] = th] /\ w.C = z.C /\ w.err = z.err /\ T(w) = T(z)
BY DEF IsZ, On, T
LEMMA OnTh ==
  ASSUME NEW z, GoodZ(z), NEW th
  PROVE  Th(On(z, th)) = th
<1>1. IsZ(z) /\ T(z) \in Threads /\ z.L = [s \in Threads |-> z.L[s]]
  BY ZIs DEF GoodZ
<1>2. On(z, th).L = [z.L EXCEPT ![T(z)] = th] /\ T(On(z, th)) = T(z)
  BY <1>1, OnIs
<1>3. [z.L EXCEPT ![T(z)] = th][T(z)] = th
  BY <1>1
<1>4. QED
  BY <1>2, <1>3 DEF Th
LEMMA StackedIs ==
  ASSUME NEW z, IsZ(z), NEW r
  PROVE  LET w == Stacked(z, r)
         IN IsZ(w) /\ w.L = z.L /\ w.C = Append(z.C, r) /\ w.err = z.err
BY DEF IsZ, Stacked
LEMMA UnstackedIs ==
  ASSUME NEW z, IsZ(z)
  PROVE  LET w == Unstacked(z)
         IN IsZ(w) /\ w.L = z.L /\ w.C = Front(z.C) /\ w.err = z.err
BY DEF IsZ, Unstacked
ZL(z, x) == [z EXCEPT !.L = x]
ZC(z, x) == [z EXCEPT !.C = x]
ZE(z, x) == [z EXCEPT !.err = x]
LEMMA ZFields ==
  ASSUME NEW z, IsZ(z), NEW x
  PROVE  /\ IsZ(ZL(z, x)) /\ ZL(z, x).L = x /\ ZL(z, x).C = z.C /\ ZL(z, x).err = z.err
         /\ IsZ(ZC(z, x)) /\ ZC(z, x).L = z.L /\ ZC(z, x).C = x /\ ZC(z, x).err = z.err
         /\ IsZ(ZE(z, x)) /\ ZE(z, x).L = z.L /\ ZE(z, x).C = z.C /\ ZE(z, x).err = x
BY DEF IsZ, ZL, ZC, ZE
MarkLast(D, st) == [D EXCEPT ![Len(D)] = [@ EXCEPT !.back = TRUE, !.status = st]]
LEMMA ReturnsIs ==
  ASSUME NEW z, IsZ(z), NEW st
  PROVE  LET w == Returns(z, st)
         IN /\ IsZ(w) /\ w.L = z.L /\ w.err = z.err
            /\ w.C = MarkLast(z.C, st)
<1> DEFINE D == z.C
           n == Len(D)
           D1 == [D EXCEPT ![n].back = TRUE]
           D2 == [D1 EXCEPT ![n].status = st]
           w == Returns(z, st)
<1>1. w = [[z EXCEPT !.C[n].back = TRUE] EXCEPT !.C[n].status = st]
  BY DEF Returns
<1> DEFINE v == [z EXCEPT !.C[n].back = TRUE]
<1> DEFINE x == [D[n] EXCEPT !.back = TRUE]
<1>0. v = [z EXCEPT !.C = [D EXCEPT ![n] = x]] /\ D1 = [D EXCEPT ![n] = x]
  OBVIOUS
<1>2. IsZ(v) /\ v.L = z.L /\ v.err = z.err /\ v.C = D1
  <2> DEFINE y == [D EXCEPT ![n] = x]
  <2> HIDE DEF v, y, D, D1, n
  <2>1. v = [z EXCEPT !.C = y] /\ D1 = y
    BY <1>0 DEF y
  <2>2. QED
    BY <2>1 DEF IsZ
<1>3. w = [v EXCEPT !.C[n].status = st]
  BY <1>1
<1> HIDE DEF v
<1>4. IsZ(w) /\ w.L = z.L /\ w.err = z.err /\ w.C = D2
  BY <1>2, <1>3 DEF IsZ
<1>5. D2 = [D EXCEPT ![n] = [@ EXCEPT !.back = TRUE, !.status = st]]
  OBVIOUS
<1>6. QED
  BY <1>4, <1>5 DEF MarkLast
\* The last record is marked.
LEMMA Marked ==
  ASSUME NEW D \in Seq(Record), Len(D) >= 1, D[Len(D)].a \in {"C", "docall"}, NEW st \in Statuses, NEW E,
         E = MarkLast(D, st)
  PROVE  /\ E \in Seq(Record) /\ Len(E) = Len(D) /\ \A i \in 1..Len(D) : i < Len(D) => E[i] = D[i]
         /\ Alike(D[Len(D)], E[Len(D)]) /\ E[Len(D)].back /\ E[Len(D)].status = st
<1> DEFINE n == Len(D)
           r == [D[n] EXCEPT !.back = TRUE, !.status = st]
<1>1. D[n] \in Record /\ n \in Nat /\ n >= 1
  OBVIOUS
<1>2. /\ r \in [a : {"C", "docall"}, t : Threads, at : Places, back : BOOLEAN, status : Statuses]
      /\ r.a = D[n].a /\ r.t = D[n].t /\ r.at = D[n].at /\ r.back /\ r.status = st
  BY <1>1 DEF Record
<1>3. r \in Record
  BY <1>2 DEF Record
<1>4. E = [D EXCEPT ![n] = r]
  BY DEF MarkLast
<1> HIDE DEF r
<1> HIDE DEF n
<1>5. E \in Seq(Record) /\ Len(E) = n /\ E[n] = r /\ \A i \in 1..n : i < n => E[i] = D[i]
  <2>1. n = Len(D) /\ D \in [1..n -> Record]
    BY <1>1 DEF n
  <2>2. E \in [1..n -> Record] /\ n \in Nat
    BY <1>1, <1>3, <1>4, <2>1
  <2>5. n \in 1..n
    BY <1>1
  <2>6. \A i \in 1..n : [D EXCEPT ![n] = r][i] = IF i = n THEN r ELSE D[i]
    BY <2>1
  <2>7. \A i \in 1..n : E[i] = IF i = n THEN r ELSE D[i]
    BY <1>4, <2>6, Zenon
  <2>3. E[n] = r /\ \A i \in 1..n : i < n => E[i] = D[i]
    BY <1>1, <2>5, <2>7
  <2>4. QED
    BY <2>2, <2>3
<1>6. QED
  BY <1>2, <1>5 DEF Alike, n
\* The first records.
LEMMA First ==
  ASSUME NEW D \in Seq(Record), NEW m \in 1..Len(D), NEW E, E = SubSeq(D, 1, m)
  PROVE  Beginning(E, D, m) /\ Last(E) = D[m] /\ E[m] = D[m]
<1>1. E \in Seq(Record) /\ Len(E) = m /\ \A i \in 1..m : E[i] = D[i]
  OBVIOUS
<1>2. QED
  BY <1>1 DEF Beginning, Alike, Last
LEMMA Whole ==
  ASSUME NEW D \in Seq(Record), Len(D) >= 1
  PROVE  Beginning(D, D, Len(D))
BY DEF Beginning, Alike
LEMMA FrontRecords ==
  ASSUME NEW D \in Seq(Record), Len(D) >= 2
  PROVE  Beginning(Front(D), D, Len(D) - 1) /\ Last(Front(D)) = D[Len(D) - 1]
<1>1. Len(D) - 1 \in 1..Len(D)
  OBVIOUS
<1>2. QED
  BY <1>1, First DEF Front

\* Something changes in the thread that runs, and nothing else.
Adjusted(u, th, r) ==
  /\ IsThread(u) /\ Slots(u) /\ u.status = th.status /\ u.nny = th.nny /\ u.nCcalls = th.nCcalls
  /\ Len(u.ci) = Len(th.ci) /\ Below(u, th, r) /\ (r.a = "C" => ~u.ci[r.at].yp)
  /\ \A i \in (r.at + 1)..Len(th.ci) : Agree(u.ci[i], th.ci[i])
LEMMA AdjustedGood ==
  ASSUME NEW z, GoodZ(z), NEW u, Adjusted(u, Th(z), Last(z.C))
  PROVE  LET w == On(z, u)
         IN GoodZ(w) /\ Th(w) = u /\ w.C = z.C /\ w.err = z.err /\ T(w) = T(z) /\ Last(w.C) = Last(z.C)
<1> DEFINE D == z.C
           M == z.L
           n == Len(D)
           t == D[n].t
           th == M[t]
           r == D[n]
           w == On(z, u)
<1>0. Good(M, D) /\ IsZ(z)
  BY DEF GoodZ
<1>1. /\ n \in Nat /\ n >= 1 /\ n \in 1..n /\ Last(D) = r /\ T(z) = t /\ t \in Threads /\ D \in Seq(Record)
      /\ Th(z) = th /\ IsThread(th) /\ Slots(th) /\ th.status = "OK"
      /\ th.nny = Ny(D, t, n) + MainNy(t) /\ th.nCcalls = Calling(D, n) /\ Good(M, D) /\ IsZ(z)
  <2>1. T(z) = t /\ Th(z) = th
    BY ZIs
  <2>2. QED
    BY <1>0, <2>1, ZIs
<1>2. Beginning(D, D, n)
  BY <1>1, Whole
<1>3. /\ IsZ(w) /\ w.L = [M EXCEPT ![t] = u] /\ w.C = D /\ w.err = z.err /\ T(w) = T(z)
  BY <1>1, OnIs
<1>4. Adjusted(u, th, r) /\ r.at \in Nat /\ r.at >= 1 /\ Len(th.ci) \in Nat
  BY <1>1, RecordIs, GoodIs, ThreadIs
<1>5. ASSUME NEW i \in (r.at + 1)..Len(u.ci) PROVE ContinuedAt(u, D, t, i)
  <2>0. Len(u.ci) = Len(th.ci)
    BY <1>4 DEF Adjusted
  <2>1. i \in 2..Len(th.ci)
    BY <1>4, <2>0
  <2>2. ContinuedAt(th, D, t, i)
    BY <1>1, <2>1 DEF Good, Continued, errorstatus
  <2>3. Agree(u.ci[i], th.ci[i]) /\ u.status = th.status /\ Len(u.ci) = Len(th.ci)
    BY <1>4 DEF Adjusted
  <2>4. QED
    BY <2>2, <2>3 DEF ContinuedAt, Agree
<1>6. Remains(u, M, D, n, D)
  BY <1>1, <1>4, <1>5 DEF Remains, Adjusted
<1>7. \A i \in (n + 1)..Len(D) : D[i].t = D[n].t
  BY <1>1
<1> DEFINE N == [M EXCEPT ![t] = u]
<1>8. Good(N, D)
  <2>1. N = Moved(M, D[n].t, u)
    BY DEF Moved
  <2> HIDE DEF N, M, D, n
  <2>2. QED
    BY <1>1, <1>2, <1>6, <1>7, <2>1, CutGood
<1>9. Th(w) = u
  BY OnTh
<1>10. QED
  BY <1>3, <1>8, <1>9 DEF GoodZ
LEMMA SlotsKept ==
  ASSUME NEW th, IsThread(th), Slots(th), ~errorstatus(th.status), NEW w, IsThread(w), w.big = th.big,
         ~errorstatus(w.status), Len(w.stack) <= lim(th) + 3,
         \A i \in 1..Len(w.ci) : \/ i \in 1..Len(th.ci) /\ w.ci[i] = th.ci[i]
                                 \/ FrameFits(i, w.ci[i]) /\ w.ci[i].top <= lim(th)
  PROVE  Slots(w) /\ lim(w) = lim(th)
<1>1. lim(w) = lim(th)
  BY DEF lim
<1>2. \A i \in 1..Len(w.ci) : FrameFits(i, w.ci[i]) /\ w.ci[i].top <= lim(th)
  BY DEF Slots
<1>3. QED
  BY <1>1, <1>2 DEF Slots
LEMMA RoomIs ==
  ASSUME NEW th, IsThread(th), NEW n \in Nat, Room(th, n)
  PROVE  Len(th.stack) + n <= lim(th)
<1>1. Len(th.stack) \in Nat /\ th.big \in BOOLEAN
  BY ThreadIs
<1>2. QED
  BY <1>1, Sizes DEF Room, lim
LEMMA TopFrame ==
  ASSUME NEW th, IsThread(th), Slots(th), ~errorstatus(th.status)
  PROVE  /\ Ci(th).top <= lim(th) /\ FrameFits(Len(th.ci), Ci(th)) /\ Ci(th).top \in Nat /\ Ci(th).func \in Nat
         /\ lim(th) \in Nat /\ Len(th.stack) \in Nat /\ Len(th.ci) \in Nat /\ Len(th.ci) >= 1
         /\ Ci(th).func >= 1 /\ Ci(th).func + 1 <= Ci(th).top /\ Ci(th) = th.ci[Len(th.ci)] /\ Ci(th) \in Frame
         /\ (~Ci(th).lua => Ci(th).func + 2 <= Ci(th).top) /\ (Len(th.ci) >= 2 => Ci(th).func >= 2)
         /\ (Len(th.ci) = 1 => Ci(th).func = 1)
<1>1. Ci(th) = th.ci[Len(th.ci)] /\ Len(th.ci) \in Nat /\ Len(th.ci) >= 1 /\ Ci(th) \in Frame /\ Len(th.stack) \in Nat
  BY ThreadIs
<1>2. Ci(th).top \in Nat /\ Ci(th).func \in Nat /\ lim(th) \in Nat
  BY <1>1, FrameIs, LimIs
<1>3. Ci(th).top <= lim(th) /\ FrameFits(Len(th.ci), Ci(th))
  BY <1>1 DEF Slots
<1>4. QED
  BY <1>1, <1>2, <1>3, Sizes DEF FrameFits
\* A frame is pushed.
LEMMA FramePushed ==
  ASSUME NEW th, IsThread(th), Slots(th), ~errorstatus(th.status), NEW s, SeqIs(s), Len(s) <= lim(th) + 3,
         NEW f \in Frame, FrameFits(Len(th.ci) + 1, f), f.top <= lim(th), NEW w,
         w = PutInfos(PutStack(th, s), Append(th.ci, f))
  PROVE  /\ IsThread(w) /\ Slots(w) /\ w.stack = s /\ Rest6(w, th) /\ Len(w.ci) = Len(th.ci) + 1
         /\ \A i \in 1..Len(th.ci) : w.ci[i] = th.ci[i]
         /\ w.ci[Len(th.ci) + 1] = f /\ Ci(w) = f /\ lim(w) = lim(th)
<1> DEFINE u == PutStack(th, s)
           c == Append(th.ci, f)
<1>1. IsThread(u) /\ u.stack = s /\ u.ci = th.ci /\ Rest6(u, th)
  <2>1. u = PutStack(th, s)
    OBVIOUS
  <2> HIDE DEF u
  <2>2. QED
    BY <2>1, Stack
<1>2. th.ci \in Seq(Frame) /\ Len(th.ci) \in Nat
  BY ThreadIs
<1>3. /\ c \in Seq(Frame) /\ Len(c) = Len(th.ci) + 1 /\ Len(c) >= 1 /\ c[Len(th.ci) + 1] = f
      /\ \A i \in 1..Len(th.ci) : c[i] = th.ci[i]
  BY <1>2
<1>4. w = PutInfos(u, c)
  OBVIOUS
<1> HIDE DEF u, c
<1>5. IsThread(w) /\ w.stack = s /\ w.ci = c /\ Rest6(w, u)
  BY <1>1, <1>3, <1>4, Infos
<1>6. Rest6(w, th)
  BY <1>1, <1>5 DEF Rest6
<1>7. Slots(w) /\ lim(w) = lim(th)
  <2>1. ASSUME NEW i \in 1..Len(w.ci)
        PROVE  \/ i \in 1..Len(th.ci) /\ w.ci[i] = th.ci[i]
               \/ FrameFits(i, w.ci[i]) /\ w.ci[i].top <= lim(th)
    <3>1. CASE i = Len(th.ci) + 1
      BY <3>1, <1>3, <1>5
    <3>2. CASE i # Len(th.ci) + 1
      BY <3>2, <1>2, <1>3, <1>5
    <3>3. QED
      BY <3>1, <3>2
  <2>2. w.big = th.big /\ ~errorstatus(w.status) /\ Len(w.stack) <= lim(th) + 3
    BY <1>5, <1>6 DEF Rest6
  <2>3. QED
    BY <1>5, <2>1, <2>2, SlotsKept
<1>8. Ci(w) = f
  BY <1>3, <1>5 DEF Ci, Last
<1>9. QED
  BY <1>3, <1>5, <1>6, <1>7, <1>8
IsLuaFrame(w, th, fresh) ==
  /\ IsThread(w) /\ Slots(w) /\ Rest6(w, th) /\ Len(w.ci) = Len(th.ci) + 1
  /\ \A i \in 1..Len(th.ci) : w.ci[i] = th.ci[i]
  /\ w.ci[Len(th.ci) + 1].lua /\ w.ci[Len(th.ci) + 1].fresh = fresh /\ ~w.ci[Len(th.ci) + 1].yp
LEMMA LuaFrame ==
  ASSUME NEW th, IsThread(th), Slots(th), ~errorstatus(th.status), NEW func \in Nat, func >= 2,
         func <= Len(th.stack), Room(th, FrameSize), NEW nres \in {-1, 0, 1, 2}, NEW fresh, fresh \in BOOLEAN
  PROVE  IsLuaFrame(luaframe(th, func, nres, fresh), th, fresh)
<1> DEFINE t == th.stack \o Nils(FrameSize)
           s == SubSeq(t, 1, func + FrameSize)
           f == CallInfo(func, func + FrameSize, nres, TRUE, fresh)
           w == luaframe(th, func, nres, fresh)
<1>1. Len(th.stack) \in Nat /\ FrameSize \in Nat /\ FrameSize >= 1 /\ Len(th.stack) + FrameSize <= lim(th)
      /\ Len(th.ci) \in Nat /\ Len(th.ci) >= 1 /\ lim(th) \in Nat
  BY ThreadIs, Sizes, RoomIs, LimIs
<1>2. SeqIs(s) /\ Len(s) = func + FrameSize
  <2>1. SeqIs(t)
    BY <1>1, ThreadIs, Fixed, Joined
  <2> HIDE DEF t
  <2>2. QED
    BY <1>1, <2>1, Cut
<1>3. f \in Frame /\ f.func = func /\ f.top = func + FrameSize /\ f.lua /\ f.fresh = fresh /\ ~f.yp
  BY <1>1 DEF CallInfo, Frame
<1>4. w = PutInfos(PutStack(th, s), Append(th.ci, f))
  BY DEF luaframe, PutInfos, PutStack
<1> HIDE DEF s, f, w
<1>5. FrameFits(Len(th.ci) + 1, f) /\ f.top <= lim(th) /\ Len(s) <= lim(th) + 3
  BY <1>1, <1>2, <1>3 DEF FrameFits
<1>6. /\ IsThread(w) /\ Slots(w) /\ Rest6(w, th) /\ Len(w.ci) = Len(th.ci) + 1
      /\ (\A i \in 1..Len(th.ci) : w.ci[i] = th.ci[i]) /\ w.ci[Len(th.ci) + 1] = f
  BY <1>2, <1>3, <1>4, <1>5, FramePushed
<1>7. IsLuaFrame(w, th, fresh)
  BY <1>3, <1>6 DEF IsLuaFrame
<1>8. QED
  BY <1>7 DEF w
IsCFrame(w, th, func) ==
  /\ IsThread(w) /\ Slots(w) /\ Rest6(w, th) /\ Len(w.ci) = Len(th.ci) + 1
  /\ \A i \in 1..Len(th.ci) : w.ci[i] = th.ci[i]
  /\ ~w.ci[Len(th.ci) + 1].lua /\ ~w.ci[Len(th.ci) + 1].yp /\ w.stack = th.stack
  /\ Ci(w).func = func /\ Ci(w).top = Len(th.stack) + LUA_MINSTACK /\ ~Ci(w).yp /\ Ci(w) = w.ci[Len(th.ci) + 1]
LEMMA CFrame ==
  ASSUME NEW th, IsThread(th), Slots(th), ~errorstatus(th.status), NEW func \in Nat, func >= 2,
         func <= Len(th.stack), Room(th, LUA_MINSTACK), NEW nres \in {-1, 0, 1, 2}
  PROVE  IsCFrame(cframe(th, func, nres), th, func)
<1> DEFINE s == th.stack
           f == CallInfo(func, Len(th.stack) + LUA_MINSTACK, nres, FALSE, FALSE)
           w == cframe(th, func, nres)
<1>1. Len(th.stack) \in Nat /\ LUA_MINSTACK \in Nat /\ LUA_MINSTACK >= 3 /\ Len(th.stack) + LUA_MINSTACK <= lim(th)
      /\ Len(th.ci) \in Nat /\ Len(th.ci) >= 1 /\ lim(th) \in Nat /\ SeqIs(s)
  BY ThreadIs, Sizes, RoomIs, LimIs
<1>3. f \in Frame /\ f.func = func /\ f.top = Len(th.stack) + LUA_MINSTACK /\ ~f.lua /\ ~f.yp
  BY <1>1 DEF CallInfo, Frame
<1>4. w = PutInfos(PutStack(th, s), Append(th.ci, f))
  <2>1. PutStack(th, th.stack) = th
    <3>1. PICK V : th \in ThreadOver(V)
      BY DEF IsThread
    <3>2. QED
      BY <3>1 DEF PutStack, ThreadOver
  <2>2. QED
    BY <2>1 DEF cframe, PutInfos
<1> HIDE DEF s, f, w
<1>5. FrameFits(Len(th.ci) + 1, f) /\ f.top <= lim(th) /\ Len(s) <= lim(th) + 3
  BY <1>1, <1>3 DEF FrameFits, s
<1>6. /\ IsThread(w) /\ Slots(w) /\ Rest6(w, th) /\ Len(w.ci) = Len(th.ci) + 1 /\ w.stack = s /\ Ci(w) = f
      /\ (\A i \in 1..Len(th.ci) : w.ci[i] = th.ci[i]) /\ w.ci[Len(th.ci) + 1] = f
  BY <1>1, <1>3, <1>4, <1>5, FramePushed
<1>7. IsCFrame(w, th, func)
  BY <1>3, <1>6 DEF s, IsCFrame
<1>8. QED
  BY <1>7 DEF w
LEMMA Grown ==
  ASSUME NEW th, IsThread(th), Slots(th)
  PROVE  LET w == [th EXCEPT !.big = TRUE]
         IN /\ IsThread(w) /\ Slots(w) /\ w.stack = th.stack /\ w.ci = th.ci /\ w.status = th.status
            /\ w.nny = th.nny /\ w.nCcalls = th.nCcalls /\ w.big
<1> DEFINE w == [th EXCEPT !.big = TRUE]
           v == TRUE
<1>1. w = PutBig(th, v) /\ v \in BOOLEAN
  BY DEF PutBig
<1> HIDE DEF w, v
<1>2. /\ IsThread(w) /\ w.big = v /\ w.stack = th.stack /\ w.ci = th.ci /\ w.status = th.status
      /\ w.nny = th.nny /\ w.nCcalls = th.nCcalls
  BY <1>1, SetBig
<1>3. w.big
  BY <1>2 DEF v
<1>4. lim(w) >= lim(th) /\ lim(w) \in Nat /\ lim(th) \in Nat
  BY <1>2, <1>3, LimIs, Sizes, ThreadIs
<1>5. Len(w.stack) \in Nat /\ \A i \in 1..Len(th.ci) : th.ci[i].top \in Nat
  BY <1>2, ThreadIs, FrameIs
<1>6. Slots(w)
  BY <1>2, <1>4, <1>5 DEF Slots
<1>7. QED
  BY <1>2, <1>3, <1>6 DEF w
\* The running frame changes.
LEMMA FrameChanged ==
  ASSUME NEW th, IsThread(th), Slots(th), ~errorstatus(th.status), NEW f \in Frame,
         FrameFits(Len(th.ci), f), f.top <= lim(th)
  PROVE  LET w == OnCi(th, f)
         IN /\ IsThread(w) /\ Slots(w) /\ w.stack = th.stack /\ Rest6(w, th) /\ Len(w.ci) = Len(th.ci)
            /\ w.ci[Len(th.ci)] = f /\ Ci(w) = f /\ lim(w) = lim(th)
            /\ \A i \in 1..(Len(th.ci) - 1) : w.ci[i] = th.ci[i]
<1> DEFINE w == OnCi(th, f)
<1> HIDE DEF w
<1>1. /\ IsThread(w) /\ w.stack = th.stack /\ Rest6(w, th) /\ Len(w.ci) = Len(th.ci)
      /\ w.ci[Len(th.ci)] = f /\ Ci(w) = f
      /\ \A i \in 1..(Len(th.ci) - 1) : w.ci[i] = th.ci[i]
  BY CiIs DEF w
<1>2. Len(th.ci) \in Nat /\ Len(th.stack) <= lim(th) + 3
  BY ThreadIs DEF Slots
<1>3. ASSUME NEW i \in 1..Len(w.ci)
      PROVE  \/ i \in 1..Len(th.ci) /\ w.ci[i] = th.ci[i]
             \/ FrameFits(i, w.ci[i]) /\ w.ci[i].top <= lim(th)
  <2>1. CASE i = Len(th.ci)
    BY <2>1, <1>1
  <2>2. CASE i # Len(th.ci)
    BY <2>2, <1>1, <1>2
  <2>3. QED
    BY <2>1, <2>2
<1>4. w.big = th.big /\ ~errorstatus(w.status) /\ Len(w.stack) <= lim(th) + 3
  BY <1>1, <1>2 DEF Rest6
<1>5. Slots(w) /\ lim(w) = lim(th)
  BY <1>1, <1>3, <1>4, SlotsKept
<1>6. QED
  BY <1>1, <1>5 DEF w
AgreeAll(w, th) == Len(w.ci) = Len(th.ci) /\ \A i \in 1..Len(th.ci) : Agree(w.ci[i], th.ci[i])
LEMMA AgreesIs ==
  ASSUME NEW th, IsThread(th), NEW w, Len(w.ci) = Len(th.ci), Agree(w.ci[Len(th.ci)], Ci(th)),
         \A i \in 1..(Len(th.ci) - 1) : w.ci[i] = th.ci[i]
  PROVE  AgreeAll(w, th)
<1>1. Len(th.ci) \in Nat /\ Ci(th) = th.ci[Len(th.ci)] /\ \A i \in 1..Len(th.ci) : th.ci[i].top \in Nat
  BY ThreadIs, FrameIs
<1>2. ASSUME NEW i \in 1..Len(th.ci) PROVE Agree(w.ci[i], th.ci[i])
  <2>1. CASE i = Len(th.ci)
    BY <2>1, <1>1
  <2>2. CASE i # Len(th.ci)
    BY <2>2, <1>1 DEF Agree
  <2>3. QED
    BY <2>1, <2>2
<1>3. QED
  BY <1>2 DEF AgreeAll
LEMMA RoomierFits ==
  ASSUME NEW th, IsThread(th), Slots(th), ~errorstatus(th.status), NEW n \in Nat, Len(th.stack) + n <= lim(th)
  PROVE  LET w == lua_checkstack(th, n)
         IN /\ IsThread(w) /\ Slots(w) /\ w.stack = th.stack /\ Rest6(w, th) /\ AgreeAll(w, th)
            /\ Len(th.stack) + n <= Ci(w).top /\ Ci(th).top <= Ci(w).top /\ Agree(Ci(w), Ci(th)) /\ lim(w) = lim(th)
<1> DEFINE h == IF Ci(th).top >= Len(th.stack) + n THEN Ci(th).top ELSE Len(th.stack) + n
           f == [Ci(th) EXCEPT !.top = h]
           w == lua_checkstack(th, n)
<1>1. /\ Ci(th).top <= lim(th) /\ FrameFits(Len(th.ci), Ci(th)) /\ Ci(th).top \in Nat /\ lim(th) \in Nat
      /\ Len(th.stack) \in Nat /\ Ci(th) \in Frame /\ Ci(th) = th.ci[Len(th.ci)] /\ Ci(th).func \in Nat
  BY TopFrame
<1>2. h \in Nat /\ Len(th.stack) + n <= h /\ Ci(th).top <= h /\ h <= lim(th)
  BY <1>1
<1>3. f = [Ci(th) EXCEPT !.top = h]
  OBVIOUS
<1>4. w.ci = [th.ci EXCEPT ![Len(th.ci)] = f] /\ Ci(w) = f /\ w = OnCi(th, f)
  <2>1. w.ci = [th.ci EXCEPT ![Len(th.ci)] = f] /\ Ci(w) = f
    BY Roomier
  <2>2. Max({Ci(th).top, Len(th.stack) + n}) = h
    <3> DEFINE S == {Ci(th).top, Len(th.stack) + n}
    <3> HIDE DEF h
    <3>1. S \in SUBSET (0..h) /\ S # {} /\ h \in S
      BY <1>1, <1>2 DEF h
    <3>2. Max(S) \in S /\ \A x \in S : x <= Max(S)
      BY <1>2, <3>1, MaxIs
    <3>3. QED
      BY <3>1, <3>2, <1>2
  <2>3. QED
    BY <2>1, <2>2 DEF lua_checkstack
<1> HIDE DEF h, w
<1>5. f \in Frame /\ f.top = h /\ f.func = Ci(th).func /\ f.lua = Ci(th).lua /\ f.fresh = Ci(th).fresh
      /\ f.yp = Ci(th).yp /\ f.k = Ci(th).k /\ f.extra = Ci(th).extra
  BY <1>1, <1>2 DEF Frame
<1> HIDE DEF f
<1>6. FrameFits(Len(th.ci), f) /\ f.top <= lim(th) /\ Agree(f, Ci(th))
  <2>1. Ci(th).extra \in Nat
    BY <1>1, FrameIs
  <2>2. FrameFits(Len(th.ci), f)
    BY <2>1, <1>1, <1>2, <1>5, Sizes DEF FrameFits
  <2>3. QED
    BY <2>2, <1>2, <1>5 DEF Agree
<1>7. /\ IsThread(w) /\ Slots(w) /\ w.stack = th.stack /\ Rest6(w, th) /\ Len(w.ci) = Len(th.ci)
      /\ w.ci[Len(th.ci)] = f /\ Ci(w) = f /\ lim(w) = lim(th)
      /\ \A i \in 1..(Len(th.ci) - 1) : w.ci[i] = th.ci[i]
  <2> DEFINE v == OnCi(th, f)
  <2>1. /\ IsThread(v) /\ Slots(v) /\ v.stack = th.stack /\ Rest6(v, th) /\ Len(v.ci) = Len(th.ci)
        /\ v.ci[Len(th.ci)] = f /\ Ci(v) = f /\ lim(v) = lim(th)
        /\ \A i \in 1..(Len(th.ci) - 1) : v.ci[i] = th.ci[i]
    BY <1>5, <1>6, FrameChanged
  <2>2. w = v
    BY <1>4
  <2>3. QED
    BY <2>1, <2>2
<1>8. AgreeAll(w, th)
  BY <1>6, <1>7, AgreesIs
<1>9. QED
  BY <1>2, <1>5, <1>6, <1>7, <1>8 DEF w
\* The values that a coroutine hands over.
LEMMA XmoveIs ==
  ASSUME NEW th, IsThread(th), Slots(th), ~errorstatus(th.status), Len(th.stack) + 1 <= Ci(th).top,
         NEW co, IsThread(co), NEW n \in Nat, n <= Len(co.stack), NEW st \in Statuses, errorstatus(st) => n = 1
  PROVE  LET w == xmove(th, co, n, st)
         IN /\ IsThread(w) /\ Slots(w) /\ Rest6(w, th) /\ AgreeAll(w, th)
            /\ Len(w.stack) <= Ci(w).top /\ Agree(Ci(w), Ci(th))
            /\ Len(w.stack) >= Len(th.stack)
<1> DEFINE w == xmove(th, co, n, st)
           s == SubSeq(co.stack, Len(co.stack) - n + 1, Len(co.stack))
<1>0. /\ Ci(th).top <= lim(th) /\ FrameFits(Len(th.ci), Ci(th)) /\ Ci(th).top \in Nat /\ lim(th) \in Nat
      /\ Len(th.stack) \in Nat /\ Ci(th) \in Frame /\ Ci(th) = th.ci[Len(th.ci)] /\ Len(th.ci) \in Nat
      /\ SeqIs(th.stack) /\ Len(co.stack) \in Nat /\ SeqIs(co.stack)
  BY TopFrame, ThreadIs
<1>1. SeqIs(s) /\ Len(s) = n
  <2>1. SeqIs(s) /\ Len(s) = IF Len(co.stack) - n + 1 <= Len(co.stack)
                             THEN Len(co.stack) - (Len(co.stack) - n + 1) + 1 ELSE 0
    BY <1>0, Cut
  <2>2. QED
    BY <1>0, <2>1
<1>2. AgreeAll(th, th) /\ Agree(Ci(th), Ci(th))
  BY <1>0, AgreesIs DEF Agree
\* A value is pushed, and the frames are the same.
<1>3. ASSUME NEW u, IsThread(u), u.ci = th.ci, Rest6(u, th), Len(u.stack) = Len(th.stack) + 1
      PROVE  /\ Slots(u) /\ Len(u.stack) <= Ci(u).top /\ AgreeAll(u, th) /\ Len(u.stack) >= Len(th.stack)
             /\ Agree(Ci(u), Ci(th))
  <2>1. Ci(u) = Ci(th)
    BY <1>3 DEF Ci
  <2>2. u.big = th.big /\ ~errorstatus(u.status) /\ Len(u.stack) <= lim(th) + 3
    BY <1>0, <1>3 DEF Rest6
  <2>3. Slots(u)
    BY <1>3, <2>2, SlotsKept
  <2>4. QED
    BY <1>0, <1>2, <1>3, <2>1, <2>3 DEF AgreeAll
<1>4. CASE TooMany(th, n, st)
  <2>1. w = Push(th, "too many results to resume")
    BY <1>4 DEF xmove
  <2>2. IsThread(w) /\ w.ci = th.ci /\ Rest6(w, th) /\ Len(w.stack) = Len(th.stack) + 1
    BY <2>1, Pushed
  <2> HIDE DEF w
  <2>3. QED
    BY <1>3, <2>2 DEF w
<1>5. CASE errorstatus(st)
  <2>1. w = PutStack(th, th.stack \o s)
    BY <1>5 DEF xmove, TooMany, PutStack
  <2>2. SeqIs(th.stack \o s) /\ Len(th.stack \o s) = Len(th.stack) + 1
    BY <1>0, <1>1, <1>5, Joined
  <2> DEFINE x == th.stack \o s
  <2> HIDE DEF w, x
  <2>3. w = PutStack(th, x) /\ SeqIs(x) /\ Len(x) = Len(th.stack) + 1
    BY <2>1, <2>2 DEF x
  <2>4. IsThread(w) /\ w.stack = x /\ w.ci = th.ci /\ Rest6(w, th)
    BY <2>3, Stack
  <2>5. QED
    BY <1>3, <2>3, <2>4 DEF w
<1>6. CASE ~errorstatus(st) /\ ~TooMany(th, n, st)
  <2> DEFINE u == lua_checkstack(th, n + 1)
             x == u.stack \o s
  <2>1. w = PutStack(u, x)
    BY <1>6 DEF xmove, PutStack
  <2>2. Room(th, n + 1) /\ n + 1 \in Nat
    BY <1>6 DEF TooMany
  <2>3. Len(th.stack) + (n + 1) <= lim(th)
    BY <2>2, RoomIs
  <2>4. /\ IsThread(u) /\ Slots(u) /\ u.stack = th.stack /\ Rest6(u, th) /\ AgreeAll(u, th)
        /\ Len(th.stack) + (n + 1) <= Ci(u).top /\ lim(u) = lim(th) /\ Agree(Ci(u), Ci(th))
    BY <2>2, <2>3, RoomierFits
  <2>5. SeqIs(x) /\ Len(x) = Len(th.stack) + n
    BY <1>0, <1>1, <2>4, Joined
  <2> HIDE DEF u, x, w
  <2>6. IsThread(w) /\ w.stack = x /\ w.ci = u.ci /\ Rest6(w, u)
    BY <2>1, <2>4, <2>5, Stack
  <2>7. Ci(w) = Ci(u) /\ Ci(u).top \in Nat
    BY <2>4, <2>6, ThreadIs, FrameIs DEF Ci
  <2>0. Len(w.stack) >= Len(th.stack) /\ Len(w.stack) <= Ci(w).top /\ Len(w.stack) <= lim(u) + 3
    <3>1. Len(w.stack) = Len(th.stack) + n
      BY <2>5, <2>6
    <3>2. Len(th.stack) + (n + 1) <= Ci(w).top /\ Ci(w).top \in Nat
      BY <2>4, <2>7
    <3>3. Len(th.stack) + (n + 1) <= lim(u) /\ lim(u) \in Nat
      BY <1>0, <2>3, <2>4
    <3> DEFINE a == Len(th.stack)
               b == Ci(w).top
               c == lim(u)
    <3>4. a \in Nat /\ b \in Nat /\ c \in Nat /\ n \in Nat /\ a + (n + 1) <= b /\ a + (n + 1) <= c
      BY <1>0, <3>2, <3>3
    <3> HIDE DEF a, b, c
    <3>5. a + n >= a /\ a + n <= b /\ a + n <= c + 3
      BY <3>4
    <3>6. QED
      BY <3>1, <3>5 DEF a, b, c
  <2>8. w.big = u.big /\ ~errorstatus(u.status) /\ ~errorstatus(w.status)
    BY <2>4, <2>6 DEF Rest6
  <2>9. Slots(w)
    BY <2>0, <2>4, <2>6, <2>8, SlotsKept
  <2>10. Rest6(w, th) /\ AgreeAll(w, th) /\ Agree(Ci(w), Ci(th))
    BY <2>4, <2>6, <2>7 DEF Rest6, AgreeAll
  <2>11. QED
    BY <1>6, <2>0, <2>6, <2>9, <2>10 DEF w
<1>7. QED
  BY <1>4, <1>5, <1>6 DEF TooMany
\* A C function sets the continuation of the call that it makes.
HasContinuation(w, th, k) ==
  /\ IsThread(w) /\ Slots(w) /\ w.stack = th.stack /\ Rest6(w, th) /\ Len(w.ci) = Len(th.ci)
  /\ \A i \in 1..(Len(th.ci) - 1) : w.ci[i] = th.ci[i]
  /\ Ci(w).k = k /\ ~Ci(w).yp /\ Ci(w).lua = Ci(th).lua /\ Ci(w).func = Ci(th).func
  /\ Ci(w).top = Ci(th).top /\ Ci(w) = w.ci[Len(th.ci)]
LEMMA ContinuationSet ==
  ASSUME NEW th, IsThread(th), Slots(th), ~errorstatus(th.status), NEW k \in Ks, ~Ci(th).yp
  PROVE  HasContinuation(OnCi(th, [Ci(th) EXCEPT !.k = k]), th, k)
<1> DEFINE f == [Ci(th) EXCEPT !.k = k]
           w == OnCi(th, f)
<1>1. /\ Ci(th).top <= lim(th) /\ FrameFits(Len(th.ci), Ci(th)) /\ Ci(th) \in Frame
  BY TopFrame
<1>2. /\ f \in Frame /\ f.k = k /\ ~f.yp /\ f.lua = Ci(th).lua /\ f.func = Ci(th).func /\ f.top = Ci(th).top
  BY <1>1 DEF Frame
<1> HIDE DEF f
<1>3. FrameFits(Len(th.ci), f) /\ f.top <= lim(th)
  BY <1>1, <1>2 DEF FrameFits
<1>4. /\ IsThread(w) /\ Slots(w) /\ w.stack = th.stack /\ Rest6(w, th) /\ Len(w.ci) = Len(th.ci)
      /\ w.ci[Len(th.ci)] = f /\ Ci(w) = f /\ lim(w) = lim(th)
      /\ \A i \in 1..(Len(th.ci) - 1) : w.ci[i] = th.ci[i]
  BY <1>1, <1>2, <1>3, FrameChanged
<1> HIDE DEF w
<1>5. HasContinuation(w, th, k)
  BY <1>2, <1>4 DEF HasContinuation
<1>6. QED
  BY <1>5 DEF f, w
\* A pcall in a coroutine that may yield.
IsYpcall(w, th, k) ==
  /\ IsThread(w) /\ Slots(w) /\ w.stack = th.stack /\ Len(w.ci) = Len(th.ci)
  /\ w.status = th.status /\ w.nny = th.nny /\ w.nCcalls = th.nCcalls /\ w.big = th.big
  /\ \A i \in 1..(Len(th.ci) - 1) : w.ci[i] = th.ci[i]
  /\ Ci(w).k = k /\ Ci(w).yp /\ ~Ci(w).lua /\ Ci(w).func = Ci(th).func
  /\ Ci(w).top = Ci(th).top /\ Ci(w) = w.ci[Len(th.ci)]
LEMMA YpcallIs ==
  ASSUME NEW th, IsThread(th), Slots(th), ~errorstatus(th.status), NEW k \in Protects,
         NEW func \in 1..Ci(th).top, NEW errfunc \in Nat, Len(th.ci) >= 2, ~Ci(th).lua
  PROVE  IsYpcall(ypcall(th, func, errfunc, k), th, k)
<1> DEFINE f == [Ci(th) EXCEPT !.yp = TRUE, !.k = k, !.extra = func, !.olderr = th.errfunc]
           u == PutErrfunc(th, errfunc)
           w == ypcall(th, func, errfunc, k)
<1>1. /\ Ci(th).top <= lim(th) /\ FrameFits(Len(th.ci), Ci(th)) /\ Ci(th) \in Frame /\ th.errfunc \in Nat
      /\ Ci(th).top \in Nat
  BY TopFrame, ThreadIs
<1>2. /\ f \in Frame /\ f.k = k /\ f.yp /\ f.lua = Ci(th).lua /\ f.func = Ci(th).func /\ f.top = Ci(th).top
      /\ f.extra = func
  <2> DEFINE c == Ci(th)
             f1 == [c EXCEPT !.yp = TRUE]
             f2 == [f1 EXCEPT !.k = k]
             f3 == [f2 EXCEPT !.extra = func]
             x == th.errfunc
             f4 == [f3 EXCEPT !.olderr = x]
  <2>1. f = f4
    OBVIOUS
  <2>2. c \in Frame /\ func \in Nat /\ k \in Ks /\ x \in Nat
    BY <1>1 DEF Ks, Protects
  <2> HIDE DEF c, f, x
  <2>3. f1 \in Frame /\ f1.yp /\ f1.lua = c.lua /\ f1.func = c.func /\ f1.top = c.top
    BY <2>2 DEF Frame
  <2> HIDE DEF f1
  <2>4. f2 \in Frame /\ f2.yp /\ f2.k = k /\ f2.lua = c.lua /\ f2.func = c.func /\ f2.top = c.top
    BY <2>2, <2>3 DEF Frame
  <2> HIDE DEF f2
  <2>5. /\ f3 \in Frame /\ f3.yp /\ f3.k = k /\ f3.lua = c.lua /\ f3.func = c.func /\ f3.top = c.top
        /\ f3.extra = func
    BY <2>2, <2>4 DEF Frame
  <2> HIDE DEF f3
  <2>6. /\ f4 \in Frame /\ f4.yp /\ f4.k = k /\ f4.lua = c.lua /\ f4.func = c.func /\ f4.top = c.top
        /\ f4.extra = func
    BY <2>2, <2>5 DEF Frame
  <2>7. QED
    BY <2>1, <2>6 DEF c
<1>3. w = OnCi(u, f)
  BY DEF ypcall, PutErrfunc
<1>4. /\ IsThread(u) /\ u.status = th.status /\ u.stack = th.stack /\ u.ci = th.ci
      /\ u.nny = th.nny /\ u.nCcalls = th.nCcalls /\ u.big = th.big
  <2>1. u = PutErrfunc(th, errfunc)
    OBVIOUS
  <2> HIDE DEF u
  <2>2. QED
    BY <2>1, SetErrfunc
<1> HIDE DEF f, u, w
<1>5. FrameFits(Len(th.ci), f) /\ f.top <= lim(th)
  <2>1. Len(th.ci) \in Nat
    BY ThreadIs
  <2>5. ~f.lua /\ f.yp /\ f.k \in Protects
    BY <1>2, Zenon
  <2>6. f.extra \in 1..f.top /\ Len(th.ci) # 1
    <3>1. f.extra = func /\ f.top = Ci(th).top
      BY <1>2
    <3>2. 1 \in Nat /\ func \in 1..Ci(th).top
      OBVIOUS
    <3>3. f.extra \in 1..f.top
      BY <3>1, <3>2, Zenon
    <3>4. \A n \in Nat : n >= 2 => n # 1
      OBVIOUS
    <3>6. Len(th.ci) # 1
      BY <2>1, <3>4
    <3>5. QED
      BY <3>3, <3>6
  <2>2. ~f.lua /\ f.yp /\ f.k \in Protects /\ f.extra \in 1..f.top /\ Len(th.ci) # 1
    BY <2>5, <2>6
  <2>3. Ci(th).func >= 2 /\ Ci(th).func + 2 <= Ci(th).top
    BY <1>1, <2>2, <1>2 DEF FrameFits
  <2>4. QED
    BY <1>1, <1>2, <2>2, <2>3 DEF FrameFits
<1>6. Slots(u) /\ lim(u) = lim(th)
  BY <1>4 DEF Slots, lim
<1> DEFINE v == OnCi(u, f)
<1>7. /\ IsThread(v) /\ Slots(v) /\ v.stack = u.stack /\ Rest6(v, u) /\ Len(v.ci) = Len(u.ci)
      /\ v.ci[Len(u.ci)] = f /\ Ci(v) = f /\ lim(v) = lim(u)
      /\ \A i \in 1..(Len(u.ci) - 1) : v.ci[i] = u.ci[i]
  <2>1. FrameFits(Len(u.ci), f) /\ f.top <= lim(u) /\ ~errorstatus(u.status)
    BY <1>4, <1>5, <1>6
  <2>2. QED
    BY <1>2, <1>4, <1>6, <2>1, FrameChanged
<1>8. IsYpcall(w, th, k)
  BY <1>2, <1>3, <1>4, <1>7 DEF Rest6, IsYpcall
<1>9. QED
  BY <1>8 DEF w
\* The stack changes.
LEMMA StackChanged ==
  ASSUME NEW th, IsThread(th), Slots(th), NEW s, SeqIs(s), Len(s) <= lim(th) + 3, NEW w, w = PutStack(th, s)
  PROVE  /\ IsThread(w) /\ Slots(w) /\ w.stack = s /\ w.ci = th.ci /\ Rest6(w, th) /\ Ci(w) = Ci(th)
         /\ lim(w) = lim(th)
<1>1. IsThread(w) /\ w.stack = s /\ w.ci = th.ci /\ Rest6(w, th)
  BY Stack
<1>2. lim(w) = lim(th)
  BY <1>1 DEF lim, Rest6
<1>3. Slots(w)
  BY <1>1, <1>2 DEF Slots, Rest6
<1>4. QED
  BY <1>1, <1>2, <1>3 DEF Ci
\* A function returns.
IsPopped(w, th) ==
  /\ IsThread(w) /\ Slots(w) /\ Rest6(w, th) /\ Len(w.ci) = Len(th.ci) - 1
  /\ \A i \in 1..(Len(th.ci) - 1) : w.ci[i] = th.ci[i]
  /\ Len(w.stack) <= lim(w) /\ lim(w) = lim(th) /\ Len(w.stack) >= 1
\* The results of a function fit where it was.
LEMMA ReturnedFit ==
  ASSUME NEW c \in Nat, NEW t \in Nat, NEW l \in Nat, NEW m \in Nat, NEW r \in {-1, 0, 1, 2}, NEW n,
         t <= l, c >= 2, c + 1 <= t, c - 1 + m <= l, n = c - 1 + IF r = -1 THEN m ELSE r
  PROVE  n <= l /\ n >= 1
<1>1. CASE r = -1
  BY <1>1
<1>2. CASE r # -1
  BY <1>2
<1>3. QED
  BY <1>1, <1>2
LEMMA PoscallFits ==
  ASSUME NEW th, IsThread(th), Slots(th), ~errorstatus(th.status), Len(th.ci) >= 2, NEW vals, SeqIs(vals),
         Ci(th).func - 1 + Len(vals) <= lim(th)
  PROVE  IsPopped(luaD_poscall(th, vals), th)
<1> DEFINE w == luaD_poscall(th, vals)
<1>1. /\ Ci(th).top <= lim(th) /\ Ci(th).top \in Nat /\ Ci(th).func \in Nat /\ lim(th) \in Nat /\ Ci(th) \in Frame
      /\ Ci(th).func >= 2 /\ Ci(th).func + 1 <= Ci(th).top /\ Len(th.ci) \in Nat /\ Len(vals) \in Nat
  BY TopFrame, LenIs
<1>2. Ci(th).nres \in {-1, 0, 1, 2}
  BY <1>1, FrameIs
<1>3. /\ IsThread(w) /\ w.ci = Front(th.ci) /\ Rest6(w, th)
      /\ Len(w.ci) = Len(th.ci) - 1 /\ \A i \in 1..(Len(th.ci) - 1) : w.ci[i] = th.ci[i]
      /\ Len(w.stack) = Ci(th).func - 1 + IF Ci(th).nres = -1 THEN Len(vals) ELSE Ci(th).nres
  <2>1. Ci(th).func >= 1
    BY <1>1
  <2>2. QED
    BY <2>1, Poscall
<1> HIDE DEF w
<1>4. Len(w.stack) <= lim(th) /\ Len(w.stack) >= 1
  <2>1. Ci(th).top <= lim(th) /\ Ci(th).top \in Nat /\ Ci(th).func \in Nat /\ lim(th) \in Nat
        /\ Ci(th).func >= 2 /\ Ci(th).func + 1 <= Ci(th).top /\ Len(vals) \in Nat
    BY <1>1
  <2>2. Len(w.stack) = Ci(th).func - 1 + IF Ci(th).nres = -1 THEN Len(vals) ELSE Ci(th).nres
    BY <1>3
  <2>3. QED
    BY <2>1, <2>2, <1>2, ReturnedFit
<1>5. w.big = th.big /\ ~errorstatus(w.status) /\ Len(w.stack) <= lim(th) + 3
  BY <1>1, <1>3, <1>4, ThreadIs DEF Rest6
<1>6. ASSUME NEW i \in 1..Len(w.ci) PROVE i \in 1..Len(th.ci) /\ w.ci[i] = th.ci[i]
  BY <1>1, <1>3
<1>7. Slots(w) /\ lim(w) = lim(th)
  BY <1>3, <1>5, <1>6, SlotsKept
<1>8. IsPopped(w, th)
  BY <1>3, <1>4, <1>7 DEF IsPopped
<1>9. QED
  BY <1>8 DEF w
\* A coroutine goes back to its resumer.
LEMMA ResumedRest ==
  ASSUME NEW M, NEW D, Good(M, D), NEW j \in 1..Len(D), D[j].a = "resume", \A i \in j..Len(D) : D[i].t = D[j].t,
         NEW co, IsThread(co), NEW n \in Nat, n <= Len(co.stack), NEW st \in Statuses, errorstatus(st) => n = 1,
         Rested(Left(co, D[j], n)), Slots(Left(co, D[j], n)),
         NEW z, IsZ(z), z.L = Moved(M, D[j].t, co), z.C = D, z.err = "none"
  PROVE  RestZ(resumed(z, j, n, st))
<1> DEFINE m == j - 1
           B == SubSeq(D, 1, m)
           r == D[j]
           t == r.t
           s == D[m].t
           th == M[s]
           xm == xmove(th, co, n, st)
           left == Left(co, r, n)
           st1 == IF TooMany(th, n, st) THEN "ERRRUN" ELSE st
           E == MarkLast(B, st1)
           M0 == Moved(M, t, co)
           M1 == [M0 EXCEPT ![s] = xm]
           N == [M1 EXCEPT ![t] = left]
           y == resumed(z, j, n, st)
<1>1. /\ D \in Seq(Record) /\ Len(D) \in Nat /\ Len(D) >= 1 /\ Shape(D) /\ D[1].a = "docall"
      /\ \A i \in 1..Len(D) : /\ D[i] \in Record /\ D[i].t \in Threads /\ D[i].at \in Nat /\ D[i].at >= 1
                              /\ D[i].at <= Len(M[D[i].t].ci)
      /\ \A u \in Threads : IsThread(M[u]) /\ Slots(M[u])
  BY GoodIs
<1>2. j \in Nat /\ j >= 2 /\ m \in 1..Len(D) /\ m \in Nat /\ m >= 1 /\ m + 1 = j /\ m < Len(D)
  <2>1. j # 1
    BY <1>1
  <2>2. QED
    BY <1>1, <2>1
<1>3. t \in Threads /\ s \in Threads /\ r \in Record /\ t # s /\ D[m] \in Record
      /\ \A i \in 1..m : D[i].t # t
  <2>1. t \in Threads /\ s \in Threads /\ r \in Record /\ D[m] \in Record
    BY <1>1, <1>2
  <2>2. \A i \in 1..m : D[i].t # t
    <3>1. \A i \in 1..m : i \in 1..Len(D) /\ i < j /\ j <= j
      BY <1>1, <1>2
    <3>2. QED
      BY <1>1, <1>2, <3>1 DEF Shape, Apart
  <2>3. m \in 1..m
    BY <1>2
  <2>4. QED
    BY <2>1, <2>2, <2>3
<1>4. Linked(D[m], r, th)
  <2>1. m \in 1..(Len(D) - 1)
    BY <1>1, <1>2
  <2>2. QED
    BY <1>2, <2>1 DEF Good, Links
<1>5. /\ D[m].a = "C" /\ ~D[m].back /\ D[m].at = Len(th.ci)
      /\ Ci(th).func <= Len(th.stack) /\ Len(th.stack) + 1 <= Ci(th).top /\ ~Ci(th).yp /\ Ci(th) = th.ci[Len(th.ci)]
  <2>1. Ci(th) = th.ci[Len(th.ci)]
    BY <1>1, <1>3, ThreadIs
  <2>2. QED
    BY <1>4, <2>1 DEF Linked
<1>6. IsThread(th) /\ Slots(th) /\ th.status = "OK" /\ ~errorstatus(th.status)
  <2>1. InUse(D, s)
    BY <1>2 DEF InUse
  <2>2. th.status = "OK"
    BY <1>3, <2>1 DEF Good, Idle
  <2>3. QED
    BY <1>1, <1>3, <2>2 DEF errorstatus
<1>7. /\ IsThread(xm) /\ Slots(xm) /\ Rest6(xm, th) /\ AgreeAll(xm, th)
      /\ Len(xm.stack) <= Ci(xm).top /\ Agree(Ci(xm), Ci(th)) /\ Len(xm.stack) >= Len(th.stack)
  BY <1>5, <1>6, XmoveIs
<1>8. Len(th.stack) >= 2 /\ Len(xm.stack) >= 2
  <2>1. Len(th.ci) >= 2
    <3>1. Placed(D[m], th)
      BY <1>2 DEF Good, Located
    <3>2. QED
      BY <1>5, <3>1 DEF Placed
  <2>2. Ci(th).func >= 2 /\ Ci(th).func \in Nat /\ Len(th.stack) \in Nat
    BY <1>6, <2>1, TopFrame
  <2>3. Len(xm.stack) \in Nat
    BY <1>7, ThreadIs
  <2>4. Ci(th).func <= Len(th.stack) /\ Len(xm.stack) >= Len(th.stack)
    BY <1>5, <1>7
  <2>5. QED
    BY <2>2, <2>3, <2>4
<1>9. IsThread(left)
  <2>1. r.oldnny \in Int /\ r.nCcalls \in Int
    BY <1>3, RecordIs
  <2>2. QED
    BY <2>1, LeftIs
<1>10. /\ IsZ(y) /\ y.L = N /\ y.C = E /\ y.err = "none"
  <2> DEFINE z1 == ZC(z, B)
             v1 == ZL(z1, M1)
             v  == ZL(v1, N)
  <2>1. IsZ(z1) /\ z1.L = M0 /\ z1.C = B /\ z1.err = "none" /\ z.C = D
    <3> HIDE DEF B
    <3>1. QED
      BY ZFields
  <2>2. T(z1) = s /\ B[Len(B)] = D[m] /\ Len(B) = m
    <3>1. B[Len(B)] = D[m] /\ Len(B) = m
      BY <1>1, <1>2
    <3>2. QED
      BY <2>1, <3>1 DEF T, Last
  <2>3. M0[s] = th /\ M0[t] = co /\ M0 = [u \in Threads |-> M0[u]]
    <3>1. M = [u \in Threads |-> M[u]]
      BY DEF Good, Typed
    <3>2. QED
      BY <1>3, <3>1 DEF Moved
  <2>4. Th(z1) = th
    BY <2>1, <2>2, <2>3 DEF Th
  <2>5. y = toresumer(z1, r, n, st)
    BY <2>1 DEF resumed, ZC
  <2> HIDE DEF z1, M0
  <2>6. y = Returns([z1 EXCEPT !.L[s] = xmove(@, co, n, st), !.L[t] = left], st1)
    BY <2>1, <2>2, <2>3, <2>4, <2>5 DEF toresumer
  <2>7. y = Returns(v, st1)
    <3>1. [z1 EXCEPT !.L[s] = xmove(@, co, n, st)] = v1
      BY <2>1, <2>3 DEF ZL
    <3>2. [z1 EXCEPT !.L[s] = xmove(@, co, n, st), !.L[t] = left]
            = [[z1 EXCEPT !.L[s] = xmove(@, co, n, st)] EXCEPT !.L[t] = left]
      OBVIOUS
    <3>3. v1.L = M1
      BY <2>1, ZFields
    <3>4. [v1 EXCEPT !.L[t] = left] = v
      <4> HIDE DEF v1, M1
      <4>1. QED
        BY <3>3 DEF ZL
    <3>5. QED
      BY <2>6, <3>1, <3>2, <3>4
  <2>8. IsZ(v) /\ v.L = N /\ v.C = B /\ v.err = "none"
    <3> HIDE DEF M1, N
    <3>2. IsZ(v1) /\ v1.C = B /\ v1.err = "none"
      BY <2>1, ZFields
    <3>3. QED
      BY <3>2, ZFields
  <2> HIDE DEF v, N, M1
  <2>9. IsZ(y) /\ y.L = v.L /\ y.err = v.err /\ y.C = MarkLast(v.C, st1)
    <3> HIDE DEF y
    <3>1. QED
      BY <2>7, <2>8, ReturnsIs
  <2>10. QED
    BY <2>8, <2>9
<1>11. N = [u \in Threads |-> N[u]] /\ N[s] = xm /\ N[t] = left /\ \A u \in Threads : u # s /\ u # t => N[u] = M[u]
  <2>1. M = [u \in Threads |-> M[u]]
    BY DEF Good, Typed
  <2>2. QED
    BY <1>3, <2>1 DEF Moved
<1>12. st1 \in Statuses
  BY DEF Statuses
<1> HIDE DEF N, xm, left, st1
<1>13. Beginning(E, D, m) /\ Last(E) = E[m] /\ E[m].back /\ E[m].status = st1 /\ E[m].a = "C" /\ E[m].at = D[m].at
       /\ E[m].t = s /\ \A i \in 1..m : E[i].t = D[i].t
  <2>1. B \in Seq(Record) /\ Len(B) = m /\ \A i \in 1..m : B[i] = D[i]
    BY <1>1, <1>2
  <2> HIDE DEF B, m
  <2>2. /\ B \in Seq(Record) /\ Len(B) >= 1 /\ B[Len(B)].a \in {"C", "docall"}
        /\ E = MarkLast(B, st1)
    BY <1>2, <1>5, <2>1
  <2> HIDE DEF E
  <2>3. /\ E \in Seq(Record) /\ Len(E) = Len(B) /\ \A i \in 1..Len(B) : i < Len(B) => E[i] = B[i]
        /\ Alike(B[Len(B)], E[Len(B)]) /\ E[Len(B)].back /\ E[Len(B)].status = st1
    BY <1>12, <2>2, Marked
  <2>4. Alike(D[m], E[m]) /\ E[m].back /\ E[m].status = st1 /\ Len(E) = m /\ \A i \in 1..m : i < m => E[i] = D[i]
    BY <1>2, <2>1, <2>3
  <2>5. \A i \in 1..m : Alike(D[i], E[i])
    BY <1>2, <2>4 DEF Alike
  <2>6. Beginning(E, D, m)
    BY <1>2, <2>3, <2>4, <2>5 DEF Beginning
  <2>7. QED
    BY <1>2, <1>5, <2>4, <2>5, <2>6 DEF Alike, Last
<1> HIDE DEF E
<1>14. Apartfrom(N, M, E, s)
  <2>1. ASSUME NEW u \in Threads, u # s
        PROVE  IsThread(N[u]) /\ Slots(N[u]) /\ IF InUse(E, u) THEN Same(N[u], M[u]) ELSE Rested(N[u])
    <3>1. CASE u = t
      <4>1. ~InUse(E, u)
        BY <1>3, <1>13, <3>1 DEF InUse, Beginning
      <4>2. QED
        BY <1>9, <1>11, <3>1, <4>1 DEF left
    <3>2. CASE u # t
      <4>1. N[u] = M[u] /\ IsThread(M[u]) /\ Slots(M[u]) /\ Same(M[u], M[u])
        BY <1>1, <1>11, <2>1, <3>2, SameIs
      <4>2. ASSUME ~InUse(E, u) PROVE ~InUse(D, u)
        <5>1. \A i \in 1..Len(D) : i \in 1..m \/ i \in j..Len(D)
          BY <1>1, <1>2
        <5>2. \A i \in 1..m : D[i].t # u
          BY <1>13, <4>2 DEF InUse, Beginning
        <5>3. QED
          BY <3>2, <5>1, <5>2 DEF InUse
      <4>3. ~InUse(E, u) => Rested(M[u])
        BY <4>2, RestedIs
      <4>4. QED
        BY <4>1, <4>3
    <3>3. QED
      BY <3>1, <3>2
  <2>2. QED
    BY <1>11, <2>1 DEF Apartfrom
<1>15. Remains(xm, M, D, m, E)
  <2>1. th.nny = Ny(D, s, m) + MainNy(s)
    <3>1. InUse(D, s)
      BY <1>2 DEF InUse
    <3>2. th.nny = Ny(D, s, Len(D)) + MainNy(s)
      BY <1>3, <3>1 DEF Good, Counts, MainNy
    <3>3. \A i \in (m + 1)..Len(D) : ~(D[i].t = s /\ IsNy(D[i]))
      BY <1>2, <1>3
    <3> HIDE DEF m, s
    <3>4. Ny(D, s, Len(D)) = Ny(D, s, m)
      BY <1>1, <1>2, <3>3, NyShort
    <3>5. QED
      BY <3>2, <3>4
  <2>2. th.nCcalls = Calling(D, m)
    BY <1>2 DEF Good, Counts
  <2>3. Below(xm, th, D[m])
    <3>1. Len(xm.ci) = Len(th.ci) /\ \A i \in 1..Len(th.ci) : Agree(xm.ci[i], th.ci[i])
      BY <1>7 DEF AgreeAll
    <3>2. Len(th.ci) \in Nat /\ D[m].at = Len(th.ci)
      BY <1>5, <1>6, ThreadIs
    <3>3. QED
      BY <3>1, <3>2 DEF Below
  <2>4. ~xm.ci[D[m].at].yp
    <3>1. Ci(xm) = xm.ci[Len(xm.ci)] /\ Len(xm.ci) = Len(th.ci)
      BY <1>7, ThreadIs DEF AgreeAll
    <3>2. QED
      BY <1>5, <1>7, <3>1 DEF Agree
  <2>5. \A i \in (D[m].at + 1)..Len(xm.ci) : FALSE
    <3>1. Len(xm.ci) = Len(th.ci) /\ Len(th.ci) \in Nat
      BY <1>6, <1>7, ThreadIs DEF AgreeAll
    <3>2. QED
      BY <1>5, <3>1
  <2>6. xm.status = "OK" /\ xm.nny = th.nny /\ xm.nCcalls = th.nCcalls
    BY <1>6, <1>7 DEF Rest6
  <2>7. QED
    BY <1>7, <2>1, <2>2, <2>3, <2>4, <2>5, <2>6 DEF Remains
<1>16. Good(N, E)
  <2>1. Remains(N[D[m].t], M, D, m, E) /\ Apartfrom(N, M, E, D[m].t)
    BY <1>11, <1>14, <1>15
  <2>2. QED
    BY <1>13, <2>1, RemainsGood
<1>17. AtRest(Last(E), xm)
  <2>1. Len(xm.ci) = Len(th.ci) /\ ~Ci(xm).yp
    BY <1>5, <1>7 DEF AgreeAll, Agree
  <2>2. Len(xm.stack) + 0 <= Ci(xm).top
    BY <1>7, ThreadIs
  <2>3. QED
    BY <1>5, <1>8, <1>13, <2>1, <2>2 DEF AtRest
<1>18. Th(y) = xm
  BY <1>10, <1>11, <1>13 DEF Th, T
<1>19. QED
  BY <1>10, <1>13, <1>16, <1>17, <1>18 DEF RestZ, GoodZ
\* A C function that made a call that can yield has a continuation.
LEMMA FreeNext ==
  ASSUME NEW M, NEW D, Good(M, D), NEW x \in 1..(Len(D) - 1), D[x].a = "C", D[x + 1].a # "resume",
         ~IsNy(D[x + 1])
  PROVE  M[D[x].t].ci[D[x].at].k \in Ks
<1> DEFINE q == D[x]
           r == D[x + 1]
<1>1. /\ D \in Seq(Record) /\ Len(D) \in Nat /\ Len(D) >= 1 /\ Shape(D)
      /\ \A i \in 1..Len(D) : D[i] \in Record
  BY GoodIs
<1>2. x \in 1..Len(D) /\ x + 1 \in 1..Len(D) /\ x + 1 \in 2..Len(D) /\ x < x + 1
  BY <1>1
<1>3. r.a \in Callers \cup {"C", "docall", "exec", "resume", "unroll"} /\ r.a # "docall" /\ r \in Record
  BY <1>1, <1>2, RecordIs DEF Shape, Base
<1>4. Linked(q, r, M[q.t])
  BY <1>1, <1>2 DEF Good, Links
<1>5. r.t = q.t
  <2>1. \A k \in (x + 1)..(x + 1) : D[k].a # "resume"
    BY <1>2
  <2>2. QED
    BY <1>1, <1>2, <2>1 DEF Shape, Together
<1>6. Placed(r, M[r.t])
  BY <1>2 DEF Good, Located
<1>7. r.a \in {"call", "ypcall"} /\ r.at = q.at
  <2>1. r.a \notin {"C", "exec", "unroll", "tm"}
    BY <1>4 DEF Linked, Callers
  <2>2. r.a \notin {"pcall", "errormsg"}
    BY <1>6 DEF Placed, IsNy, Callers
  <2>3. r.a \in {"call", "ypcall"}
    BY <1>3, <2>1, <2>2 DEF Callers
  <2>4. QED
    BY <1>4, <2>3 DEF Linked
<1>8. Free(r)
  BY <1>7 DEF Free, IsNy, Callers
<1>9. QED
  BY <1>5, <1>6, <1>7, <1>8 DEF Placed
\* Where a longjmp goes.
Jump(D) == Max({i \in DOMAIN D : D[i].a \in {"pcall", "resume"}})
LEMMA JumpIs ==
  ASSUME NEW z, GoodZ(z), Len(z.C) >= 2
  PROVE  LET D == z.C
             j == Jump(D)
         IN /\ j \in 2..Len(D) /\ D[j].a \in {"pcall", "resume"} /\ j \in Nat /\ j - 1 \in 1..Len(D) /\ j \in 1..Len(D)
            /\ \A i \in j..Len(D) : D[i].t = T(z)
            /\ \A i \in (j + 1)..Len(D) : D[i].a \notin {"pcall", "resume"}
            /\ D[j].a = "pcall" => D[j - 1].t = T(z)
            /\ D[j].a = "resume" => T(z) # "main" /\ \A i \in 1..(j - 1) : D[i].t # T(z)
            /\ D[j] \in Record /\ D[j - 1] \in Record /\ Placed(D[j], Th(z)) /\ Saved(D[j], D, j - 1)
<1> DEFINE D == z.C
           n == Len(D)
           j == Jump(D)
<1>1. /\ D \in Seq(Record) /\ n \in Nat /\ n >= 1 /\ Shape(D) /\ D[1].t = "main"
      /\ \A i \in 1..n : D[i] \in Record
  BY GoodIs DEF GoodZ
<1>2. T(z) = D[n].t /\ Th(z) = z.L[T(z)]
  BY ZIs
<1>3. /\ j \in 2..n /\ D[j].a \in {"pcall", "resume"} /\ D[j].t = D[n].t
      /\ \A i \in (j + 1)..n : D[i].a \notin {"pcall", "resume"}
  BY <1>1, Catcher DEF Jump
<1> HIDE DEF j, D, n
<1>4. j \in Nat /\ j - 1 \in 1..n /\ j \in 1..n /\ j >= 2 /\ j <= n
  BY <1>1, <1>3
<1>5. ASSUME NEW i \in j..n PROVE D[i].t = T(z)
  <2>1. CASE i = j
    BY <1>2, <1>3, <2>1
  <2>2. CASE i # j
    <3>1. i \in 1..n /\ j < i /\ \A k \in (j + 1)..i : k \in (j + 1)..n
      BY <1>1, <1>4, <2>2
    <3>2. \A k \in (j + 1)..i : D[k].a # "resume"
      BY <1>3, <3>1
    <3>3. D[j].t = D[i].t
      BY <1>1, <1>4, <3>1, <3>2 DEF Shape, Together, n
    <3>4. QED
      BY <1>2, <1>3, <3>3
  <2>3. QED
    BY <2>1, <2>2
<1>6. ASSUME D[j].a = "pcall" PROVE D[j - 1].t = T(z)
  <2>1. j - 1 < j /\ \A k \in ((j - 1) + 1)..j : k = j
    BY <1>4
  <2>2. \A k \in ((j - 1) + 1)..j : D[k].a # "resume"
    BY <1>6, <2>1
  <2>3. D[j - 1].t = D[j].t
    BY <1>1, <1>4, <2>1, <2>2 DEF Shape, Together, n
  <2>4. QED
    BY <1>2, <1>3, <2>3
<1>7. ASSUME D[j].a = "resume" PROVE T(z) # "main" /\ \A i \in 1..(j - 1) : D[i].t # T(z)
  <2>1. \A i \in 1..(j - 1) : i \in 1..n /\ i < j /\ j <= j
    BY <1>1, <1>4
  <2>2. \A i \in 1..(j - 1) : D[i].t # D[j].t
    BY <1>1, <1>4, <1>7, <2>1 DEF Shape, Apart, n
  <2>3. 1 \in 1..(j - 1)
    BY <1>4
  <2>4. QED
    BY <1>1, <1>2, <1>3, <2>2, <2>3
<1>8. D[j] \in Record /\ D[j - 1] \in Record
  BY <1>1, <1>4
<1>9. Placed(D[j], Th(z)) /\ Saved(D[j], D, j - 1)
  <2>1. Placed(D[j], z.L[D[j].t]) /\ Saved(D[j], D, j - 1)
    BY <1>4 DEF GoodZ, Good, Located, D, n
  <2>2. QED
    BY <1>2, <1>3, <2>1
<1>10. QED
  BY <1>3, <1>4, <1>5, <1>6, <1>7, <1>8, <1>9 DEF j, n, D
\* An error returns to luaD_pcall.
LEMMA PcallCatches ==
  ASSUME NEW z, GoodZ(z), z.err = "none", Len(z.C) >= 2, NEW st \in {"ERRRUN", "ERRERR"},
         NEW j, j = Jump(z.C), z.C[j].a = "pcall"
  PROVE  RestZ(pcallFails(z, j, st))
<1> DEFINE D == z.C
           M == z.L
           n == Len(D)
           m == j - 1
           r == D[j]
           t == T(z)
           th == Th(z)
           u == Unwound(th, r, st)
           B == SubSeq(D, 1, m)
           E == MarkLast(B, st)
           N == Moved(M, t, u)
           y == pcallFails(z, j, st)
<1>1. /\ j \in 2..n /\ j \in Nat /\ m \in 1..n /\ j \in 1..n
      /\ (\A i \in j..n : D[i].t = t) /\ D[m].t = t
      /\ r \in Record /\ D[m] \in Record /\ Placed(r, th) /\ Saved(r, D, m)
  BY JumpIs
<1>2. /\ n \in Nat /\ t \in Threads /\ D \in Seq(Record) /\ th = M[t] /\ IsThread(th) /\ Slots(th)
      /\ th.status = "OK" /\ M = [s \in Threads |-> M[s]] /\ Good(M, D) /\ IsZ(z)
  BY ZIs DEF GoodZ
<1>3. r.a = "pcall" /\ r.t = t /\ m >= 1 /\ m + 1 = j /\ m \in Nat /\ j - 1 = m
  <2>1. j \in j..n
    BY <1>1, <1>2
  <2>2. QED
    BY <1>1, <1>2, <2>1
<1>4. Linked(D[m], r, th)
  <2>1. m \in 1..(n - 1)
    BY <1>1, <1>2
  <2>2. QED
    BY <1>1, <1>2, <1>3, <2>1 DEF Good, Links
<1>5. D[m].a \in {"C", "docall"} /\ r.at = D[m].at
  BY <1>3, <1>4 DEF Linked
<1>6. Placed(D[m], th)
  BY <1>1, <1>2 DEF Good, Located
<1>7. /\ r.at \in 1..Len(th.ci) /\ r.func \in Nat /\ r.func >= th.ci[r.at].func /\ r.func <= th.ci[r.at].top
      /\ ~th.ci[r.at].yp /\ r.nny \in Int /\ r.nCcalls \in Int /\ r.errfunc \in Nat
      /\ r.nny = Ny(D, t, m) + MainNy(t) /\ r.nCcalls = Calling(D, m) /\ r.at \in Nat
  <2>1. r.at \in Nat /\ r.at >= 1 /\ r.func \in Nat /\ r.nny \in Int /\ r.errfunc \in Nat /\ r.nCcalls \in Int
    BY <1>1, <1>3, RecordIs
  <2>2. r.at <= Len(th.ci) /\ Len(th.ci) \in Nat
    BY <1>1, <1>2, ThreadIs DEF Placed
  <2>3. r.func \in th.ci[r.at].func..th.ci[r.at].top /\ ~th.ci[r.at].yp
    BY <1>1, <1>3 DEF Placed
  <2>4. th.ci[r.at].func \in Nat /\ th.ci[r.at].top \in Nat
    BY <1>2, <2>1, <2>2, ThreadIs, FrameIs
  <2>5. r.nny = Ny(D, t, m) + MainNy(t) /\ r.nCcalls = Calling(D, m)
    BY <1>1, <1>3 DEF Saved, MainNy
  <2>6. QED
    BY <2>1, <2>2, <2>3, <2>4, <2>5
<1>8. /\ FrameFits(r.at, th.ci[r.at]) /\ th.ci[r.at].func \in Nat /\ th.ci[r.at].top \in Nat
      /\ (r.at = 1 => th.ci[r.at].func = 1) /\ (r.at # 1 => th.ci[r.at].func >= 2) /\ r.func >= 1
      /\ ~errorstatus(th.status)
  <2>1. FrameFits(r.at, th.ci[r.at]) /\ ~errorstatus(th.status)
    BY <1>2, <1>7 DEF Slots, errorstatus
  <2>2. th.ci[r.at].func \in Nat /\ th.ci[r.at].top \in Nat
    BY <1>2, <1>7, ThreadIs, FrameIs
  <2>3. (r.at = 1 => th.ci[r.at].func = 1) /\ (r.at # 1 => th.ci[r.at].func >= 2)
    BY <2>1 DEF FrameFits
  <2>4. th.ci[r.at].func >= 1
    BY <2>2, <2>3
  <2>5. r.func >= 1
    <3> HIDE DEF r, th
    <3>1. QED
      BY <1>7, <2>2, <2>4
  <2>6. QED
    BY <2>1, <2>2, <2>3, <2>5
<1>9. /\ IsThread(u) /\ Slots(u) /\ u.status = th.status /\ Len(u.stack) = r.func /\ Len(u.ci) = r.at
      /\ \A i \in 1..r.at : u.ci[i] = th.ci[i]
      /\ u.nny = r.nny /\ u.nCcalls = r.nCcalls
  <2> DEFINE a == r.at
             f == r.func
             ny == r.nny
             nC == r.nCcalls
             e == r.errfunc
             w == Recut(th, st, a, f, ny, nC, e)
  <2>1. u = w
    BY <1>2, UnwoundIs
  <2>2. a \in 1..Len(th.ci) /\ f \in Nat /\ f >= 1 /\ f <= th.ci[a].top /\ ny \in Int /\ nC \in Int /\ e \in Nat
    BY <1>7, <1>8
  <2>5. IsThread(th) /\ Slots(th) /\ ~errorstatus(th.status)
    BY <1>2, <1>8
  <2> HIDE DEF u, a, f, ny, nC, e, th
  <2>6. CanRecut(th, a, f, ny, nC, e)
    BY <2>2, <2>5 DEF CanRecut
  <2>7. IsRecut(w, th, a, f, ny, nC)
    BY <2>6, RecutHas
  <2> HIDE DEF w
  <2>8. IsRecut(u, th, a, f, ny, nC)
    BY <2>1, <2>7
  <2>9. QED
    BY <2>8 DEF IsRecut, a, f, ny, nC
<1>10. B \in Seq(Record) /\ Len(B) = m /\ \A i \in 1..m : B[i] = D[i]
  BY <1>1, <1>2, <1>3
<1>11. IsZ(y) /\ y.L = N /\ y.C = E /\ y.err = "none"
  <2> DEFINE z1 == ZC(z, B)
             v == ZL(z1, N)
  <2>1. y = Returns([z1 EXCEPT !.L[r.t] = Unwound(@, r, st)], st)
    BY DEF pcallFails, ZC
  <2> HIDE DEF B, u
  <2>2. IsZ(z1) /\ z1.L = M /\ z1.C = B /\ z1.err = "none"
    BY <1>2, ZFields
  <2> HIDE DEF z1
  <2>3. [z1 EXCEPT !.L[r.t] = Unwound(@, r, st)] = v
    BY <1>2, <1>3, <2>2 DEF ZL, Moved, u
  <2>4. IsZ(v) /\ v.L = N /\ v.C = B /\ v.err = "none"
    <3> HIDE DEF N
    <3>1. QED
      BY <2>2, ZFields
  <2> HIDE DEF v, y
  <2>5. QED
    BY <2>1, <2>3, <2>4, ReturnsIs
<1> HIDE DEF u, B
<1>12. Beginning(E, D, m) /\ Last(E) = E[m] /\ E[m].back /\ E[m].status = st /\ E[m].a = D[m].a /\ E[m].at = r.at
       /\ E[m].t = t
  <2>2. B \in Seq(Record) /\ Len(B) >= 1 /\ B[Len(B)].a \in {"C", "docall"} /\ st \in Statuses
    BY <1>3, <1>5, <1>10 DEF Statuses
  <2>3. /\ E \in Seq(Record) /\ Len(E) = Len(B) /\ \A i \in 1..Len(B) : i < Len(B) => E[i] = B[i]
        /\ Alike(B[Len(B)], E[Len(B)]) /\ E[Len(B)].back /\ E[Len(B)].status = st
    <3> HIDE DEF E
    <3>1. E = MarkLast(B, st)
      BY DEF E
    <3>2. QED
      BY <2>2, <3>1, Marked
  <2> HIDE DEF E
  <2>4. Alike(D[m], E[m]) /\ E[m].back /\ E[m].status = st /\ Len(E) = m /\ \A i \in 1..m : i < m => E[i] = D[i]
    BY <1>3, <1>10, <2>3
  <2>5. \A i \in 1..m : Alike(D[i], E[i])
    BY <1>3, <2>4 DEF Alike
  <2>6. Beginning(E, D, m)
    BY <1>1, <2>3, <2>4, <2>5 DEF Beginning
  <2>7. QED
    BY <1>1, <1>3, <1>5, <2>4, <2>6 DEF Alike, Last
<1> HIDE DEF E
<1>13. Remains(u, M, D, m, E)
  <2>1. Below(u, th, D[m])
    <3>1. \A i \in 1..r.at : u.ci[i] = th.ci[i] /\ th.ci[i].top \in Nat
      BY <1>2, <1>7, <1>9, ThreadIs, FrameIs
    <3>2. \A i \in 1..r.at : Agree(u.ci[i], th.ci[i])
      BY <3>1 DEF Agree
    <3>3. r.at <= Len(u.ci)
      BY <1>7, <1>9
    <3> HIDE DEF r, m, D, th
    <3>4. QED
      BY <1>5, <3>2, <3>3 DEF Below
  <2>2. ~u.ci[D[m].at].yp
    <3>1. r.at \in 1..r.at
      BY <1>7
    <3>2. u.ci[r.at] = th.ci[r.at]
      BY <1>9, <3>1
    <3> HIDE DEF r, m, D, th
    <3>3. QED
      BY <1>5, <1>7, <3>2
  <2>3. \A i \in (D[m].at + 1)..Len(u.ci) : FALSE
    BY <1>5, <1>7, <1>9
  <2>4. D[m].t = t /\ u.status = "OK" /\ u.nny = Ny(D, t, m) + MainNy(t) /\ u.nCcalls = Calling(D, m)
    BY <1>1, <1>2, <1>7, <1>9
  <2>5. QED
    BY <1>2, <1>9, <2>1, <2>2, <2>3, <2>4 DEF Remains
<1>14. Good(N, E)
  <2>1. \A i \in (m + 1)..n : D[i].t = D[m].t
    BY <1>1, <1>3
  <2>2. N = Moved(M, D[m].t, u)
    BY <1>1
  <2> HIDE DEF N, m
  <2>3. QED
    BY <1>2, <1>12, <1>13, <2>1, <2>2, CutGood
<1>15. Th(y) = u
  <2>1. N[t] = u
    BY <1>2 DEF Moved
  <2>2. QED
    BY <1>11, <1>12, <2>1 DEF Th, T
<1>16. AtRest(Last(E), u)
  <2>1. Ci(u) = th.ci[r.at]
    <3>1. Ci(u) = u.ci[Len(u.ci)]
      BY <1>9, ThreadIs
    <3>2. r.at \in 1..r.at /\ Len(u.ci) = r.at
      BY <1>7, <1>9
    <3>3. u.ci[r.at] = th.ci[r.at]
      BY <1>9, <3>2
    <3>4. QED
      BY <3>1, <3>2, <3>3
  <2>2. D[m].a = "docall" => r.at = 1
    BY <1>5, <1>6 DEF Placed
  <2>3. D[m].a = "C" => r.at >= 2
    BY <1>5, <1>6 DEF Placed
  <2>4. Len(u.stack) + 0 <= Ci(u).top /\ Len(u.stack) \in Nat
    BY <1>7, <1>9, <2>1
  <2>5. D[m].a = "C" => Len(u.stack) >= 2
    <3>1. D[m].a = "C" => th.ci[r.at].func >= 2
      <4>1. r.at >= 2 => r.at # 1
        BY <1>7
      <4>2. QED
        BY <1>8, <2>3, <4>1
    <3>2. Len(u.stack) = r.func /\ r.func >= th.ci[r.at].func /\ r.func \in Nat /\ th.ci[r.at].func \in Nat
      BY <1>7, <1>8, <1>9
    <3> HIDE DEF r, th, D, m
    <3>3. QED
      BY <3>1, <3>2
  <2>6. QED
    BY <1>5, <1>7, <1>9, <1>12, <2>1, <2>2, <2>4, <2>5 DEF AtRest
<1>17. QED
  BY <1>11, <1>12, <1>14, <1>15, <1>16 DEF RestZ, GoodZ
\* A record more, and who is continued.
LEMMA ContinuedPushed ==
  ASSUME NEW D \in Seq(Record), NEW r \in Record, NEW u, NEW t, NEW i, ContinuedAt(u, D, t, i), i \in Nat,
         r.a = "C" /\ r.t = t => r.at > i
  PROVE  ContinuedAt(u, Append(D, r), t, i)
<1> DEFINE E == Append(D, r)
<1>1. /\ E \in Seq(Record) /\ Len(E) = Len(D) + 1 /\ E[Len(D) + 1] = r
      /\ \A x \in 1..Len(D) : E[x] = D[x]
  BY PushedRecord
<1>2. Len(D) \in Nat /\ \A x \in 1..Len(E) : x \in 1..Len(D) \/ x = Len(D) + 1
  BY <1>1
<1> HIDE DEF E
<1>3. \A a, l : Has(D, a, t, l) => Has(E, a, t, l)
  BY <1>1, <1>2 DEF Has
<1>4. ASSUME NEW l \in Nat, l <= i, Has(E, "C", t, l) PROVE Has(D, "C", t, l)
  <2>1. PICK x \in 1..Len(E) : E[x].a = "C" /\ E[x].t = t /\ E[x].at = l
    BY <1>4 DEF Has
  <2>2. r.at \in Nat
    BY RecordIs
  <2>3. x # Len(D) + 1
    BY <1>1, <1>4, <2>1, <2>2
  <2>4. x \in 1..Len(D)
    BY <1>2, <2>3
  <2>5. QED
    BY <1>1, <2>1, <2>4 DEF Has
<1>5. \A l \in 2..i : l \in Nat /\ l <= i
  OBVIOUS
<1>6. (\A l \in 2..i : ~Has(D, "C", t, l)) => \A l \in 2..i : ~Has(E, "C", t, l)
  BY <1>4, <1>5
<1>7. Has(E, "C", t, i) => Has(D, "C", t, i)
  BY <1>4
<1>8. QED
  BY <1>3, <1>6, <1>7 DEF ContinuedAt, E
\* The innermost pcall that can be continued.
LEMMA FindpcallIs ==
  ASSUME NEW th, IsThread(th), Slots(th), ~errorstatus(th.status), findpcall(th) > 0
  PROVE  LET i == findpcall(th)
         IN /\ i \in 2..Len(th.ci) /\ th.ci[i].yp /\ ~th.ci[i].lua /\ th.ci[i].k \in Protects
            /\ th.ci[i].extra \in Nat /\ th.ci[i].extra >= 1 /\ th.ci[i].extra <= th.ci[i].top
            /\ th.ci[i].olderr \in Nat /\ th.ci[i] \in Frame
<1> DEFINE S == {0} \cup {x \in DOMAIN th.ci : th.ci[x].yp}
           i == findpcall(th)
           n == Len(th.ci)
<1>1. n \in Nat /\ DOMAIN th.ci = 1..n /\ th.ci \in Seq(Frame)
  BY ThreadIs
<1>2. S \in SUBSET (0..n) /\ S # {}
  BY <1>1
<1>3. i \in S
  <2>1. i = Max(S)
    BY DEF findpcall
  <2> HIDE DEF S, n
  <2>2. QED
    BY <1>1, <1>2, <2>1, MaxIs
<1> HIDE DEF i, n
<1>4. i \in 1..n /\ th.ci[i].yp /\ i \in Nat
  BY <1>1, <1>3 DEF i
<1>5. FrameFits(i, th.ci[i]) /\ th.ci[i] \in Frame
  BY <1>1, <1>4, ThreadIs DEF Slots, n
<1>6. i # 1
  BY <1>4, <1>5 DEF FrameFits
<1>7. ~th.ci[i].lua /\ th.ci[i].k \in Protects /\ th.ci[i].extra \in 1..th.ci[i].top
  BY <1>4, <1>5, <1>6 DEF FrameFits
<1>8. th.ci[i].olderr \in Nat /\ th.ci[i].top \in Nat
  BY <1>5, FrameIs
<1>9. th.ci[i].extra \in Nat /\ th.ci[i].extra >= 1 /\ th.ci[i].extra <= th.ci[i].top
  BY <1>7, <1>8
<1>10. i \in 2..n
  BY <1>1, <1>4, <1>6
<1>11. QED
  BY <1>4, <1>5, <1>7, <1>8, <1>9, <1>10 DEF i, n
\* A C function below a lua_pcallk that can be continued has a continuation.
LEMMA BelowYpcall ==
  ASSUME NEW M, NEW D, Good(M, D), NEW t \in Threads, M[t].status = "OK",
         NEW j \in 1..Len(D), D[j].a = "resume", \A y \in j..Len(D) : D[y].t = t,
         \A y \in 1..(j - 1) : D[y].t # t, \A y \in (j + 1)..Len(D) : D[y].a \notin {"pcall", "resume"},
         NEW i, i \in 2..Len(M[t].ci), M[t].ci[i].yp, ~M[t].ci[i].lua, M[t].ci[i].k \in Protects,
         NEW l, l \in 2..i, ~M[t].ci[l].lua
  PROVE  M[t].ci[l].k \in Ks
<1> DEFINE th == M[t]
           n == Len(D)
<1>1. /\ D \in Seq(Record) /\ n \in Nat /\ Shape(D) /\ IsThread(th) /\ Len(th.ci) \in Nat
      /\ \A y \in 1..n : D[y] \in Record /\ D[y].at \in Nat
  BY GoodIs, ThreadIs
<1>2. i \in Nat /\ l \in Nat /\ l <= i /\ l \in 2..Len(th.ci) /\ j \in Nat /\ l >= 2
  BY <1>1
<1>3. ContinuedAt(th, D, t, i) /\ ContinuedAt(th, D, t, l)
  BY <1>2 DEF Good, Continued, errorstatus
<1>4. CASE ~Has(D, "C", t, l)
  BY <1>3, <1>4 DEF ContinuedAt
<1>5. CASE l = i
  BY <1>5 DEF Protects, Ks
<1>6. CASE Has(D, "C", t, l) /\ l # i
  <2>1. Has(D, "C", t, i)
    BY <1>2, <1>3, <1>6 DEF ContinuedAt
  <2>2. Has(D, "ypcall", t, i)
    BY <1>3, <2>1 DEF ContinuedAt
  <2> HIDE DEF th, n
  <2>3. PICK x \in 1..n : D[x].a = "C" /\ D[x].t = t /\ D[x].at = l
    BY <1>6 DEF Has, n
  <2>4. PICK w \in 1..n : D[w].a = "ypcall" /\ D[w].t = t /\ D[w].at = i
    BY <2>2 DEF Has, n
  <2>5. x < w
    <3>1. ASSUME w < x PROVE FALSE
      <4>1. D[w].at <= D[x].at
        BY <1>1, <2>3, <2>4, <3>1 DEF Shape, Order, n
      <4>2. QED
        BY <1>2, <1>6, <2>3, <2>4, <4>1
    <3>2. x # w
      BY <2>3, <2>4
    <3>3. QED
      BY <1>1, <3>1, <3>2
  <2>6. x > j
    <3>1. ~(x \in 1..(j - 1))
      BY <2>3
    <3>2. x # j
      BY <2>3
    <3>3. QED
      BY <1>1, <1>2, <2>3, <3>1, <3>2
  <2>7. Placed(D[w], th) /\ Saved(D[w], D, w - 1)
    BY <2>4 DEF Good, Located, n, th
  <2>8. Yieldable(D, t, w - 1) /\ ~D[w].ny
    BY <2>4, <2>7 DEF Saved, Placed, Free
  <2>9. x + 1 \in 1..n /\ x \in 1..(n - 1) /\ x + 1 \in (j + 1)..n /\ (x + 1 \in 1..(w - 1) \/ x + 1 = w) /\ x + 1 \in j..n
    BY <1>1, <1>2, <2>3, <2>4, <2>5, <2>6
  <2>10. ~IsNy(D[x + 1])
    <3>1. D[x + 1].t = t
      BY <2>9 DEF n
    <3>2. CASE x + 1 \in 1..(w - 1)
      BY <2>8, <3>1, <3>2 DEF Yieldable
    <3>3. CASE x + 1 = w
      BY <2>8, <3>3 DEF IsNy
    <3>4. QED
      BY <2>9, <3>2, <3>3
  <2>11. D[x + 1].a # "resume"
    BY <2>9 DEF n
  <2>12. M[D[x].t].ci[D[x].at].k \in Ks
    BY <2>3, <2>9, <2>10, <2>11, FreeNext DEF n
  <2>13. QED
    BY <2>3, <2>12
<1>7. QED
  BY <1>4, <1>5, <1>6
\* A coroutine goes on with the innermost pcall after an error.
LEMMA RecoverRemains ==
  ASSUME NEW M, NEW D, Good(M, D), NEW t \in Threads, t # "main", NEW th, th = M[t], th.status = "OK",
         NEW j \in 1..Len(D), D[j].a = "resume", \A y \in j..Len(D) : D[y].t = t,
         \A y \in 1..(j - 1) : D[y].t # t, \A y \in (j + 1)..Len(D) : D[y].a \notin {"pcall", "resume"},
         findpcall(th) > 0, NEW st, NEW B, B = SubSeq(D, 1, j),
         NEW u, u = recover(th, st, findpcall(th), D[j].nCcalls)
  PROVE  /\ Remains(u, M, D, j, B) /\ Len(u.ci) >= 2 /\ ~Ci(u).lua /\ Ci(u).yp /\ Ci(u).k \in Ks
         /\ Len(u.stack) <= Ci(u).top
<1> DEFINE n == Len(D)
           i == findpcall(th)
           f == th.ci[i]
<1>1. /\ D \in Seq(Record) /\ n \in Nat /\ Shape(D) /\ IsThread(th) /\ Slots(th) /\ Len(th.ci) \in Nat
      /\ \A y \in 1..n : D[y] \in Record /\ D[y].at \in Nat
  BY GoodIs, ThreadIs
<1>2. ~errorstatus(th.status)
  BY DEF errorstatus
<1>3. /\ i \in 2..Len(th.ci) /\ f.yp /\ ~f.lua /\ f.k \in Protects
      /\ f.extra \in Nat /\ f.extra >= 1 /\ f.extra <= f.top /\ f.olderr \in Nat
  BY <1>1, <1>2, FindpcallIs
<1>4. D[j].t = t /\ j \in Nat /\ j >= 1
  BY <1>1
<1>5. D[j].nCcalls \in Int /\ D[j].nCcalls = Calling(D, j) /\ D[j].at = 1
  <2>1. D[j].nCcalls = Calling(D, j - 1) + 1
    BY DEF Good, Located, Saved
  <2>2. Calling(D, j) = Calling(D, j - 1) + 1
    BY <1>4, CallingStep
  <2>3. D[j].at = 1
    BY DEF Good, Located, Placed
  <2>4. D[j].nCcalls \in Int
    BY <1>1, RecordIs
  <2>5. QED
    BY <2>1, <2>2, <2>3, <2>4
<1>6. Ny(D, t, j) = 0
  <2>1. \A y \in 1..j : y \in 1..(j - 1) \/ y = j
    BY <1>4
  <2>2. \A y \in 1..j : D[y].t = t => ~IsNy(D[y])
    BY <2>1 DEF IsNy, Callers
  <2>3. QED
    BY <1>4, <2>2, NyZero
<1> HIDE DEF i, f
<1>7. /\ IsThread(u) /\ Slots(u) /\ u.status = th.status /\ Len(u.stack) = f.extra /\ Len(u.ci) = i
      /\ (\A l \in 1..i : u.ci[l] = th.ci[l]) /\ u.nny = 0 /\ u.nCcalls = D[j].nCcalls
  <2> DEFINE x == f.extra
             nC == D[j].nCcalls
             ny == 0
             e == f.olderr
             w == Recut(th, st, i, x, ny, nC, e)
  <2>1. u = w
    BY <1>1, RecoverIs DEF i, f
  <2>2. i \in 1..Len(th.ci) /\ x \in Nat /\ x >= 1 /\ x <= th.ci[i].top /\ nC \in Int /\ e \in Nat /\ ny \in Int
    BY <1>1, <1>3, <1>5 DEF f
  <2>5. IsThread(th) /\ Slots(th) /\ ~errorstatus(th.status)
    BY <1>1, <1>2
  <2> HIDE DEF x, nC, e, ny
  <2>6. CanRecut(th, i, x, ny, nC, e)
    BY <2>2, <2>5 DEF CanRecut
  <2>7. IsRecut(w, th, i, x, ny, nC)
    BY <2>6, RecutHas
  <2> HIDE DEF w
  <2>8. IsRecut(u, th, i, x, ny, nC)
    BY <2>1, <2>7
  <2>9. QED
    BY <2>8 DEF IsRecut, x, nC, ny
<1>8. i \in Nat /\ i >= 2 /\ i \in 1..i /\ 1 \in 1..i
  BY <1>1, <1>3
<1>9. Ci(u) = f
  <2>1. Ci(u) = u.ci[Len(u.ci)]
    BY <1>7, ThreadIs
  <2>2. QED
    BY <1>7, <1>8, <2>1 DEF f
<1>10. Below(u, th, D[j])
  <2>1. u.ci[1] = th.ci[1] /\ th.ci[1].top \in Nat
    BY <1>1, <1>7, <1>8, ThreadIs, FrameIs
  <2>2. \A l \in 1..1 : Agree(u.ci[l], th.ci[l])
    BY <2>1 DEF Agree
  <2>3. QED
    BY <1>5, <1>7, <1>8, <2>2 DEF Below
<1>11. ASSUME NEW l \in (D[j].at + 1)..Len(u.ci) PROVE ContinuedAt(u, B, t, l)
  <2>1. l \in 2..i /\ l \in 1..i
    BY <1>5, <1>7, <1>8
  <2>2. u.ci[l] = th.ci[l]
    BY <1>7, <2>1
  <2>3. ~th.ci[l].lua => th.ci[l].k \in Ks
    BY <1>3, <1>4, <2>1, BelowYpcall DEF f, n
  <2>4. \A x : ~Has(B, "C", t, x)
    <3>1. Len(B) = j /\ \A y \in 1..j : B[y] = D[y] /\ (y \in 1..(j - 1) \/ y = j)
      BY <1>1, <1>4
    <3>2. QED
      BY <3>1 DEF Has
  <2>5. QED
    BY <2>2, <2>3, <2>4 DEF ContinuedAt
<1>12. u.nny = Ny(D, t, j) + MainNy(t)
  BY <1>6, <1>7 DEF MainNy
<1>13. Remains(u, M, D, j, B)
  BY <1>4, <1>5, <1>7, <1>10, <1>11, <1>12 DEF Remains
<1>14. Len(u.stack) <= Ci(u).top /\ Len(u.ci) >= 2
  BY <1>3, <1>7, <1>8, <1>9
<1>15. QED
  BY <1>3, <1>9, <1>13, <1>14 DEF Protects, Ks
\* The continuation is called by unroll.
LEMMA UnrollEnters ==
  ASSUME NEW M, NEW D, Good(M, D), D[Len(D)].a = "resume", NEW t, t = D[Len(D)].t,
         NEW st \in Statuses, NEW r, r = [a |-> "unroll", t |-> t, at |-> 1, status |-> st]
  PROVE  Good(M, Append(D, r)) /\ r \in Record
<1> DEFINE n == Len(D)
           u == M[t]
<1>1. /\ D \in Seq(Record) /\ n \in Nat /\ n >= 1 /\ Shape(D) /\ IsThread(u) /\ Slots(u) /\ Len(u.ci) \in Nat
      /\ D[n] \in Record /\ t \in Threads /\ D[n].at \in Nat /\ n \in 1..n /\ D[1].a = "docall"
      /\ D[n].at <= Len(u.ci)
  <2>1. Len(D) \in Nat /\ Len(D) >= 1
    BY GoodIs
  <2>2. n \in 1..n
    BY <2>1
  <2>3. D[n] \in Record /\ t \in Threads /\ D[n].at \in Nat /\ D[n].at <= Len(u.ci)
    BY <2>2, GoodIs
  <2>4. QED
    BY <2>1, <2>2, <2>3, GoodIs, ThreadIs
<1>2. r \in Record
  BY <1>1 DEF Record, Places
<1>3. D[n].at = 1 /\ Placed(D[n], u)
  BY <1>1 DEF Good, Located, Placed
<1>4. Follows(r, D)
  BY <1>1, <1>3 DEF Follows
<1>5. InUse(D, t)
  BY <1>1 DEF InUse
<1>6. u.status = "OK" /\ u.nny = Ny(D, t, n) + MainNy(t) /\ u.nCcalls = Calling(D, n)
  BY <1>1, <1>5 DEF Good, Idle, Counts, MainNy
<1>7. Below(u, u, D[n])
  <2>1. \A i \in 1..Len(u.ci) : Agree(u.ci[i], u.ci[i])
    BY <1>1, SameIs DEF Same
  <2>2. 1 <= Len(u.ci)
    BY <1>1 DEF IsThread
  <2>3. QED
    BY <1>1, <1>3, <2>1, <2>2 DEF Below
<1>8. Linked(D[n], r, u)
  BY DEF Linked
<1>9. Placed(r, u)
  <2>1. r.at <= Len(u.ci)
    BY <1>1, <1>3
  <2>2. QED
    BY <2>1 DEF Placed, Free
<1>10. Saved(r, D, n)
  BY DEF Saved, Free
<1>11. ASSUME NEW i \in 2..Len(u.ci) PROVE ContinuedAt(u, Append(D, r), t, i)
  <2>1. ContinuedAt(u, D, t, i)
    BY <1>1, <1>6 DEF Good, Continued, errorstatus
  <2>2. i \in Nat
    OBVIOUS
  <2>3. QED
    BY <1>1, <1>2, <2>1, <2>2, ContinuedPushed
<1>12. ~IsNy(r) /\ r.a \notin Callers \cup {"resume"} /\ r.t = t
  BY DEF IsNy, Callers
<1>13. Enters(u, M, D, r)
  <2> HIDE DEF u
  <2>1. Ny(D, r.t, n) + MainNy(r.t) + (IF IsNy(r) THEN 1 ELSE 0) = Ny(D, t, n) + MainNy(t)
    BY <1>1, <1>12, NyZero DEF MainNy
  <2>2. Calling(D, n) + (IF r.a \in Callers \cup {"resume"} THEN 1 ELSE 0) = Calling(D, n)
    BY <1>1, <1>12, CallingStep
  <2> HIDE DEF n
  <2>3. QED
    BY <1>1, <1>2, <1>4, <1>6, <1>7, <1>8, <1>9, <1>10, <1>11, <1>12, <2>1, <2>2 DEF Enters, n, u
<1>14. M = [M EXCEPT ![r.t] = u]
  <2>1. M = [s \in Threads |-> M[s]]
    BY DEF Good, Typed
  <2>2. QED
    BY <1>12, <2>1
<1>15. QED
  BY <1>2, <1>13, <1>14, EntersGood
Throwing(z) == GoodZ(z) /\ z.err = "none" /\ Len(z.C) >= 2
\* What is known of the resume that a longjmp gets to.
AtResume(M, D, t, th, j) ==
  /\ Good(M, D) /\ t \in Threads /\ t # "main" /\ th = M[t] /\ th.status = "OK" /\ IsThread(th) /\ Slots(th)
  /\ j \in 1..Len(D) /\ j \in Nat /\ D[j].a = "resume" /\ D[j].t = t /\ (\A y \in j..Len(D) : D[y].t = t)
  /\ (\A y \in 1..(j - 1) : D[y].t # t) /\ \A y \in (j + 1)..Len(D) : D[y].a \notin {"pcall", "resume"}
LEMMA AtResumeIs ==
  ASSUME NEW z, Throwing(z), NEW j, j = Jump(z.C), z.C[j].a = "resume"
  PROVE  AtResume(z.L, z.C, T(z), Th(z), j)
<1>1. GoodZ(z) /\ Len(z.C) >= 2 /\ Good(z.L, z.C)
  BY DEF Throwing, GoodZ
<1>2. /\ j \in Nat /\ j \in 1..Len(z.C)
      /\ (\A i \in j..Len(z.C) : z.C[i].t = T(z))
      /\ (\A i \in (j + 1)..Len(z.C) : z.C[i].a \notin {"pcall", "resume"})
      /\ T(z) # "main" /\ (\A i \in 1..(j - 1) : z.C[i].t # T(z))
  BY <1>1, JumpIs
<1>3. T(z) \in Threads /\ Th(z) = z.L[T(z)] /\ Th(z).status = "OK" /\ IsThread(Th(z)) /\ Slots(Th(z))
  BY <1>1, ZIs
<1>4. z.C[j].t = T(z)
  <2>1. j \in j..Len(z.C)
    BY <1>2
  <2>2. QED
    BY <1>2, <2>1
<1>5. QED
  BY <1>1, <1>2, <1>3, <1>4 DEF AtResume
IsRecovered(u, M, D, j, B) ==
  /\ Remains(u, M, D, j, B) /\ Len(u.ci) >= 2 /\ ~Ci(u).lua /\ Ci(u).yp /\ Ci(u).k \in Ks
  /\ Len(u.stack) <= Ci(u).top
LEMMA RecoveredIs ==
  ASSUME NEW M, NEW D, NEW t, NEW th, NEW j, AtResume(M, D, t, th, j), findpcall(th) > 0, NEW st,
         NEW B, B = SubSeq(D, 1, j), NEW u, u = recover(th, st, findpcall(th), D[j].nCcalls)
  PROVE  IsRecovered(u, M, D, j, B)
<1>1. /\ Good(M, D) /\ t \in Threads /\ t # "main" /\ th = M[t] /\ th.status = "OK"
      /\ j \in 1..Len(D) /\ D[j].a = "resume" /\ (\A y \in j..Len(D) : D[y].t = t)
      /\ (\A y \in 1..(j - 1) : D[y].t # t) /\ \A y \in (j + 1)..Len(D) : D[y].a \notin {"pcall", "resume"}
  BY DEF AtResume
<1>2. Remains(u, M, D, j, B)
  BY <1>1, RecoverRemains
<1>3. Len(u.ci) >= 2 /\ ~Ci(u).lua /\ Ci(u).yp
  BY <1>1, RecoverRemains
<1>4. Ci(u).k \in Ks /\ Len(u.stack) <= Ci(u).top
  BY <1>1, RecoverRemains
<1>5. QED
  BY <1>2, <1>3, <1>4 DEF IsRecovered
LEMMA ResumeRecovers ==
  ASSUME NEW z, Throwing(z), NEW j, j = Jump(z.C), z.C[j].a = "resume", NEW st \in {"ERRRUN", "ERRERR"},
         findpcall(Th(z)) > 0
  PROVE  RestZ(recovered(z, j, st, findpcall(Th(z))))
<1> DEFINE D == z.C
           M == z.L
           t == T(z)
           th == Th(z)
           u == recover(th, st, findpcall(th), D[j].nCcalls)
           B == SubSeq(D, 1, j)
           N == Moved(M, t, u)
           r == [a |-> "unroll", t |-> t, at |-> 1, status |-> st]
           E == Append(B, r)
           y == recovered(z, j, st, findpcall(th))
<1>1. AtResume(M, D, t, th, j)
  BY AtResumeIs
<1>2. IsZ(z) /\ z.err = "none"
  BY DEF Throwing, GoodZ
<1>3. M = [s \in Threads |-> M[s]] /\ t \in Threads /\ th = M[t] /\ D[j].t = t /\ j \in 1..Len(D) /\ D \in Seq(Record)
  BY <1>1 DEF AtResume, Good, Typed
<1>4. IsZ(y) /\ y.L = N /\ y.C = E /\ y.err = "none"
  <2> DEFINE z1 == ZC(z, E)
             v == ZL(z1, N)
  <2>1. y = [z1 EXCEPT !.L[t] = recover(@, st, findpcall(th), D[j].nCcalls)]
    BY <1>3 DEF recovered, ZC
  <2> HIDE DEF E
  <2>2. IsZ(z1) /\ z1.L = M /\ z1.C = E /\ z1.err = "none"
    BY <1>2, ZFields
  <2> HIDE DEF z1
  <2>3. y = v
    BY <1>3, <2>1, <2>2 DEF ZL, Moved
  <2> HIDE DEF N
  <2>4. IsZ(v) /\ v.L = N /\ v.C = E /\ v.err = "none"
    BY <2>2, ZFields
  <2> HIDE DEF v, y
  <2>5. QED
    BY <2>3, <2>4
<1>5. /\ Remains(u, M, D, j, B) /\ Len(u.ci) >= 2 /\ ~Ci(u).lua /\ Ci(u).yp /\ Ci(u).k \in Ks
      /\ Len(u.stack) <= Ci(u).top
  <2> DEFINE i == findpcall(th)
  <2>1. u = recover(th, st, i, D[j].nCcalls) /\ B = SubSeq(D, 1, j) /\ i > 0
    OBVIOUS
  <2> HIDE DEF D, M, t, th, u, B
  <2>2. QED
    BY <1>1, <2>1, RecoveredIs DEF IsRecovered, i
<1>6. Beginning(B, D, j) /\ B[j] = D[j] /\ Len(B) = j /\ B \in Seq(Record)
  <2>1. Beginning(B, D, j) /\ B[j] = D[j]
    BY <1>3, First
  <2>2. QED
    BY <2>1 DEF Beginning
<1>7. N[t] = u
  BY <1>3 DEF Moved
<1> HIDE DEF u, B, N
<1>8. Good(N, B)
  <2>1. \A i \in (j + 1)..Len(D) : D[i].t = D[j].t
    <3>1. j \in Nat /\ \A i \in (j + 1)..Len(D) : i \in j..Len(D)
      BY <1>1, <1>3 DEF AtResume
    <3>2. QED
      BY <1>1, <3>1 DEF AtResume
  <2>2. N = Moved(M, D[j].t, u) /\ Good(M, D)
    BY <1>1, <1>3 DEF N, AtResume
  <2> HIDE DEF D, M, t, th, r
  <2>3. QED
    BY <1>5, <1>6, <2>1, <2>2, CutGood
<1>9. Good(N, E) /\ r \in Record
  <2>1. B[Len(B)].a = "resume" /\ t = B[Len(B)].t /\ st \in Statuses
    BY <1>3, <1>6 DEF Statuses
  <2>2. QED
    BY <1>8, <2>1, UnrollEnters
<1>10. Last(E) = r /\ Th(y) = u
  <2>1. Last(E) = r
    BY <1>6, <1>9, PushedRecord
  <2>2. T(y) = t
    BY <1>4, <2>1 DEF T
  <2>3. QED
    BY <1>4, <1>7, <2>1, <2>2 DEF Th
<1>11. AtRest(r, u)
  BY <1>5 DEF AtRest
<1>12. QED
  BY <1>4, <1>9, <1>10, <1>11 DEF RestZ, GoodZ
\* A coroutine goes back to its resumer.
Leaving(z, M, D, j, co, n, st) ==
  /\ Good(M, D) /\ j \in 1..Len(D) /\ D[j].a = "resume" /\ \A i \in j..Len(D) : D[i].t = D[j].t
  /\ IsThread(co) /\ n \in Nat /\ n <= Len(co.stack) /\ st \in Statuses /\ (errorstatus(st) => n = 1)
  /\ Rested(Left(co, D[j], n)) /\ Slots(Left(co, D[j], n))
  /\ IsZ(z) /\ z.L = Moved(M, D[j].t, co) /\ z.C = D /\ z.err = "none"
LEMMA LeavingRest ==
  ASSUME NEW z, NEW M, NEW D, NEW j, NEW co, NEW n, NEW st, Leaving(z, M, D, j, co, n, st)
  PROVE  RestZ(resumed(z, j, n, st))
<1> DEFINE t == D[j].t
           left == Left(co, D[j], n)
           x == Moved(M, D[j].t, co)
<1>1. /\ Good(M, D) /\ j \in 1..Len(D) /\ D[j].a = "resume" /\ \A i \in j..Len(D) : D[i].t = D[j].t
      /\ IsThread(co) /\ n \in Nat /\ n <= Len(co.stack) /\ st \in Statuses /\ (errorstatus(st) => n = 1)
      /\ Rested(Left(co, D[j], n)) /\ Slots(Left(co, D[j], n))
      /\ IsZ(z) /\ z.L = Moved(M, D[j].t, co) /\ z.C = D /\ z.err = "none"
  BY DEF Leaving
<1>2. QED
  BY <1>1, ResumedRest
LEMMA ResumeDies ==
  ASSUME NEW z, Throwing(z), NEW j, j = Jump(z.C), z.C[j].a = "resume", NEW st \in {"ERRRUN", "ERRERR"}
  PROVE  RestZ(resumed(On(z, dead(Th(z), st)), j, 1, st))
<1> DEFINE D == z.C
           M == z.L
           t == T(z)
           th == Th(z)
           r == D[j]
           co == dead(th, st)
           w == Left(co, r, 1)
           x == On(z, co)
<1>1. AtResume(M, D, t, th, j)
  BY AtResumeIs
<1>2. IsZ(z) /\ z.err = "none"
  BY DEF Throwing, GoodZ
<1>3. M = [s \in Threads |-> M[s]] /\ t \in Threads /\ th = M[t] /\ D[j].t = t /\ j \in 1..Len(D) /\ D \in Seq(Record)
  BY <1>1 DEF AtResume, Good, Typed
<1>4. IsThread(th) /\ Slots(th) /\ ~errorstatus(th.status)
  BY <1>1 DEF AtResume, errorstatus
<1>5. /\ IsThread(co) /\ co.status = st /\ co.big = th.big /\ Len(co.stack) = Len(th.stack) + 1
      /\ Within(co, lim(co) + 4)
  <2> HIDE DEF th
  <2>1. QED
    BY <1>4, DeadIs
<1>6. IsZ(x) /\ x.L = Moved(M, t, co) /\ x.C = D /\ x.err = "none"
  BY <1>2, OnIs DEF Moved
<1>7. r.oldnny = 1 /\ r.nCcalls \in Int /\ r.oldnny \in Int
  <2>1. r \in Record /\ Saved(r, D, j - 1)
    BY <1>1, <1>3 DEF AtResume, Good, Located
  <2>2. r.a = "resume"
    BY <1>1 DEF AtResume
  <2>3. QED
    BY <2>1, <2>2, RecordIs DEF Saved
<1> HIDE DEF co, x, th, t, M, D, r
<1>8. Len(th.stack) \in Nat /\ Len(co.stack) \in Nat /\ 1 <= Len(co.stack) /\ Len(co.stack) - 1 = Len(th.stack)
      /\ lim(th) \in Nat
  BY <1>4, <1>5, ThreadIs, LimIs
<1>9. /\ IsThread(w) /\ w.ci = co.ci /\ w.status = co.status /\ w.big = co.big
      /\ Len(w.stack) = Len(th.stack) /\ w.nny = 1
  <2>1. /\ IsThread(w) /\ w.ci = co.ci /\ w.status = co.status /\ w.big = co.big
        /\ Len(w.stack) = Len(co.stack) - 1 /\ w.nny = r.oldnny
    BY <1>5, <1>7, <1>8, LeftIs
  <2>2. QED
    BY <1>7, <1>8, <2>1
<1> HIDE DEF w
<1>10. errorstatus(w.status) /\ w.status \in {"ERRRUN", "ERRERR"}
  BY <1>5, <1>9 DEF errorstatus
<1>11. Rested(w)
  BY <1>9, <1>10 DEF Rested, Asleep
<1>12. Slots(w)
  <2>1. lim(w) = lim(th) /\ lim(co) = lim(th)
    BY <1>5, <1>9 DEF lim
  <2>2. Len(w.stack) <= lim(w) + 3
    BY <1>4, <1>9, <2>1 DEF Slots
  <2>3. \A i \in 1..Len(w.ci) : w.ci[i].top <= lim(w) + 4
    BY <1>5, <1>9, <2>1 DEF Within
  <2>4. QED
    BY <1>10, <2>2, <2>3 DEF Slots
<1>13. /\ Good(M, D) /\ r.a = "resume" /\ r.t = t /\ \A i \in j..Len(D) : D[i].t = r.t
  BY <1>1 DEF AtResume, r
<1>14. RestZ(resumed(x, j, 1, st))
  <2>1. st \in Statuses /\ 1 \in Nat /\ (errorstatus(st) => 1 = 1)
    BY DEF Statuses
  <2>2. D[j].a = "resume" /\ (\A i \in j..Len(D) : D[i].t = D[j].t) /\ x.L = Moved(M, D[j].t, co)
    BY <1>6, <1>13 DEF r
  <2>3. Rested(Left(co, D[j], 1)) /\ Slots(Left(co, D[j], 1))
    BY <1>11, <1>12 DEF w, r
  <2>4. Leaving(x, M, D, j, co, 1, st)
    BY <1>3, <1>5, <1>6, <1>8, <1>13, <2>1, <2>2, <2>3 DEF Leaving
  <2>5. QED
    BY <2>4, LeavingRest
<1>15. QED
  BY <1>14 DEF x, co, th
\* Every error is caught.
LEMMA ThrowRest ==
  ASSUME NEW z, Throwing(z), NEW st \in {"ERRRUN", "ERRERR"}
  PROVE  RestZ(luaD_throw(z, st))
<1> DEFINE j == Jump(z.C)
           y == luaD_throw(z, st)
<1>1. y = caught(z, st, j)
  BY DEF luaD_throw, Jump
<1>2. z.C[j].a \in {"pcall", "resume"}
  BY JumpIs DEF Throwing
<1>3. st # "YIELD"
  OBVIOUS
<1> HIDE DEF j, y
<1>4. CASE z.C[j].a = "pcall"
  <2>1. y = pcallFails(z, j, st)
    BY <1>1, <1>4 DEF caught
  <2>2. RestZ(pcallFails(z, j, st))
    BY <1>4, PcallCatches DEF Throwing, j
  <2>3. QED
    BY <2>1, <2>2 DEF y
<1>5. CASE z.C[j].a = "resume"
  <2>1. y = resumeFails(z, j, st)
    BY <1>1, <1>3, <1>5 DEF caught
  <2>2. RestZ(resumeFails(z, j, st))
    <3>1. CASE findpcall(Th(z)) > 0
      BY <1>5, <3>1, ResumeRecovers DEF resumeFails, j
    <3>2. CASE ~(findpcall(Th(z)) > 0)
      BY <1>5, <3>2, ResumeDies DEF resumeFails, j
    <3>3. QED
      BY <3>1, <3>2
  <2>3. QED
    BY <2>1, <2>2 DEF y
<1>6. QED
  BY <1>2, <1>4, <1>5
\* What a thread is when it yields from a C function.
Yielded(th, n) ==
  [OnCi(th, [Ci(th) EXCEPT !.extra = Ci(th).func, !.k = "none", !.func = Len(th.stack) - n]) EXCEPT !.status = "YIELD"]
IsYielded(w, th, n) ==
  /\ IsThread(w) /\ w.stack = th.stack /\ w.status = "YIELD" /\ w.big = th.big /\ Len(w.ci) = Len(th.ci)
  /\ \A i \in 1..(Len(th.ci) - 1) : w.ci[i] = th.ci[i]
  /\ Ci(w) = w.ci[Len(th.ci)] /\ ~Ci(w).lua /\ ~Ci(w).yp /\ Ci(w).extra = Ci(th).func /\ Ci(w).func = Ci(th).func
  /\ Ci(w).top = Ci(th).top /\ n \in Nat /\ n <= Len(th.stack) /\ Len(th.stack) - n = Ci(th).func
  /\ gettop(w) = n
LEMMA YieldedIs ==
  ASSUME NEW th, IsThread(th), Slots(th), ~errorstatus(th.status), Len(th.ci) >= 2, ~Ci(th).lua, ~Ci(th).yp,
         Ci(th).func <= Len(th.stack), NEW n, n = gettop(th)
  PROVE  IsYielded(Yielded(th, n), th, n)
<1> DEFINE g == Ci(th)
           f == [g EXCEPT !.extra = g.func, !.k = "none", !.func = Len(th.stack) - n]
           v == OnCi(th, f)
           w == Yielded(th, n)
<1>1. /\ g \in Frame /\ g.func \in Nat /\ Len(th.stack) \in Nat /\ Len(th.ci) \in Nat /\ g.func >= 1
  BY ThreadIs, FrameIs, TopFrame
<1>2. n \in Nat /\ n <= Len(th.stack) /\ Len(th.stack) - n = g.func
  BY <1>1 DEF gettop
<1>3. f \in Frame /\ f.func = g.func /\ f.extra = g.func /\ f.lua = g.lua /\ f.yp = g.yp /\ f.top = g.top
  <2>1. f = [g EXCEPT !.extra = g.func, !.k = "none", !.func = g.func]
    BY <1>2
  <2>2. g \in Frame => f \in Frame
    BY <1>1, <2>1 DEF Frame
  <2>3. f.func = g.func /\ f.extra = g.func /\ f.lua = g.lua /\ f.yp = g.yp /\ f.top = g.top
    BY <1>1, <2>1 DEF Frame
  <2>4. QED
    BY <1>1, <2>2, <2>3
<1>4. w = PutStatus(v, "YIELD")
  BY DEF Yielded, PutStatus
<1> HIDE DEF f, g
<1>5. /\ IsThread(v) /\ v.stack = th.stack /\ Rest6(v, th) /\ Len(v.ci) = Len(th.ci) /\ v.ci[Len(th.ci)] = f
      /\ \A i \in 1..(Len(th.ci) - 1) : v.ci[i] = th.ci[i]
  <2>1. f \in Frame /\ IsThread(th)
    BY <1>3
  <2>2. IsThread(v) /\ v.stack = th.stack /\ Rest6(v, th)
    BY <2>1, CiIs
  <2>3. Len(v.ci) = Len(th.ci) /\ v.ci[Len(th.ci)] = f
    BY <2>1, CiIs
  <2>4. \A i \in 1..(Len(th.ci) - 1) : v.ci[i] = th.ci[i]
    <3>1. v.ci = [th.ci EXCEPT ![Len(th.ci)] = f]
      BY <2>1, CiIs
    <3>2. Len(th.ci) \in Nat /\ th.ci \in Seq(Frame)
      BY <2>1, ThreadIs
    <3> HIDE DEF v
    <3>3. QED
      BY <3>1, <3>2
  <2>5. QED
    BY <2>2, <2>3, <2>4
<1> HIDE DEF v
<1>6. IsThread(w) /\ w.status = "YIELD" /\ w.stack = v.stack /\ w.ci = v.ci /\ w.big = v.big
  BY <1>4, <1>5, SetStatus DEF Statuses
<1> HIDE DEF w
<1>7. Ci(w) = f /\ Ci(w) = w.ci[Len(th.ci)]
  BY <1>5, <1>6, ThreadIs
<1>8. gettop(w) = n
  BY <1>1, <1>2, <1>3, <1>5, <1>6, <1>7 DEF gettop
<1>9. IsYielded(w, th, n)
  BY <1>2, <1>3, <1>5, <1>6, <1>7, <1>8 DEF g, Rest6, IsYielded
<1>10. QED
  BY <1>9 DEF w
\* A thread that may yield, and its functions.
LEMMA MayYield ==
  ASSUME NEW M, NEW D, NEW t, NEW th, NEW j, AtResume(M, D, t, th, j), Ny(D, t, Len(D)) = 0,
         D[Len(D)].a = "C", D[Len(D)].at = Len(th.ci), NEW i, i \in 2..(Len(th.ci) - 1), ~th.ci[i].lua
  PROVE  th.ci[i].k \in Ks
<1> DEFINE n == Len(D)
<1>1. /\ Good(M, D) /\ t \in Threads /\ th = M[t] /\ th.status = "OK" /\ IsThread(th)
      /\ j \in 1..n /\ D[j].a = "resume" /\ (\A y \in j..n : D[y].t = t)
      /\ (\A y \in 1..(j - 1) : D[y].t # t) /\ \A y \in (j + 1)..n : D[y].a \notin {"pcall", "resume"}
  BY DEF AtResume
<1>2. n \in Nat /\ Len(th.ci) \in Nat /\ j \in Nat
  BY <1>1, GoodIs, ThreadIs
<1>3. ContinuedAt(th, D, t, i)
  <2>1. i \in 2..Len(th.ci)
    BY <1>2
  <2>2. QED
    BY <1>1, <2>1 DEF Good, Continued, errorstatus
<1>4. CASE ~Has(D, "C", t, i)
  BY <1>1, <1>3, <1>4 DEF ContinuedAt
<1>5. CASE Has(D, "C", t, i)
  <2>1. PICK x \in 1..n : D[x].a = "C" /\ D[x].t = t /\ D[x].at = i
    BY <1>5 DEF Has
  <2>2. x # n
    BY <1>2, <2>1
  <2>3. x > j
    <3>1. ~(x \in 1..(j - 1))
      BY <1>1, <2>1
    <3>2. x # j
      BY <1>1, <2>1
    <3>3. QED
      BY <1>2, <2>1, <3>1, <3>2
  <2>4. x \in 1..(n - 1) /\ x + 1 \in j..n /\ x + 1 \in (j + 1)..n /\ x + 1 \in 1..n
    BY <1>1, <1>2, <2>1, <2>2, <2>3
  <2>5. D[x + 1].t = t /\ D[x + 1].a # "resume"
    BY <1>1, <2>4
  <2>6. ~IsNy(D[x + 1])
    BY <1>2, <2>4, <2>5, NyZero
  <2>7. M[D[x].t].ci[D[x].at].k \in Ks
    BY <1>1, <2>1, <2>4, <2>5, <2>6, FreeNext
  <2>8. QED
    BY <1>1, <2>1, <2>7
<1>6. QED
  BY <1>4, <1>5
\* A C function yields.
LEMMA YieldRest ==
  ASSUME NEW z, RestZ(z), Last(z.C).a = "C", ~Last(z.C).back, Th(z).nny = 0, NEW n, n = gettop(Th(z))
  PROVE  RestZ(luaD_throw(On(z, Yielded(Th(z), n)), "YIELD"))
<1> DEFINE D == z.C
           M == z.L
           t == T(z)
           th == Th(z)
           j == Jump(D)
           r == D[j]
           co == Yielded(th, n)
           w == Left(co, r, n)
           x == On(z, co)
<1>1. GoodZ(z) /\ z.err = "none" /\ AtRest(Last(D), th) /\ IsZ(z) /\ Good(M, D)
  BY DEF RestZ, GoodZ
<1>2. /\ Len(D) \in Nat /\ Len(D) >= 1 /\ Last(D) = D[Len(D)] /\ t = D[Len(D)].t /\ t \in Threads /\ th = M[t]
      /\ IsThread(th) /\ Slots(th) /\ th.status = "OK" /\ th.nny = Ny(D, t, Len(D)) + MainNy(t)
      /\ Ny(D, t, Len(D)) \in Nat /\ Placed(D[Len(D)], th) /\ M = [s \in Threads |-> M[s]]
  BY <1>1, ZIs
<1> HIDE DEF D, M, t, th
<1>3. Ny(D, t, Len(D)) = 0 /\ t # "main"
  <2>1. th.nny = 0
    BY DEF th
  <2>2. QED
    BY <1>2, <2>1 DEF MainNy
<1>4. Len(D) >= 2 /\ Throwing(z)
  <2>1. D[1].t = "main"
    BY <1>1, GoodIs
  <2>2. Len(D) # 1
    BY <1>2, <1>3, <2>1
  <2>3. Len(D) >= 2
    <3>1. \A k \in Nat : k >= 1 /\ k # 1 => k >= 2
      OBVIOUS
    <3>2. QED
      BY <1>2, <2>2, <3>1
  <2>4. QED
    BY <1>1, <2>3 DEF Throwing, D
<1>5. j \in 1..Len(D) /\ D[j].t = t /\ D[j].a \in {"pcall", "resume"} /\ Placed(D[j], th)
  <2>1. /\ j \in Nat /\ j \in 1..Len(D) /\ (\A i \in j..Len(D) : D[i].t = t) /\ D[j].a \in {"pcall", "resume"}
        /\ Placed(D[j], th)
    BY <1>1, <1>4, JumpIs DEF D, t, th
  <2>2. j \in j..Len(D)
    BY <1>2, <2>1
  <2>3. QED
    BY <2>1, <2>2
<1>6. D[j].a = "resume"
  <2>1. ASSUME D[j].a = "pcall" PROVE FALSE
    <3>1. IsNy(D[j])
      BY <1>5, <2>1 DEF IsNy, Placed, Callers
    <3>2. QED
      BY <1>2, <1>3, <1>5, <3>1, NyZero
  <2>2. QED
    BY <1>5, <2>1
<1>7. AtResume(M, D, t, th, j)
  BY <1>4, <1>6, AtResumeIs DEF D, M, t, th
<1>8. /\ D[Len(D)].a = "C" /\ D[Len(D)].at = Len(th.ci) /\ ~Ci(th).yp /\ Ci(th).func <= Len(th.stack)
      /\ Len(th.ci) >= 2 /\ ~Ci(th).lua /\ Len(th.ci) \in Nat
  <2>1. D[Len(D)].a = "C" /\ ~D[Len(D)].back
    BY <1>2 DEF D
  <2>2. D[Len(D)].at = Len(th.ci) /\ ~Ci(th).yp /\ Ci(th).func <= Len(th.stack)
    BY <1>1, <1>2, <2>1 DEF AtRest
  <2>3. Ci(th) = th.ci[Len(th.ci)] /\ Len(th.ci) \in Nat
    BY <1>2, ThreadIs
  <2>4. QED
    BY <1>2, <2>1, <2>2, <2>3 DEF Placed
<1>9. ~errorstatus(th.status) /\ n = gettop(th)
  BY <1>2 DEF errorstatus, th
<1>10. /\ IsThread(co) /\ co.stack = th.stack /\ co.status = "YIELD" /\ co.big = th.big /\ Len(co.ci) = Len(th.ci)
       /\ \A i \in 1..(Len(th.ci) - 1) : co.ci[i] = th.ci[i]
       /\ Ci(co) = co.ci[Len(th.ci)] /\ ~Ci(co).lua /\ ~Ci(co).yp /\ Ci(co).extra = Ci(th).func /\ Ci(co).func = Ci(th).func
       /\ Ci(co).top = Ci(th).top /\ n \in Nat /\ n <= Len(th.stack) /\ Len(th.stack) - n = Ci(th).func
       /\ gettop(co) = n
  <2>1. IsYielded(co, th, n)
    BY <1>2, <1>8, <1>9, YieldedIs
  <2> HIDE DEF co
  <2>2. QED
    BY <2>1 DEF IsYielded
<1>11. IsZ(x) /\ x.L = Moved(M, t, co) /\ x.C = D /\ x.err = "none" /\ Th(x) = co
  <2> HIDE DEF co
  <2>1. IsZ(x) /\ x.L = Moved(M, t, co) /\ x.C = D /\ x.err = "none"
    BY <1>1, OnIs DEF Moved, M, t, D
  <2>2. QED
    BY <1>1, <2>1, OnTh
<1> HIDE DEF j, r, co, x
<1>12. r.oldnny = 1 /\ r.oldnny \in Int /\ r.nCcalls \in Int /\ r.a = "resume" /\ r.t = t
  <2>1. r \in Record /\ Saved(r, D, j - 1)
    BY <1>1, <1>5, GoodIs DEF Good, Located, r
  <2>2. QED
    BY <1>5, <1>6, <2>1, RecordIs DEF Saved, r
<1>13. /\ IsThread(w) /\ w.ci = co.ci /\ w.status = "YIELD" /\ w.big = th.big
       /\ Len(w.stack) = Ci(th).func /\ w.nny = 1
  <2>1. /\ IsThread(w) /\ w.ci = co.ci /\ w.status = co.status /\ w.big = co.big
        /\ Len(w.stack) = Len(co.stack) - n /\ w.nny = r.oldnny
    BY <1>10, <1>12, LeftIs
  <2>2. QED
    BY <1>10, <1>12, <2>1
<1> HIDE DEF w
<1>14. Ci(w) = Ci(co)
  BY <1>13 DEF Ci
<1>15. Rested(w)
  <2>1. ASSUME NEW i \in 2..Len(w.ci), ~w.ci[i].lua, i # Len(w.ci) PROVE w.ci[i].k \in Ks
    <3>1. i \in 2..(Len(th.ci) - 1) /\ i \in 1..(Len(th.ci) - 1)
      BY <1>8, <1>10, <1>13, <2>1
    <3>2. w.ci[i] = th.ci[i]
      BY <1>10, <1>13, <3>1
    <3>3. QED
      BY <1>3, <1>7, <1>8, <2>1, <3>1, <3>2, MayYield
  <2>2. Asleep(w)
    <3>1. Len(w.ci) >= 2 /\ ~Ci(w).lua /\ ~Ci(w).yp /\ Ci(w).extra = Ci(w).func
      BY <1>8, <1>10, <1>13, <1>14
    <3>2. Ci(w).func <= Len(w.stack)
      <4>1. Len(w.stack) \in Nat
        BY <1>13, ThreadIs
      <4>2. QED
        BY <1>10, <1>13, <1>14, <4>1
    <3>3. QED
      BY <1>13, <3>1, <3>2 DEF Asleep
  <2>3. QED
    BY <1>13, <2>1, <2>2 DEF Rested
<1>16. Slots(w)
  <2>1. lim(w) = lim(th)
    BY <1>13 DEF lim
  <2>2. Len(w.stack) <= lim(th) + 3
    <3>1. Len(th.stack) <= lim(th) + 3 /\ lim(th) \in Nat /\ Len(th.stack) \in Nat /\ Len(w.stack) \in Nat
      BY <1>2, <1>13, ThreadIs, LimIs DEF Slots
    <3>2. QED
      BY <1>8, <1>13, <3>1
  <2>3. ASSUME NEW i \in 1..Len(w.ci) PROVE FrameFits(i, w.ci[i]) /\ w.ci[i].top <= lim(th)
    <3>1. CASE i # Len(w.ci)
      <4>1. i \in 1..(Len(th.ci) - 1) /\ i \in 1..Len(th.ci)
        BY <1>8, <1>10, <1>13, <3>1
      <4>2. w.ci[i] = th.ci[i]
        BY <1>10, <1>13, <4>1
      <4>3. QED
        BY <1>2, <1>9, <4>1, <4>2 DEF Slots
    <3>2. CASE i = Len(w.ci)
      <4>1. w.ci[i] = Ci(co) /\ i # 1
        BY <1>8, <1>10, <1>13, <3>2
      <4>2. FrameFits(Len(th.ci), Ci(th)) /\ Ci(th).top <= lim(th) /\ Len(th.ci) # 1
        BY <1>2, <1>8, <1>9, TopFrame
      <4>3. QED
        BY <1>8, <1>10, <4>1, <4>2 DEF FrameFits
    <3>3. QED
      BY <3>1, <3>2
  <2>4. QED
    BY <1>13, <2>1, <2>2, <2>3 DEF Slots, errorstatus
<1>17. RestZ(resumed(x, j, n, "YIELD"))
  <2>1. "YIELD" \in Statuses /\ ~errorstatus("YIELD")
    BY DEF Statuses, errorstatus
  <2>2. j \in 1..Len(D) /\ D[j].a = "resume" /\ (\A i \in j..Len(D) : D[i].t = D[j].t) /\ x.L = Moved(M, D[j].t, co)
    BY <1>7, <1>11 DEF AtResume
  <2>3. Rested(Left(co, D[j], n)) /\ Slots(Left(co, D[j], n))
    BY <1>15, <1>16 DEF w, r
  <2>4. Leaving(x, M, D, j, co, n, "YIELD")
    BY <1>1, <1>10, <1>11, <2>1, <2>2, <2>3 DEF Leaving
  <2>5. QED
    BY <2>4, LeavingRest
<1>18. luaD_throw(x, "YIELD") = resumed(x, j, n, "YIELD")
  <2>1. luaD_throw(x, "YIELD") = caught(x, "YIELD", j)
    BY <1>11 DEF luaD_throw, j, Jump
  <2>2. x.C[j].a = "resume"
    BY <1>6, <1>11
  <2>3. caught(x, "YIELD", j) = resumed(x, j, gettop(Th(x)), "YIELD")
    BY <2>2 DEF caught
  <2>4. QED
    BY <1>10, <1>11, <2>1, <2>3
<1>19. QED
  BY <1>17, <1>18 DEF x, co, th
\* A C function that runs is not in lua_pcallk.
LEMMA LastC ==
  ASSUME NEW z, GoodZ(z), Last(z.C).a = "C"
  PROVE  ~Th(z).ci[Last(z.C).at].yp
<1> DEFINE D == z.C
           M == z.L
           n == Len(D)
           t == T(z)
           th == Th(z)
           i == D[n].at
<1>1. /\ Good(M, D) /\ D \in Seq(Record) /\ n \in Nat /\ n \in 1..n /\ t = D[n].t /\ t \in Threads /\ Shape(D)
      /\ th = M[t] /\ th.status = "OK" /\ IsThread(th) /\ Last(D) = D[n] /\ Placed(D[n], th)
  BY ZIs, GoodIs DEF GoodZ
<1>2. D[n].a = "C" /\ i >= 2 /\ i <= Len(th.ci) /\ i \in Nat /\ Len(th.ci) \in Nat
  <2>1. D[n].a = "C" /\ D[n] \in Record
    BY <1>1
  <2>2. i \in Nat /\ Len(th.ci) \in Nat
    BY <1>1, <2>1, RecordIs, ThreadIs
  <2>3. QED
    BY <1>1, <2>1, <2>2 DEF Placed
<1> HIDE DEF D, M, n, t, th, i
<1>3. ASSUME th.ci[i].yp PROVE FALSE
  <2>1. i \in 2..Len(th.ci)
    BY <1>2
  <2>2. ContinuedAt(th, D, t, i)
    BY <1>1, <2>1 DEF Good, Continued, errorstatus
  <2>3. Has(D, "C", t, i)
    BY <1>1, <1>2 DEF Has, n, i
  <2>4. PICK w \in 1..Len(D) : D[w].a = "ypcall" /\ D[w].t = t /\ D[w].at = i
    BY <1>3, <2>2, <2>3 DEF ContinuedAt, Has
  <2>5. w # n
    BY <1>2, <2>4
  <2>6. w < n /\ w \in 1..n
    BY <1>1, <2>4, <2>5 DEF n
  <2>7. D[w].at < D[n].at
    BY <1>1, <1>2, <2>4, <2>6 DEF Shape, Order, n
  <2>8. QED
    BY <1>2, <2>4, <2>7 DEF i
<1>4. QED
  BY <1>1, <1>3 DEF i, th, D
\* Only the stack of the running thread changes, or its size.
Restacked(u, th) ==
  /\ IsThread(u) /\ Slots(u) /\ u.ci = th.ci /\ u.status = th.status /\ u.nny = th.nny /\ u.nCcalls = th.nCcalls
LEMMA RestackedGood ==
  ASSUME NEW z, GoodZ(z), NEW u, Restacked(u, Th(z)), NEW w, w = On(z, u)
  PROVE  GoodZ(w) /\ Th(w) = u /\ w.C = z.C /\ w.err = z.err /\ T(w) = T(z) /\ Last(w.C) = Last(z.C)
<1> DEFINE th == Th(z)
           r == Last(z.C)
<1>1. IsThread(th) /\ Placed(r, th) /\ r \in Record
  BY ZIs
<1>2. Len(th.ci) \in Nat /\ r.at \in Nat /\ r.at >= 1 /\ r.at <= Len(th.ci)
  BY <1>1, ThreadIs, RecordIs DEF Placed
<1>3. r.a = "C" => ~th.ci[r.at].yp
  BY LastC
<1> HIDE DEF th, r
<1>4. \A i \in 1..Len(th.ci) : Agree(th.ci[i], th.ci[i])
  BY <1>1, SameIs DEF Same
<1>5. Adjusted(u, th, r)
  <2>1. IsThread(u) /\ Slots(u) /\ u.ci = th.ci /\ u.status = th.status /\ u.nny = th.nny /\ u.nCcalls = th.nCcalls
    BY DEF Restacked, th
  <2>2. \A i \in 1..r.at : i \in 1..Len(th.ci)
    BY <1>2
  <2>3. \A i \in (r.at + 1)..Len(th.ci) : i \in 1..Len(th.ci)
    BY <1>2
  <2>4. Below(u, th, r)
    BY <1>2, <1>4, <2>1, <2>2 DEF Below
  <2>5. QED
    BY <1>3, <1>4, <2>1, <2>3, <2>4 DEF Adjusted
<1>6. QED
  BY <1>5, AdjustedGood DEF th, r
\* The message waits for luaG_runerror.
Waiting(z) == GoodZ(z) /\ z.err # "none" /\ Len(z.C) >= 2 /\ Len(Th(z).stack) >= 1
Erring(z)  == Throwing(z) /\ Len(Th(z).stack) >= 1
GrowsTo(z, w) == RestZ(w) \/ (Waiting(w) /\ ~Th(z).big /\ Th(w).big /\ Th(w).nCcalls = Th(z).nCcalls)
LEMMA GrowOutcome ==
  ASSUME NEW z, Erring(z)
  PROVE  GrowsTo(z, luaD_growstack(z))
<1> DEFINE th == Th(z)
           u == [th EXCEPT !.big = TRUE]
           v == On(z, u)
           e == "stack overflow"
           w == ZE(v, e)
<1>1. Throwing(z) /\ GoodZ(z) /\ Len(z.C) >= 2 /\ z.err = "none"
  BY DEF Erring, Throwing
<1>2. CASE th.big
  <2>1. luaD_growstack(z) = luaD_throw(z, "ERRERR")
    BY <1>2 DEF luaD_growstack
  <2>2. QED
    BY <1>1, <2>1, ThrowRest DEF GrowsTo
<1>3. CASE ~th.big
  <2>1. luaD_growstack(z) = w
    BY <1>3 DEF luaD_growstack, ZE
  <2>2. IsThread(th) /\ Slots(th)
    BY <1>1, ZIs
  <2>3. /\ IsThread(u) /\ Slots(u) /\ u.stack = th.stack /\ u.ci = th.ci /\ u.status = th.status
        /\ u.nny = th.nny /\ u.nCcalls = th.nCcalls /\ u.big
    <3> HIDE DEF th
    <3>1. QED
      BY <2>2, Grown
  <2> HIDE DEF u
  <2>4. Restacked(u, th)
    BY <2>3 DEF Restacked
  <2>5. GoodZ(v) /\ Th(v) = u /\ v.C = z.C /\ Last(v.C) = Last(z.C)
    BY <1>1, <2>4, RestackedGood
  <2> HIDE DEF v
  <2>6. IsZ(w) /\ w.L = v.L /\ w.C = v.C /\ w.err = "stack overflow"
    <3>1. IsZ(v)
      BY <2>5 DEF GoodZ
    <3> HIDE DEF e
    <3>2. IsZ(w) /\ w.L = v.L /\ w.C = v.C /\ w.err = e
      BY <3>1, ZFields
    <3>3. QED
      BY <3>2 DEF e
  <2> HIDE DEF w
  <2>7. GoodZ(w) /\ Th(w) = u
    BY <2>5, <2>6 DEF GoodZ, Th, T
  <2>8. Len(u.stack) >= 1
    BY <2>3 DEF Erring, th
  <2>9. Waiting(w)
    BY <1>1, <2>5, <2>6, <2>7, <2>8 DEF Waiting
  <2>10. QED
    BY <1>3, <2>1, <2>3, <2>7, <2>9 DEF GrowsTo, th
<1>4. QED
  BY <1>2, <1>3
\* A Lua frame needs no continuation.
LEMMA LuaContinued ==
  ASSUME NEW u, Slots(u), ~errorstatus(u.status), NEW D, NEW t, NEW i, i \in 2..Len(u.ci), u.ci[i].lua
  PROVE  ContinuedAt(u, D, t, i)
<1>1. i # 1 /\ i \in 1..Len(u.ci)
  OBVIOUS
<1>2. FrameFits(i, u.ci[i])
  BY <1>1 DEF Slots
<1>3. ~u.ci[i].yp
  BY <1>1, <1>2 DEF FrameFits
<1>4. QED
  BY <1>3 DEF ContinuedAt
IsStacked(w, z, u, r) ==
  /\ GoodZ(w) /\ Th(w) = u /\ Last(w.C) = r /\ w.err = z.err /\ w.C = Append(z.C, r)
  /\ Len(w.C) = Len(z.C) + 1 /\ T(w) = T(z) /\ w.L = [z.L EXCEPT ![T(z)] = u]
LEMMA StackedHas ==
  ASSUME NEW z, GoodZ(z), NEW u, NEW r, Enters(u, z.L, z.C, r), r.t = T(z)
  PROVE  IsStacked(Stacked(On(z, u), r), z, u, r)
<1> DEFINE v == On(z, u)
           w == Stacked(v, r)
           t == T(z)
           N == [z.L EXCEPT ![t] = u]
           E == Append(z.C, r)
<1>1. IsZ(z) /\ Good(z.L, z.C) /\ z.C \in Seq(Record) /\ t \in Threads /\ z.L = [s \in Threads |-> z.L[s]]
      /\ r \in Record
  BY ZIs DEF GoodZ, Enters
<1>2. IsZ(v) /\ v.L = N /\ v.C = z.C /\ v.err = z.err
  BY <1>1, OnIs
<1>3. IsZ(w) /\ w.L = v.L /\ w.C = Append(v.C, r) /\ w.err = v.err
  BY <1>2, StackedIs
<1>4. Good(N, E)
  <2>1. N = [z.L EXCEPT ![r.t] = u]
    OBVIOUS
  <2> HIDE DEF N
  <2>2. QED
    BY <1>1, <2>1, EntersGood
<1>5. Last(E) = r /\ Len(E) = Len(z.C) + 1
  BY <1>1, PushedRecord
<1>6. N[t] = u
  BY <1>1
<1> HIDE DEF N, E, v, w
<1>7. IsZ(w) /\ w.L = N /\ w.C = E /\ w.err = z.err
  BY <1>2, <1>3 DEF E
<1>8. T(w) = t /\ Th(w) = u
  BY <1>5, <1>6, <1>7 DEF T, Th
<1>9. IsStacked(w, z, u, r)
  BY <1>4, <1>5, <1>7, <1>8 DEF GoodZ, E, N, IsStacked
<1>10. QED
  BY <1>9 DEF w, v
\* The function that is called has a frame and a record of its own.
Stacks(M, D, n, q, t, th) ==
  /\ Good(M, D) /\ n = Len(D) /\ q = D[n] /\ t = q.t /\ th = M[t] /\ n \in Nat /\ n >= 1 /\ n \in 1..n
  /\ D \in Seq(Record) /\ q \in Record /\ t \in Threads /\ IsThread(th) /\ Slots(th) /\ th.status = "OK"
  /\ th.nny = Ny(D, t, n) + MainNy(t) /\ th.nCcalls = Calling(D, n) /\ Placed(q, th)
  /\ Len(th.ci) \in Nat /\ Len(th.ci) >= 1 /\ q.at \in Nat /\ q.at >= 1 /\ q.at <= Len(th.ci)
  /\ \A i \in 2..Len(th.ci) : ContinuedAt(th, D, t, i)
LEMMA StacksIs ==
  ASSUME NEW z, GoodZ(z)
  PROVE  Stacks(z.L, z.C, Len(z.C), Last(z.C), T(z), Th(z))
<1> DEFINE D == z.C
           M == z.L
           n == Len(D)
           q == Last(D)
           t == T(z)
           th == Th(z)
<1>1. /\ n \in Nat /\ n >= 1 /\ n \in 1..n /\ q = D[n] /\ t = D[n].t /\ t \in Threads
      /\ D \in Seq(Record) /\ D[n] \in Record
      /\ th = M[t] /\ IsThread(th) /\ Slots(th) /\ th.status = "OK"
      /\ th.nny = Ny(D, t, n) + MainNy(t) /\ th.nCcalls = Calling(D, n) /\ Placed(D[n], th)
  BY ZIs
<1>2. Good(M, D)
  BY DEF GoodZ
<1> HIDE DEF D, M, n, q, t, th
<1>3. Len(th.ci) \in Nat /\ Len(th.ci) >= 1 /\ q.at \in Nat /\ q.at >= 1 /\ q.at <= Len(th.ci)
  BY <1>1, ThreadIs, RecordIs DEF Placed
<1>4. \A i \in 2..Len(th.ci) : ContinuedAt(th, D, t, i)
  BY <1>1, <1>2 DEF Good, Continued, errorstatus
<1>5. Stacks(M, D, n, q, t, th)
  BY <1>1, <1>2, <1>3, <1>4 DEF Stacks, n
<1>6. QED
  BY <1>5 DEF D, M, n, q, t, th
Framed(u, th, q, r) ==
  /\ r \in Record /\ r.a \in {"C", "exec"} /\ r.t = q.t /\ r.at = Len(th.ci) + 1
  /\ IsThread(u) /\ Slots(u) /\ Rest6(u, th) /\ Len(u.ci) = Len(th.ci) + 1
  /\ (\A i \in 1..Len(th.ci) : u.ci[i] = th.ci[i]) /\ ~u.ci[Len(th.ci) + 1].yp
  /\ (u.ci[Len(th.ci) + 1].lua <=> r.a = "exec")
  /\ \/ q.a \in Callers \cup {"resume"} /\ q.at = Len(th.ci)
     \/ r.a = "C" /\ q.a = "exec" /\ InExec(q, Len(th.ci), th)
LEMMA FrameEnters ==
  ASSUME NEW M, NEW D, NEW n, NEW q, NEW t, NEW th, Stacks(M, D, n, q, t, th), n >= 2, NEW u, NEW r,
         Framed(u, th, q, r)
  PROVE  Enters(u, M, D, r)
<1> DEFINE l == Len(th.ci)
<1>1. /\ Good(M, D) /\ n = Len(D) /\ q = D[n] /\ t = q.t /\ th = M[t] /\ n \in Nat /\ n \in 1..n
      /\ D \in Seq(Record) /\ q \in Record /\ t \in Threads /\ IsThread(th) /\ Slots(th) /\ th.status = "OK"
      /\ th.nny = Ny(D, t, n) + MainNy(t) /\ th.nCcalls = Calling(D, n) /\ Placed(q, th)
      /\ l \in Nat /\ l >= 1 /\ q.at \in Nat /\ q.at >= 1 /\ q.at <= l
      /\ \A i \in 2..l : ContinuedAt(th, D, t, i)
  BY DEF Stacks
<1>2. /\ r \in Record /\ r.a \in {"C", "exec"} /\ r.t = t /\ r.at = l + 1
      /\ IsThread(u) /\ Slots(u) /\ Rest6(u, th) /\ Len(u.ci) = l + 1
      /\ (\A i \in 1..l : u.ci[i] = th.ci[i]) /\ ~u.ci[l + 1].yp /\ (u.ci[l + 1].lua <=> r.a = "exec")
  BY <1>1 DEF Framed
<1>3. \/ q.a \in Callers \cup {"resume"} /\ q.at = l
      \/ r.a = "C" /\ q.a = "exec" /\ InExec(q, l, th)
  BY DEF Framed
<1> HIDE DEF l
<1>4. ~IsNy(r) /\ r.a \notin Callers \cup {"resume"} /\ ~Free(r) /\ q.a # "C" /\ r.a # "resume"
  <2>1. q.a # "C"
    BY <1>3 DEF Callers
  <2>2. QED
    BY <1>2, <2>1 DEF IsNy, Callers, Free
<1>5. Follows(r, D)
  <2>1. q.at < r.at /\ q.at <= r.at /\ Len(D) # 1
    BY <1>1, <1>2
  <2>2. QED
    BY <1>1, <1>2, <1>4, <2>1 DEF Follows
<1>6. Below(u, th, q)
  <2>1. \A i \in 1..q.at : i \in 1..l
    BY <1>1
  <2>2. \A i \in 1..l : Agree(th.ci[i], th.ci[i])
    BY <1>1, SameIs DEF Same, l
  <2>3. \A i \in 1..q.at : Agree(u.ci[i], th.ci[i])
    BY <1>2, <2>1, <2>2
  <2>4. q.at <= Len(u.ci)
    BY <1>1, <1>2
  <2>5. QED
    BY <2>3, <2>4 DEF Below
<1>7. Linked(q, r, u)
  <2>1. CASE q.a \in Callers \cup {"resume"} /\ q.at = l
    BY <1>2, <2>1 DEF Linked
  <2>2. CASE r.a = "C" /\ q.a = "exec" /\ InExec(q, l, th)
    <3>1. \A i \in q.at..l : i \in 1..l
      BY <1>1
    <3>2. InExec(q, l, u)
      BY <1>2, <2>2, <3>1 DEF InExec
    <3>3. r.at - 1 = l
      BY <1>1, <1>2
    <3>4. QED
      BY <1>2, <2>2, <3>2, <3>3 DEF Linked
  <2>3. QED
    BY <1>3, <2>1, <2>2
<1>8. Placed(r, u)
  <2>1. r.at <= Len(u.ci) /\ r.at >= 2
    BY <1>1, <1>2
  <2>3. u.ci[r.at].lua <=> r.a = "exec"
    BY <1>2
  <2>2. QED
    BY <1>2, <1>4, <2>1, <2>3 DEF Placed
<1>9. Saved(r, D, n)
  BY <1>2, <1>4 DEF Saved
<1>10. u.status = "OK" /\ u.nny = th.nny /\ u.nCcalls = th.nCcalls
  BY <1>1, <1>2 DEF Rest6
<1>11. ASSUME NEW i \in 2..Len(u.ci) PROVE i > q.at => ContinuedAt(u, Append(D, r), t, i)
  <2>1. i \in Nat /\ (i \in 2..l \/ i = l + 1)
    BY <1>1, <1>2
  <2>2. CASE i = l + 1
    <3>1. CASE r.a = "exec"
      BY <1>2, <1>10, <2>2, <3>1, LuaContinued DEF errorstatus
    <3>2. CASE r.a = "C"
      <4> DEFINE E == Append(D, r)
      <4>1. Len(E) = n + 1 /\ E[n + 1] = r /\ n + 1 \in 1..Len(E)
        BY <1>1, <1>2, PushedRecord
      <4> HIDE DEF E
      <4>2. Has(E, "C", t, i)
        BY <1>2, <2>2, <3>2, <4>1 DEF Has
      <4>3. ContinuedAt(u, E, t, i)
        BY <1>2, <2>2, <4>2 DEF ContinuedAt
      <4>4. QED
        BY <4>3 DEF E
    <3>3. QED
      BY <1>2, <3>1, <3>2
  <2>3. CASE i \in 2..l /\ i > q.at
    <3>1. r.a = "C" /\ q.a = "exec" /\ InExec(q, l, th)
      BY <1>1, <1>3, <2>3
    <3>2. i \in q.at..l /\ i \in 1..l
      BY <1>1, <2>1, <2>3
    <3>3. u.ci[i].lua
      BY <1>2, <3>1, <3>2 DEF InExec
    <3>4. QED
      BY <1>2, <1>10, <3>3, LuaContinued DEF errorstatus
  <2>4. QED
    BY <2>1, <2>2, <2>3
<1>12. /\ Ny(D, r.t, n) + MainNy(r.t) + (IF IsNy(r) THEN 1 ELSE 0) = Ny(D, t, n) + MainNy(t)
       /\ Calling(D, n) + (IF r.a \in Callers \cup {"resume"} THEN 1 ELSE 0) = Calling(D, n)
  <2>1. Ny(D, t, n) \in Nat /\ Calling(D, n) \in Nat
    BY <1>1, NyZero, CallingStep
  <2>2. MainNy(t) \in Nat
    BY DEF MainNy
  <2>3. Ny(D, t, n) + MainNy(t) + 0 = Ny(D, t, n) + MainNy(t) /\ Calling(D, n) + 0 = Calling(D, n)
    BY <2>1, <2>2
  <2>4. (IF IsNy(r) THEN 1 ELSE 0) = 0 /\ (IF r.a \in Callers \cup {"resume"} THEN 1 ELSE 0) = 0 /\ r.t = t
    BY <1>2, <1>4
  <2>5. QED
    BY <2>3, <2>4
<1>13. QED
  BY <1>1, <1>2, <1>4, <1>5, <1>6, <1>7, <1>8, <1>9, <1>10, <1>11, <1>12 DEF Enters
CanCall(z, func, nres, fresh) ==
  /\ Throwing(z) /\ func \in Nat /\ func >= 2 /\ func <= Len(Th(z).stack) /\ nres \in {-1, 0, 1, 2} /\ fresh \in BOOLEAN
  /\ IF fresh THEN Last(z.C).a \in Callers \cup {"resume"} /\ Last(z.C).at = Len(Th(z).ci)
     ELSE Last(z.C).a = "exec" /\ InExec(Last(z.C), Len(Th(z).ci), Th(z))
LEMMA CalledStacks ==
  ASSUME NEW z, NEW func, NEW nres, NEW fresh, CanCall(z, func, nres, fresh)
  PROVE  /\ Stacks(z.L, z.C, Len(z.C), Last(z.C), T(z), Th(z)) /\ GoodZ(z) /\ IsZ(z) /\ Len(z.C) >= 2 /\ z.err = "none"
         /\ IsThread(Th(z)) /\ Slots(Th(z)) /\ ~errorstatus(Th(z).status)
         /\ Len(Th(z).ci) \in Nat /\ Len(Th(z).ci) >= 1 /\ T(z) = Last(z.C).t /\ T(z) \in Threads
         /\ z.L = [s \in Threads |-> z.L[s]]
<1>1. GoodZ(z) /\ IsZ(z) /\ Len(z.C) >= 2 /\ z.err = "none"
  BY DEF CanCall, Throwing, GoodZ
<1>2. Stacks(z.L, z.C, Len(z.C), Last(z.C), T(z), Th(z))
  BY <1>1, StacksIs
<1>3. /\ IsThread(Th(z)) /\ Slots(Th(z)) /\ ~errorstatus(Th(z).status)
      /\ Len(Th(z).ci) \in Nat /\ Len(Th(z).ci) >= 1 /\ T(z) = Last(z.C).t /\ T(z) \in Threads
  BY <1>2 DEF Stacks, errorstatus
<1>4. z.L = [s \in Threads |-> z.L[s]]
  BY <1>1, ZIs
<1>5. QED
  BY <1>1, <1>2, <1>3, <1>4
\* A Lua function that luaV_execute is called for.
LEMMA LuaCalled ==
  ASSUME NEW z, NEW func, NEW nres, CanCall(z, func, nres, TRUE), Room(Th(z), FrameSize)
  PROVE  RestZ(Started(On(z, luaframe(Th(z), func, nres, TRUE))))
<1> DEFINE th == Th(z)
           u == luaframe(th, func, nres, TRUE)
           l == Len(th.ci) + 1
           t == T(z)
           v == On(z, u)
           r == [a |-> "exec", t |-> t, at |-> l]
           y == Started(v)
           w == Stacked(v, r)
           q == Last(z.C)
<1>1. /\ Stacks(z.L, z.C, Len(z.C), q, t, th) /\ GoodZ(z) /\ IsZ(z) /\ Len(z.C) >= 2 /\ z.err = "none"
      /\ IsThread(th) /\ Slots(th) /\ ~errorstatus(th.status)
      /\ Len(th.ci) \in Nat /\ Len(th.ci) >= 1 /\ t = q.t /\ t \in Threads /\ l \in Nat /\ l \in Places
  <2>1. /\ Stacks(z.L, z.C, Len(z.C), q, t, th) /\ GoodZ(z) /\ IsZ(z) /\ Len(z.C) >= 2 /\ z.err = "none"
        /\ IsThread(th) /\ Slots(th) /\ ~errorstatus(th.status)
        /\ Len(th.ci) \in Nat /\ Len(th.ci) >= 1 /\ t = q.t /\ t \in Threads
    BY CalledStacks
  <2> HIDE DEF th, t, q
  <2>2. l \in Nat /\ l # 0
    BY <2>1
  <2>3. QED
    BY <2>1, <2>2 DEF Places
<1>2. /\ IsThread(u) /\ Slots(u) /\ Rest6(u, th) /\ Len(u.ci) = l
      /\ (\A i \in 1..Len(th.ci) : u.ci[i] = th.ci[i])
      /\ u.ci[l].lua /\ u.ci[l].fresh = TRUE /\ ~u.ci[l].yp
  <2> HIDE DEF th
  <2>1. func \in Nat /\ func >= 2 /\ func <= Len(th.stack) /\ nres \in {-1, 0, 1, 2} /\ Room(th, FrameSize)
    BY DEF CanCall, th
  <2>2. TRUE \in BOOLEAN
    OBVIOUS
  <2>3. IsLuaFrame(u, th, TRUE)
    BY <1>1, <2>1, <2>2, LuaFrame
  <2> HIDE DEF u
  <2>4. QED
    BY <2>3 DEF IsLuaFrame
<1>3. q.a \in Callers \cup {"resume"} /\ q.at = Len(th.ci)
  BY DEF CanCall
<1>4. Th(v) = u /\ T(v) = t
  <2> HIDE DEF u
  <2>1. QED
    BY <1>1, OnTh, OnIs
<1> HIDE DEF u
<1>5. y = w
  BY <1>2, <1>4 DEF Started
<1> HIDE DEF q, th, t, v, l
<1>6. r \in Record /\ r.a = "exec" /\ r.t = t /\ r.at = l
  BY <1>1 DEF Record
<1> HIDE DEF r
<1>7. Framed(u, th, q, r)
  BY <1>1, <1>2, <1>3, <1>6 DEF Framed, l
<1>8. Enters(u, z.L, z.C, r)
  BY <1>1, <1>7, FrameEnters
<1>9. GoodZ(w) /\ Th(w) = u /\ Last(w.C) = r /\ w.err = "none"
  <2>1. r.t = T(z)
    BY <1>6 DEF t
  <2>2. IsStacked(w, z, u, r)
    BY <1>1, <1>8, <2>1, StackedHas DEF v
  <2> HIDE DEF w
  <2>3. QED
    BY <1>1, <2>2 DEF IsStacked
<1>10. AtRest(r, u)
  <2>1. \A i \in r.at..Len(u.ci) : i = l
    BY <1>1, <1>2, <1>6
  <2>2. InExec(r, Len(u.ci), u)
    BY <1>2, <1>6, <2>1 DEF InExec
  <2>3. QED
    BY <1>6, <2>2 DEF AtRest
<1>11. RestZ(w)
  BY <1>9, <1>10 DEF RestZ
<1>12. RestZ(y)
  BY <1>5, <1>11
<1>13. QED
  BY <1>12 DEF y, v, u, th
\* A C function.
LEMMA CCalled ==
  ASSUME NEW z, NEW func, NEW nres, NEW fresh, CanCall(z, func, nres, fresh), Room(Th(z), LUA_MINSTACK)
  PROVE  RestZ(Stacked(On(z, cframe(Th(z), func, nres)),
                 [a |-> "C", t |-> T(z), at |-> Len(Th(z).ci) + 1, back |-> FALSE, status |-> "OK"]))
<1> DEFINE th == Th(z)
           u == cframe(th, func, nres)
           l == Len(th.ci) + 1
           t == T(z)
           r == [a |-> "C", t |-> t, at |-> l, back |-> FALSE, status |-> "OK"]
           w == Stacked(On(z, u), r)
           q == Last(z.C)
<1>1. /\ Stacks(z.L, z.C, Len(z.C), q, t, th) /\ GoodZ(z) /\ IsZ(z) /\ Len(z.C) >= 2 /\ z.err = "none"
      /\ IsThread(th) /\ Slots(th) /\ ~errorstatus(th.status)
      /\ Len(th.ci) \in Nat /\ Len(th.ci) >= 1 /\ t = q.t /\ t \in Threads /\ l \in Nat /\ l \in Places
  <2>1. /\ Stacks(z.L, z.C, Len(z.C), q, t, th) /\ GoodZ(z) /\ IsZ(z) /\ Len(z.C) >= 2 /\ z.err = "none"
        /\ IsThread(th) /\ Slots(th) /\ ~errorstatus(th.status)
        /\ Len(th.ci) \in Nat /\ Len(th.ci) >= 1 /\ t = q.t /\ t \in Threads
    BY CalledStacks
  <2> HIDE DEF th, t, q
  <2>2. l \in Nat /\ l # 0
    BY <2>1
  <2>3. QED
    BY <2>1, <2>2 DEF Places
<1>2. /\ IsThread(u) /\ Slots(u) /\ Rest6(u, th) /\ Len(u.ci) = l
      /\ (\A i \in 1..Len(th.ci) : u.ci[i] = th.ci[i])
      /\ ~u.ci[l].lua /\ ~u.ci[l].yp /\ u.stack = th.stack
      /\ Ci(u).func = func /\ Ci(u).top = Len(th.stack) + LUA_MINSTACK /\ ~Ci(u).yp
  <2> HIDE DEF th
  <2>1. func \in Nat /\ func >= 2 /\ func <= Len(th.stack) /\ nres \in {-1, 0, 1, 2} /\ Room(th, LUA_MINSTACK)
    BY DEF CanCall, th
  <2>2. IsCFrame(u, th, func)
    BY <1>1, <2>1, CFrame
  <2> HIDE DEF u
  <2>3. QED
    BY <2>2 DEF IsCFrame
<1>3. \/ q.a \in Callers \cup {"resume"} /\ q.at = Len(th.ci)
      \/ q.a = "exec" /\ InExec(q, Len(th.ci), th)
  BY DEF CanCall
<1>4. func <= Len(th.stack) /\ func \in Nat /\ Len(th.stack) \in Nat
  BY <1>1, ThreadIs DEF CanCall
<1> HIDE DEF q, th, t, l, u
<1>6. r \in Record /\ r.a = "C" /\ r.t = t /\ r.at = l /\ ~r.back /\ r.status = "OK"
  BY <1>1 DEF Record, Statuses
<1> HIDE DEF r
<1>7. Framed(u, th, q, r)
  BY <1>1, <1>2, <1>3, <1>6 DEF Framed, l
<1>8. Enters(u, z.L, z.C, r)
  BY <1>1, <1>7, FrameEnters
<1>9. GoodZ(w) /\ Th(w) = u /\ Last(w.C) = r /\ w.err = "none"
  <2>1. r.t = T(z)
    BY <1>6 DEF t
  <2>2. IsStacked(w, z, u, r)
    BY <1>1, <1>8, <2>1, StackedHas
  <2> HIDE DEF w
  <2>3. QED
    BY <1>1, <2>2 DEF IsStacked
<1>10. AtRest(r, u)
  <2>1. ~errorstatus(r.status)
    BY <1>6 DEF errorstatus
  <2>2. r.at = Len(u.ci) /\ ~Ci(u).yp /\ Ci(u).func <= Len(u.stack) /\ Len(u.stack) + LUA_MINSTACK <= Ci(u).top
    <3>1. Len(th.stack) + LUA_MINSTACK \in Nat
      BY <1>4, Sizes
    <3>2. QED
      BY <1>2, <1>4, <1>6, <3>1
  <2>3. QED
    BY <1>6, <2>1, <2>2 DEF AtRest
<1>11. RestZ(w)
  BY <1>9, <1>10 DEF RestZ
<1>12. QED
  BY <1>11 DEF w, u, r, th, t, l
\* A Lua function that luaV_execute goes on with.
LEMMA LuaPushed ==
  ASSUME NEW z, NEW func, NEW nres, CanCall(z, func, nres, FALSE), Room(Th(z), FrameSize)
  PROVE  RestZ(On(z, luaframe(Th(z), func, nres, FALSE)))
<1> DEFINE th == Th(z)
           u == luaframe(th, func, nres, FALSE)
           l == Len(th.ci)
           t == T(z)
           D == z.C
           M == z.L
           n == Len(D)
           q == Last(D)
           w == On(z, u)
           N == Moved(M, t, u)
<1>1. /\ Stacks(M, D, n, q, t, th) /\ GoodZ(z) /\ IsZ(z) /\ n >= 2 /\ z.err = "none"
      /\ IsThread(th) /\ Slots(th) /\ ~errorstatus(th.status)
      /\ l \in Nat /\ l >= 1 /\ t = q.t /\ t \in Threads
  BY CalledStacks
<1>2. /\ IsThread(u) /\ Slots(u) /\ Rest6(u, th) /\ Len(u.ci) = l + 1
      /\ (\A i \in 1..l : u.ci[i] = th.ci[i])
      /\ u.ci[l + 1].lua /\ u.ci[l + 1].fresh = FALSE /\ ~u.ci[l + 1].yp
  <2> HIDE DEF th
  <2>1. func \in Nat /\ func >= 2 /\ func <= Len(th.stack) /\ nres \in {-1, 0, 1, 2} /\ Room(th, FrameSize)
    BY DEF CanCall, th
  <2>2. FALSE \in BOOLEAN
    OBVIOUS
  <2>3. IsLuaFrame(u, th, FALSE)
    BY <1>1, <2>1, <2>2, LuaFrame
  <2> HIDE DEF u
  <2>4. QED
    BY <2>3 DEF IsLuaFrame
<1>3. q.a = "exec" /\ InExec(q, l, th)
  BY DEF CanCall
<1> HIDE DEF u
<1>4. IsZ(w) /\ w.L = N /\ w.C = D /\ w.err = "none" /\ Th(w) = u
  <2>1. IsZ(w) /\ w.L = N /\ w.C = D /\ w.err = "none"
    BY <1>1, OnIs DEF Moved
  <2> HIDE DEF N
  <2>2. QED
    BY <1>1, <2>1, OnTh
<1> HIDE DEF th, l, t, D, M, n, q, w, N
<1>5. /\ Good(M, D) /\ n = Len(D) /\ q = D[n] /\ th = M[t] /\ n \in Nat /\ n \in 1..n /\ D \in Seq(Record)
      /\ th.status = "OK" /\ th.nny = Ny(D, t, n) + MainNy(t) /\ th.nCcalls = Calling(D, n)
      /\ q.at \in Nat /\ q.at >= 1 /\ q.at <= l /\ D[n].t = t
  BY <1>1 DEF Stacks, l
<1>6. Below(u, th, q)
  <2>1. \A i \in 1..q.at : i \in 1..l
    BY <1>1, <1>5
  <2>2. \A i \in 1..l : Agree(th.ci[i], th.ci[i])
    BY <1>1, SameIs DEF Same, l
  <2>3. \A i \in 1..q.at : Agree(u.ci[i], th.ci[i])
    BY <1>2, <2>1, <2>2
  <2>4. q.at <= Len(u.ci)
    BY <1>1, <1>2, <1>5
  <2>5. QED
    BY <2>3, <2>4 DEF Below
<1>7. u.status = "OK" /\ u.nny = th.nny /\ u.nCcalls = th.nCcalls
  BY <1>2, <1>5 DEF Rest6
<1>8. ASSUME NEW i \in (q.at + 1)..Len(u.ci) PROVE ContinuedAt(u, D, t, i)
  <2>1. i \in 2..Len(u.ci) /\ (i = l + 1 \/ (i \in 1..l /\ i \in q.at..l))
    BY <1>1, <1>2, <1>5
  <2>2. u.ci[i].lua
    BY <1>2, <1>3, <2>1 DEF InExec
  <2>3. QED
    BY <1>2, <1>7, <2>1, <2>2, LuaContinued DEF errorstatus
<1>9. Remains(u, M, D, n, D)
  BY <1>2, <1>3, <1>5, <1>6, <1>7, <1>8 DEF Remains
<1>10. Good(N, D)
  <2>1. Beginning(D, D, n)
    BY <1>5, Whole DEF n
  <2>2. \A i \in (n + 1)..Len(D) : D[i].t = D[n].t
    BY <1>5
  <2>3. N = Moved(M, D[n].t, u)
    BY <1>5 DEF N
  <2>4. QED
    BY <1>5, <1>9, <2>1, <2>2, <2>3, CutGood
<1>11. AtRest(q, u)
  <2>1. ASSUME NEW i \in q.at..Len(u.ci) PROVE u.ci[i].lua /\ (u.ci[i].fresh <=> i = q.at)
    <3>1. CASE i = l + 1
      <4>1. i # q.at
        BY <1>1, <1>5, <3>1
      <4>2. QED
        BY <1>2, <3>1, <4>1
    <3>2. CASE i # l + 1
      <4>1. i \in 1..l /\ i \in q.at..l
        BY <1>1, <1>2, <1>5, <3>2
      <4>2. QED
        BY <1>2, <1>3, <4>1 DEF InExec
    <3>3. QED
      BY <3>1, <3>2
  <2>2. InExec(q, Len(u.ci), u)
    BY <2>1 DEF InExec
  <2>3. QED
    BY <1>3, <2>2 DEF AtRest
<1>12. RestZ(w)
  <2>1. Last(D) = q
    BY DEF q
  <2>2. QED
    BY <1>4, <1>10, <1>11, <2>1 DEF RestZ, GoodZ
<1>13. QED
  BY <1>12 DEF w, u, th
LEMMA PrecallOutcome ==
  ASSUME NEW z, NEW func, NEW nres, NEW fresh, CanCall(z, func, nres, fresh)
  PROVE  GrowsTo(z, luaD_precall(z, func, nres, fresh))
<1> DEFINE y == luaD_precall(z, func, nres, fresh)
<1>1. CASE IsLua(Th(z).stack[func]) /\ Room(Th(z), FrameSize) /\ fresh
  <2>1. y = Started(On(z, luaframe(Th(z), func, nres, TRUE)))
    BY <1>1 DEF luaD_precall
  <2>2. CanCall(z, func, nres, TRUE)
    BY <1>1 DEF CanCall
  <2>3. QED
    BY <1>1, <2>1, <2>2, LuaCalled DEF GrowsTo
<1>2. CASE IsLua(Th(z).stack[func]) /\ Room(Th(z), FrameSize) /\ ~fresh
  <2>1. y = On(z, luaframe(Th(z), func, nres, FALSE))
    BY <1>2 DEF luaD_precall
  <2>2. CanCall(z, func, nres, FALSE)
    BY <1>2 DEF CanCall
  <2>3. QED
    BY <1>2, <2>1, <2>2, LuaPushed DEF GrowsTo
<1>3. CASE ~IsLua(Th(z).stack[func]) /\ Room(Th(z), LUA_MINSTACK)
  <2>1. y = Stacked(On(z, cframe(Th(z), func, nres)),
                 [a |-> "C", t |-> T(z), at |-> Len(Th(z).ci) + 1, back |-> FALSE, status |-> "OK"])
    BY <1>3 DEF luaD_precall
  <2>2. RestZ(Stacked(On(z, cframe(Th(z), func, nres)),
                 [a |-> "C", t |-> T(z), at |-> Len(Th(z).ci) + 1, back |-> FALSE, status |-> "OK"]))
    BY <1>3, CCalled
  <2>3. RestZ(y)
    BY <2>1, <2>2
  <2> HIDE DEF y
  <2>4. QED
    BY <2>3 DEF GrowsTo, y
<1>4. CASE /\ ~(IsLua(Th(z).stack[func]) /\ Room(Th(z), FrameSize))
           /\ ~(~IsLua(Th(z).stack[func]) /\ Room(Th(z), LUA_MINSTACK))
  <2>1. y = luaD_growstack(z)
    BY <1>4 DEF luaD_precall
  <2>2. Erring(z)
    <3>1. Len(Th(z).stack) \in Nat
      BY CalledStacks, ThreadIs
    <3>2. QED
      BY <3>1 DEF CanCall, Erring
  <2>3. QED
    BY <2>1, <2>2, GrowOutcome
<1>5. QED
  BY <1>1, <1>2, <1>3, <1>4
\* What becomes of a call in thread th: it is under way, or an error waits, one of a stack
\* that has been enlarged or of as many C calls as there may be.
CallOutcome(th, w) ==
  \/ RestZ(w)
  \/ /\ Waiting(w)
     /\ \/ ~th.big /\ Th(w).big /\ Th(w).nCcalls = th.nCcalls
        \/ Th(w).big = th.big /\ th.nCcalls = LUAI_MAXCCALLS /\ Th(w).nCcalls = th.nCcalls
LEMMA CalledOutcome ==
  ASSUME NEW z, NEW func, NEW nres, CanCall(z, func, nres, TRUE)
  PROVE  CallOutcome(Th(z), called(z, func, nres))
<1> DEFINE e == "C stack overflow"
           w == ZE(z, e)
           y == called(z, func, nres)
           th == Th(z)
<1>1. CASE th.nCcalls = LUAI_MAXCCALLS
  <2>1. y = w
    BY <1>1 DEF called, ZE
  <2>2. /\ GoodZ(z) /\ IsZ(z) /\ Len(z.C) >= 2
    BY CalledStacks
  <2>3. Len(th.stack) >= 1
    <3>1. Len(th.stack) \in Nat
      BY CalledStacks, ThreadIs
    <3>2. QED
      BY <3>1 DEF CanCall
  <2>5. e # "none"
    OBVIOUS
  <2> HIDE DEF e, th
  <2>4. IsZ(w) /\ w.L = z.L /\ w.C = z.C /\ w.err = e
    BY <2>2, ZFields
  <2> HIDE DEF w
  <2>6. GoodZ(w) /\ Th(w) = th
    BY <2>2, <2>4 DEF GoodZ, Th, T, th
  <2>7. Waiting(w)
    BY <2>2, <2>3, <2>4, <2>5, <2>6 DEF Waiting
  <2>8. CallOutcome(th, w)
    BY <1>1, <2>6, <2>7 DEF CallOutcome
  <2>9. QED
    BY <2>1, <2>8 DEF th
<1>2. CASE th.nCcalls # LUAI_MAXCCALLS /\ th.nCcalls >= LUAI_MAXCCALLS + ExtraCCalls
  <2>1. y = luaD_throw(z, "ERRERR")
    BY <1>2 DEF called
  <2>2. RestZ(y)
    BY <2>1, ThrowRest DEF CanCall
  <2>3. QED
    BY <2>2 DEF CallOutcome
<1>3. CASE th.nCcalls # LUAI_MAXCCALLS /\ ~(th.nCcalls >= LUAI_MAXCCALLS + ExtraCCalls)
  <2>1. y = luaD_precall(z, func, nres, TRUE)
    BY <1>3 DEF called
  <2>2. GrowsTo(z, y)
    BY <2>1, PrecallOutcome
  <2> HIDE DEF y
  <2>3. CallOutcome(th, y)
    BY <2>2 DEF GrowsTo, CallOutcome
  <2>4. QED
    BY <2>3 DEF y
<1>4. QED
  BY <1>1, <1>2, <1>3
\* The thread of a call.
Counted(v, r) == [v EXCEPT !.nCcalls = @ + 1, !.nny = IF r.ny THEN @ + 1 ELSE @]
LEMMA CountedIs ==
  ASSUME NEW v, IsThread(v), Slots(v), NEW r, r.ny \in BOOLEAN, NEW u, u = Counted(v, r)
  PROVE  /\ IsThread(u) /\ Slots(u) /\ u.stack = v.stack /\ u.ci = v.ci /\ u.status = v.status /\ u.big = v.big
         /\ u.nCcalls = v.nCcalls + 1 /\ u.nny = v.nny + (IF r.ny THEN 1 ELSE 0)
<1> DEFINE c == v.nCcalls + 1
           n == IF r.ny THEN v.nny + 1 ELSE v.nny
           x == PutCalls(v, c)
<1>1. v.nCcalls \in Int /\ v.nny \in Int /\ c \in Int /\ n \in Int /\ n = v.nny + (IF r.ny THEN 1 ELSE 0)
  BY ThreadIs
<1>2. u = PutNny(x, n)
  BY DEF Counted, PutNny, PutCalls
<1>4. x = PutCalls(v, c)
  OBVIOUS
<1> HIDE DEF c, n, x
<1>3. /\ IsThread(x) /\ x.nCcalls = c /\ x.stack = v.stack /\ x.ci = v.ci /\ x.status = v.status /\ x.big = v.big
      /\ x.nny = v.nny
  BY <1>1, <1>4, SetCalls
<1>5. /\ IsThread(u) /\ u.nny = n /\ u.stack = x.stack /\ u.ci = x.ci /\ u.status = x.status /\ u.big = x.big
      /\ u.nCcalls = x.nCcalls
  <2>1. IsThread(x) /\ n \in Int /\ u = PutNny(x, n)
    BY <1>1, <1>2, <1>3
  <2>2. IsThread(u) /\ u.nny = n
    BY <2>1, SetNny
  <2>3. u.stack = x.stack /\ u.ci = x.ci
    BY <2>1, SetNny
  <2>4. u.status = x.status /\ u.big = x.big /\ u.nCcalls = x.nCcalls
    BY <2>1, SetNny
  <2>5. QED
    BY <2>2, <2>3, <2>4
<1>6. Slots(u)
  BY <1>3, <1>5 DEF Slots, lim
<1>7. QED
  BY <1>1, <1>3, <1>5, <1>6 DEF c
\* A record of luaD_call follows.
Caller(v, th, q, r, D, n) ==
  /\ r \in Record /\ r.a \in Callers /\ r.t = q.t /\ r.at = Len(v.ci) /\ IsThread(v) /\ Slots(v)
  /\ v.status = th.status /\ v.nny = th.nny /\ v.nCcalls = th.nCcalls /\ Len(v.ci) = Len(th.ci)
  /\ Below(v, th, q) /\ (\A i \in (q.at + 1)..Len(th.ci) : Agree(v.ci[i], th.ci[i]))
  /\ (q.a = "C" => (v.ci[q.at].yp => r.a = "ypcall" /\ r.at = q.at))
  /\ Linked(q, r, v) /\ Placed(r, v) /\ Saved(r, D, n) /\ (n = 1 => r.a = "pcall" /\ ~q.back)
LEMMA CallerEnters ==
  ASSUME NEW M, NEW D, NEW n, NEW q, NEW t, NEW th, Stacks(M, D, n, q, t, th), NEW v, NEW r,
         Caller(v, th, q, r, D, n)
  PROVE  Enters(Counted(v, r), M, D, r)
<1> DEFINE u == Counted(v, r)
           l == Len(th.ci)
<1>1. /\ Good(M, D) /\ n = Len(D) /\ q = D[n] /\ t = q.t /\ th = M[t] /\ n \in Nat /\ n \in 1..n /\ n >= 1
      /\ D \in Seq(Record) /\ q \in Record /\ t \in Threads /\ IsThread(th) /\ Slots(th) /\ th.status = "OK"
      /\ th.nny = Ny(D, t, n) + MainNy(t) /\ th.nCcalls = Calling(D, n) /\ Placed(q, th)
      /\ l \in Nat /\ l >= 1 /\ q.at \in Nat /\ q.at >= 1 /\ q.at <= l
      /\ \A i \in 2..l : ContinuedAt(th, D, t, i)
  BY DEF Stacks
<1>2. /\ r \in Record /\ r.a \in Callers /\ r.t = t /\ r.at = l /\ IsThread(v) /\ Slots(v)
      /\ v.status = th.status /\ v.nny = th.nny /\ v.nCcalls = th.nCcalls /\ Len(v.ci) = l
      /\ Below(v, th, q) /\ (\A i \in (q.at + 1)..l : Agree(v.ci[i], th.ci[i]))
      /\ (q.a = "C" => (v.ci[q.at].yp => r.a = "ypcall" /\ r.at = q.at))
      /\ Linked(q, r, v) /\ Placed(r, v) /\ Saved(r, D, n) /\ (n = 1 => r.a = "pcall" /\ ~q.back)
  BY <1>1 DEF Caller
<1>3. r.ny \in BOOLEAN /\ (IsNy(r) <=> r.ny) /\ r.a # "resume" /\ r.a # "docall" /\ r.a \notin {"C", "exec"}
      /\ r.a \in Callers \cup {"resume"}
  BY <1>2, RecordIs DEF IsNy, Callers
<1> HIDE DEF l
<1>4. /\ IsThread(u) /\ Slots(u) /\ u.stack = v.stack /\ u.ci = v.ci /\ u.status = v.status /\ u.big = v.big
      /\ u.nCcalls = v.nCcalls + 1 /\ u.nny = v.nny + (IF r.ny THEN 1 ELSE 0)
  BY <1>2, <1>3, CountedIs
<1> HIDE DEF u
<1>5. Follows(r, D)
  BY <1>1, <1>2, <1>3 DEF Follows
<1>6. Below(u, th, q)
  BY <1>2, <1>4 DEF Below
<1>7. Linked(q, r, u)
  BY <1>2, <1>3, <1>4 DEF Linked, InExec
<1>8. Placed(r, u)
  BY <1>2, <1>4 DEF Placed
<1>9. ASSUME NEW i \in 2..Len(u.ci) PROVE i > q.at => ContinuedAt(u, Append(D, r), t, i)
  <2>1. CASE i > q.at
    <3>1. i \in 2..l /\ i \in (q.at + 1)..l /\ i \in Nat
      BY <1>1, <1>2, <1>4, <2>1
    <3>2. Agree(u.ci[i], th.ci[i])
      BY <1>2, <1>4, <3>1
    <3>3. ContinuedAt(u, D, t, i)
      BY <1>1, <1>2, <1>4, <3>1, <3>2 DEF ContinuedAt, Agree
    <3>4. QED
      BY <1>1, <1>2, <1>3, <3>1, <3>3, ContinuedPushed
  <2>2. QED
    BY <2>1
<1>10. /\ u.nny = Ny(D, r.t, n) + MainNy(r.t) + (IF IsNy(r) THEN 1 ELSE 0)
       /\ u.nCcalls = Calling(D, n) + (IF r.a \in Callers \cup {"resume"} THEN 1 ELSE 0)
  BY <1>1, <1>2, <1>3, <1>4
<1>11. u.status = "OK" /\ (q.a = "C" => (u.ci[q.at].yp => r.a = "ypcall" /\ r.at = q.at))
  BY <1>1, <1>2, <1>4
<1>12. QED
  BY <1>1, <1>2, <1>3, <1>4, <1>5, <1>6, <1>7, <1>8, <1>9, <1>10, <1>11 DEF Enters, u
LEMMA OnOn ==
  ASSUME NEW z, GoodZ(z), NEW a, NEW b
  PROVE  On(On(z, a), b) = On(z, b)
<1> DEFINE t == T(z)
           v == On(z, a)
           w == On(v, b)
           x == On(z, b)
<1>1. IsZ(z) /\ t \in Threads /\ z.L = [s \in Threads |-> z.L[s]]
  BY ZIs DEF GoodZ
<1>2. IsZ(v) /\ v.L = [z.L EXCEPT ![t] = a] /\ v.C = z.C /\ v.err = z.err /\ T(v) = t
  BY <1>1, OnIs
<1>3. IsZ(w) /\ w.L = [v.L EXCEPT ![T(v)] = b] /\ w.C = v.C /\ w.err = v.err
  BY <1>2, OnIs
<1>4. IsZ(x) /\ x.L = [z.L EXCEPT ![t] = b] /\ x.C = z.C /\ x.err = z.err
  BY <1>1, OnIs
<1> HIDE DEF t, v, w, x
<1>5. w.L = x.L
  BY <1>1, <1>2, <1>3, <1>4
<1>6. w.C = x.C /\ w.err = x.err
  BY <1>2, <1>3, <1>4
<1>7. w = x
  BY <1>3, <1>4, <1>5, <1>6 DEF IsZ
<1>8. QED
  BY <1>7 DEF w, x, v
\* A call by luaD_call.
LEMMA CallStarts ==
  ASSUME NEW z, GoodZ(z), z.err = "none", NEW v, NEW r, Caller(v, Th(z), Last(z.C), r, z.C, Len(z.C)),
         NEW func \in Nat, func >= 2, func <= Len(v.stack), NEW nres \in {-1, 0, 1, 2}
  PROVE  CallOutcome(Counted(v, r), luaD_call(On(z, v), r, func, nres))
<1> DEFINE u == Counted(v, r)
           x == On(z, v)
           w == Stacked(On(z, u), r)
           y == luaD_call(x, r, func, nres)
<1>1. Stacks(z.L, z.C, Len(z.C), Last(z.C), T(z), Th(z))
  BY StacksIs
<1>2. Enters(u, z.L, z.C, r) /\ r.t = T(z)
  <2>1. r.t = T(z)
    BY <1>1 DEF Stacks, Caller
  <2>2. QED
    BY <1>1, <2>1, CallerEnters
<1>3. IsStacked(w, z, u, r)
  BY <1>2, StackedHas
<1>4. Th(x) = v
  BY OnTh
<1>5. Entered(x, r) = w
  <2>1. Entered(x, r) = Stacked(On(x, u), r)
    BY <1>4 DEF Entered, Counted
  <2>2. On(x, u) = On(z, u)
    BY OnOn
  <2>3. QED
    BY <2>1, <2>2
<1>6. y = called(w, func, nres)
  BY <1>5 DEF luaD_call
<1>7. IsThread(v) /\ Slots(v) /\ r.ny \in BOOLEAN /\ r.a \in Callers /\ r.at = Len(v.ci)
  BY RecordIs DEF Caller
<1>8. u.ci = v.ci /\ u.stack = v.stack
  <2>1. u = Counted(v, r)
    OBVIOUS
  <2> HIDE DEF u
  <2>2. QED
    BY <1>7, <2>1, CountedIs
<1> HIDE DEF u, x, w, y
<1>9. GoodZ(w) /\ Th(w) = u /\ Last(w.C) = r /\ w.err = "none" /\ Len(w.C) >= 2
  <2>1. Len(z.C) >= 1 /\ Len(z.C) \in Nat
    BY ZIs
  <2>2. QED
    BY <1>3, <2>1 DEF IsStacked
<1>10. CanCall(w, func, nres, TRUE)
  BY <1>7, <1>8, <1>9 DEF CanCall, Throwing
<1>11. CallOutcome(u, y)
  BY <1>6, <1>9, <1>10, CalledOutcome
<1>12. QED
  BY <1>11 DEF u, x, y
\* The message handler is called.
ErrOutcome(th, w) ==
  \/ RestZ(w)
  \/ /\ Waiting(w)
     /\ \/ ~th.big /\ Th(w).big /\ Th(w).nCcalls = th.nCcalls + 1
        \/ Th(w).big = th.big /\ th.nCcalls + 1 = LUAI_MAXCCALLS /\ Th(w).nCcalls = LUAI_MAXCCALLS
LEMMA ErrormsgOutcome ==
  ASSUME NEW z, Throwing(z), Len(Th(z).stack) >= 2, Len(Th(z).stack) <= lim(Th(z)) + 2
  PROVE  ErrOutcome(Th(z), luaG_errormsg(z))
<1> DEFINE th == Th(z)
           top == Len(th.stack)
           q == Last(z.C)
           n == Len(z.C)
           b == [th.stack EXCEPT ![top] = th.stack[th.errfunc]]
           s == Append(b, Last(th.stack))
           v == PutStack(th, s)
           r == Rec("errormsg", z, TRUE)
           u == Counted(v, r)
           y == luaG_errormsg(z)
<1>1. GoodZ(z) /\ z.err = "none" /\ n >= 2
  BY DEF Throwing
<1>2. CASE th.errfunc = 0
  <2>1. y = luaD_throw(z, "ERRRUN")
    BY <1>2 DEF luaG_errormsg
  <2>2. RestZ(y)
    BY <2>1, ThrowRest
  <2>3. QED
    BY <2>2 DEF ErrOutcome
<1>3. CASE th.errfunc # 0
  <2>1. Stacks(z.L, z.C, n, q, T(z), th)
    BY <1>1, StacksIs
  <2>2. /\ IsThread(th) /\ Slots(th) /\ top \in Nat /\ T(z) \in Threads /\ Len(th.ci) \in Nat /\ Len(th.ci) >= 1
        /\ q \in Record /\ q.at \in Nat /\ q.at <= Len(th.ci) /\ T(z) = q.t /\ lim(th) \in Nat /\ SeqIs(th.stack)
    BY <2>1, ThreadIs, LimIs DEF Stacks
  <2>3. y = luaD_call(On(z, v), r, top, 1)
    BY <1>3 DEF luaG_errormsg, PutStack
  <2>4. SeqIs(s) /\ Len(s) = top + 1
    <3>1. SeqIs(b) /\ Len(b) = top
      BY <2>2, Replaced
    <3> HIDE DEF b, top
    <3>2. QED
      BY <3>1, Appended
  <2>5. r \in Record /\ r.a = "errormsg" /\ r.t = T(z) /\ r.at = Len(th.ci) /\ r.ny = TRUE
    BY <2>2 DEF Rec, Record, Places
  <2> HIDE DEF s, r
  <2>6. v = PutStack(th, s) /\ Len(s) <= lim(th) + 3
    BY <2>2, <2>4
  <2> HIDE DEF v, th, q, n
  <2>7. IsThread(v) /\ Slots(v) /\ v.stack = s /\ v.ci = th.ci /\ Rest6(v, th)
    BY <2>2, <2>4, <2>6, StackChanged
  <2>8. Caller(v, th, q, r, z.C, n)
    <3>1. \A i \in 1..Len(th.ci) : Agree(v.ci[i], th.ci[i])
      BY <2>2, <2>7, SameIs DEF Same
    <3>2. Below(v, th, q)
      <4>1. \A i \in 1..q.at : i \in 1..Len(th.ci)
        BY <2>2
      <4>2. QED
        BY <2>2, <2>7, <3>1, <4>1 DEF Below
    <3>3. \A i \in (q.at + 1)..Len(th.ci) : Agree(v.ci[i], th.ci[i])
      <4>1. \A i \in (q.at + 1)..Len(th.ci) : i \in 1..Len(th.ci)
        BY <2>2
      <4>2. QED
        BY <3>1, <4>1
    <3>4. q.a = "C" => ~v.ci[q.at].yp
      BY <1>1, <2>7, LastC DEF th, q
    <3>5. Linked(q, r, v) /\ Saved(r, z.C, n)
      BY <2>5 DEF Linked, Saved, Free
    <3>6. Placed(r, v)
      BY <2>2, <2>5, <2>7 DEF Placed, Free
    <3>7. n # 1
      <4>1. n \in Nat
        BY <2>1 DEF Stacks
      <4>2. \A k \in Nat : k >= 2 => k # 1
        OBVIOUS
      <4>3. QED
        BY <1>1, <4>1, <4>2
    <3>8. r.a \in Callers
      BY <2>5 DEF Callers
    <3>9. QED
      BY <2>2, <2>5, <2>7, <3>2, <3>3, <3>4, <3>5, <3>6, <3>7, <3>8 DEF Caller, Rest6
  <2>9. top >= 2 /\ top <= Len(v.stack) /\ 1 \in {-1, 0, 1, 2}
    BY <2>2, <2>4, <2>7 DEF th
  <2>10. CallOutcome(u, y)
    <3> HIDE DEF y, top
    <3>1. Caller(v, Th(z), Last(z.C), r, z.C, Len(z.C)) /\ top \in Nat
      BY <2>2, <2>8 DEF th, q, n
    <3>2. QED
      BY <1>1, <2>3, <2>9, <3>1, CallStarts
  <2>11. u.big = th.big /\ u.nCcalls = th.nCcalls + 1
    <3>1. u = Counted(v, r) /\ r.ny \in BOOLEAN
      BY <2>5
    <3> HIDE DEF u
    <3>2. u.big = v.big /\ u.nCcalls = v.nCcalls + 1
      BY <2>7, <3>1, CountedIs
    <3>3. QED
      BY <2>7, <3>2 DEF Rest6
  <2> HIDE DEF u, y
  <2>12. ErrOutcome(th, y)
    BY <2>10, <2>11 DEF CallOutcome, ErrOutcome
  <2>13. QED
    BY <2>12 DEF th, y
<1>4. QED
  BY <1>2, <1>3
\* What becomes of luaG_runerror in thread th.
RunOutcome(th, w) ==
  \/ RestZ(w)
  \/ /\ Waiting(w)
     /\ \/ ~th.big /\ Th(w).big /\ Th(w).nCcalls >= th.nCcalls
        \/ Th(w).big = th.big /\ th.nCcalls + 1 = LUAI_MAXCCALLS /\ Th(w).nCcalls = LUAI_MAXCCALLS
LEMMA RunErrorOutcome ==
  ASSUME NEW z, Erring(z), NEW msg
  PROVE  RunOutcome(Th(z), luaG_runerror(z, msg))
<1> DEFINE th == Th(z)
           u == Push(th, msg)
           v == On(z, u)
           y == luaG_runerror(z, msg)
<1>1. GoodZ(z) /\ Throwing(z) /\ Len(z.C) >= 2 /\ z.err = "none" /\ Len(th.stack) >= 1
  BY DEF Erring, Throwing
<1>2. IsThread(th) /\ Slots(th) /\ Len(th.stack) \in Nat /\ lim(th) \in Nat /\ th.nCcalls \in Int
  BY <1>1, ZIs, ThreadIs, LimIs
<1>3. CASE ~Room(th, 1)
  <2>1. y = luaD_growstack(z)
    BY <1>3 DEF luaG_runerror
  <2>2. GrowsTo(z, y)
    BY <2>1, GrowOutcome
  <2> HIDE DEF y
  <2>3. QED
    BY <1>2, <2>2 DEF GrowsTo, RunOutcome, y
<1>4. CASE Room(th, 1)
  <2>1. y = luaG_errormsg(v)
    BY <1>4 DEF luaG_runerror
  <2> HIDE DEF th, y
  <2>2. Len(th.stack) + 1 <= lim(th)
    BY <1>2, <1>4, RoomIs
  <2>3. /\ IsThread(u) /\ Len(u.stack) = Len(th.stack) + 1 /\ u.ci = th.ci /\ Rest6(u, th)
    BY <1>2, Pushed
  <2> HIDE DEF u
  <2>4. lim(u) = lim(th) /\ Slots(u)
    <3>1. lim(u) = lim(th)
      BY <2>3 DEF lim, Rest6
    <3>2. Len(u.stack) <= lim(u) + 3
      BY <1>2, <2>2, <2>3, <3>1
    <3>3. QED
      BY <1>2, <2>3, <3>1, <3>2 DEF Slots, Rest6
  <2>5. Restacked(u, th)
    BY <2>3, <2>4 DEF Restacked, Rest6
  <2>6. GoodZ(v) /\ Th(v) = u /\ v.C = z.C /\ v.err = z.err
    BY <1>1, <2>5, RestackedGood DEF th
  <2> HIDE DEF v
  <2>7. Throwing(v) /\ Len(Th(v).stack) >= 2 /\ Len(Th(v).stack) <= lim(Th(v)) + 2
    <3>1. Throwing(v)
      BY <1>1, <2>6 DEF Throwing
    <3>2. Len(u.stack) >= 2 /\ Len(u.stack) <= lim(u) + 2
      BY <1>1, <1>2, <2>2, <2>3, <2>4
    <3>3. QED
      BY <2>6, <3>1, <3>2
  <2>8. ErrOutcome(u, y)
    BY <2>1, <2>6, <2>7, ErrormsgOutcome
  <2>9. u.big = th.big /\ u.nCcalls = th.nCcalls
    BY <2>3 DEF Rest6
  <2>10. RunOutcome(th, y)
    BY <1>2, <2>8, <2>9 DEF ErrOutcome, RunOutcome
  <2>11. QED
    BY <2>10 DEF th, y
<1>5. QED
  BY <1>3, <1>4
\* What an operation leaves: nothing under way, or an error which leaves one of the two
\* reserves used.
Outcome(z) == RestZ(z) \/ (Waiting(z) /\ (Th(z).big \/ Full(Th(z))))
LEMMA RaisedIs ==
  ASSUME NEW z, Waiting(z)
  PROVE  RunOutcome(Th(z), raised(z)) /\ Th(z).nCcalls \in Int /\ Th(z).big \in BOOLEAN
<1> DEFINE v == ZE(z, "none")
<1>1. GoodZ(z) /\ IsZ(z) /\ z.err # "none" /\ Len(z.C) >= 2 /\ Len(Th(z).stack) >= 1
  BY DEF Waiting, GoodZ
<1>2. raised(z) = luaG_runerror(v, z.err)
  BY <1>1 DEF raised, ZE
<1>3. IsZ(v) /\ v.L = z.L /\ v.C = z.C /\ v.err = "none"
  <2> DEFINE e == "none"
             x == ZE(z, e)
  <2> HIDE DEF e
  <2>1. IsZ(x) /\ x.L = z.L /\ x.C = z.C /\ x.err = e
    BY <1>1, ZFields
  <2>2. QED
    BY <2>1 DEF e
<1> HIDE DEF v
<1>4. GoodZ(v) /\ Th(v) = Th(z)
  BY <1>1, <1>3 DEF GoodZ, Th, T
<1>5. Erring(v)
  BY <1>1, <1>3, <1>4 DEF Erring, Throwing
<1>6. RunOutcome(Th(v), luaG_runerror(v, z.err))
  BY <1>5, RunErrorOutcome
<1>7. Th(z).nCcalls \in Int /\ Th(z).big \in BOOLEAN
  BY <1>1, ZIs, ThreadIs
<1>8. QED
  BY <1>2, <1>4, <1>6, <1>7
Exhausted(z) == Waiting(z) /\ Th(z).big /\ Full(Th(z))
LEMMA RestRaised ==
  ASSUME NEW z, RestZ(z)
  PROVE  raised(z) = z
BY DEF raised, RestZ
LEMMA RaisedOnce ==
  ASSUME NEW z, Outcome(z)
  PROVE  RestZ(raised(z)) \/ Exhausted(raised(z))
<1>1. CASE RestZ(z)
  BY <1>1, RestRaised
<1>2. CASE Waiting(z) /\ (Th(z).big \/ Full(Th(z)))
  <2> DEFINE y == raised(z)
             th == Th(z)
  <2>1. RunOutcome(th, y) /\ th.nCcalls \in Int /\ th.big \in BOOLEAN
    BY <1>2, RaisedIs
  <2>2. th.big \/ Full(th)
    BY <1>2
  <2> HIDE DEF y, th
  <2>3. LUAI_MAXCCALLS \in Nat
    BY Sizes
  <2>4. ASSUME Waiting(y) PROVE Th(y).nCcalls \in Int
    BY <2>4, ZIs, ThreadIs DEF Waiting
  <2>5. ASSUME ~RestZ(y) PROVE Exhausted(y)
    <3>1. Waiting(y)
      BY <2>1, <2>5 DEF RunOutcome
    <3>2. CASE ~th.big /\ Th(y).big /\ Th(y).nCcalls >= th.nCcalls
      BY <2>1, <2>2, <2>3, <2>4, <3>1, <3>2 DEF Full, Exhausted
    <3>3. CASE Th(y).big = th.big /\ th.nCcalls + 1 = LUAI_MAXCCALLS /\ Th(y).nCcalls = LUAI_MAXCCALLS
      BY <2>1, <2>2, <2>3, <2>4, <3>1, <3>3 DEF Full, Exhausted
    <3>4. QED
      BY <2>1, <2>5, <3>2, <3>3 DEF RunOutcome
  <2>6. QED
    BY <2>5 DEF y
<1>3. QED
  BY <1>1, <1>2 DEF Outcome
LEMMA RaisedTwice ==
  ASSUME NEW z, Exhausted(z)
  PROVE  RestZ(raised(z))
<1> DEFINE y == raised(z)
           th == Th(z)
<1>1. RunOutcome(th, y) /\ th.nCcalls \in Int /\ th.big \in BOOLEAN
  BY RaisedIs DEF Exhausted
<1>2. th.big /\ Full(th)
  BY DEF Exhausted
<1> HIDE DEF y, th
<1>3. LUAI_MAXCCALLS \in Nat
  BY Sizes
<1>4. th.nCcalls + 1 # LUAI_MAXCCALLS
  BY <1>1, <1>2, <1>3 DEF Full
<1>5. RestZ(y)
  BY <1>1, <1>2, <1>4 DEF RunOutcome
<1>6. QED
  BY <1>5 DEF y
\* Two errors in a row are the most that a step ends with.
LEMMA StepRest ==
  ASSUME NEW z, Outcome(z)
  PROVE  RestZ(raised(raised(z)))
<1>1. CASE RestZ(raised(z))
  BY <1>1, RestRaised
<1>2. CASE Exhausted(raised(z))
  BY <1>2, RaisedTwice
<1>3. QED
  BY <1>1, <1>2, RaisedOnce
\* The outcomes of all the parts are outcomes.
LEMMA OutcomeIs ==
  ASSUME NEW th, NEW w
  PROVE  CallOutcome(th, w) \/ ErrOutcome(th, w) \/ RunOutcome(th, w) \/ RestZ(w) => Outcome(w)
<1>1. \A x \in Int : x = LUAI_MAXCCALLS => x >= LUAI_MAXCCALLS
  BY Sizes
<1>2. ASSUME Waiting(w), Th(w).nCcalls = LUAI_MAXCCALLS PROVE Full(Th(w))
  BY <1>2, Sizes DEF Full
<1>3. QED
  BY <1>2 DEF CallOutcome, ErrOutcome, RunOutcome, Outcome
LEMMA GrownOutcome ==
  ASSUME NEW z, NEW w, GrowsTo(z, w)
  PROVE  Outcome(w)
BY DEF GrowsTo, Outcome
=============================================================================
