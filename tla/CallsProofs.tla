---------------------------- MODULE CallsProofs ----------------------------
(***************************************************************************)
(* Calls: that returns, continuations and lua_resume keep the invariant of *)
(* CallsErrors too, so that every step does, and what follows from it: the *)
(* stacks are large enough, and the counters of ldo.c agree with the calls *)
(* that are active.  This holds for any threads, wrappers, stack sizes and *)
(* limits, and whatever is called, in whatever order.                      *)
(***************************************************************************)
EXTENDS CallsErrors

\* The record before the last one.
IsBefore(q, D, n, r, t, th) ==
  /\ n >= 2 /\ n - 1 \in 1..n /\ q = D[n - 1] /\ q \in Record /\ q.t = t /\ Linked(q, r, th) /\ Placed(q, th)
  /\ q.at \in Nat /\ q.at >= 1 /\ q.at <= r.at /\ (r.a \in {"C", "exec"} => q.at < r.at)
  /\ Ny(D, t, n) = Ny(D, t, n - 1) + (IF IsNy(r) THEN 1 ELSE 0) /\ Ny(D, t, n - 1) \in Nat
  /\ Calling(D, n) = Calling(D, n - 1) + (IF r.a \in Callers \cup {"resume"} THEN 1 ELSE 0)
  /\ Calling(D, n - 1) \in Nat /\ (n = 2 => r.a = "pcall") /\ (q.a = "docall" => n = 2)
LEMMA Before ==
  ASSUME NEW M, NEW D, NEW n, NEW r, NEW t, NEW th, Stacks(M, D, n, r, t, th), r.a \notin {"docall", "resume"}
  PROVE  IsBefore(D[n - 1], D, n, r, t, th)
<1> DEFINE q == D[n - 1]
<1>1. /\ Good(M, D) /\ n = Len(D) /\ r = D[n] /\ t = r.t /\ th = M[t] /\ n \in Nat /\ n >= 1 /\ n \in 1..n
      /\ D \in Seq(Record) /\ Placed(r, th)
  BY DEF Stacks
<1>2. Shape(D) /\ D[1].a = "docall" /\ \A j \in 1..n : D[j] \in Record /\ D[j].at \in Nat /\ D[j].at >= 1
  BY <1>1, GoodIs
<1>3. n # 1
  BY <1>1, <1>2
<1>4. n >= 2 /\ n - 1 \in 1..n /\ n - 1 \in Nat /\ n - 1 < n /\ n - 1 \in 1..(Len(D) - 1) /\ (n - 1) + 1 = n
  BY <1>1, <1>3
<1>5. q.t = t
  <2>1. \A k \in ((n - 1) + 1)..n : D[k].a # "resume"
    <3>1. \A k \in ((n - 1) + 1)..n : k = n
      BY <1>1
    <3>2. QED
      BY <1>1, <3>1
  <2>2. QED
    BY <1>1, <1>2, <1>4, <2>1 DEF Shape, Together
<1>6. Linked(q, r, th)
  <2>1. Linked(D[n - 1], D[(n - 1) + 1], M[D[n - 1].t])
    BY <1>1, <1>4 DEF Good, Links
  <2>2. QED
    BY <1>1, <1>4, <1>5, <2>1
<1>7. Placed(q, th)
  BY <1>1, <1>4, <1>5 DEF Good, Located
<1>8. q.at <= r.at /\ (r.a \in {"C", "exec"} => q.at < r.at)
  BY <1>1, <1>2, <1>4, <1>5 DEF Shape, Order
<1>9. /\ Ny(D, t, n) = Ny(D, t, n - 1) + (IF IsNy(r) THEN 1 ELSE 0) /\ Ny(D, t, n - 1) \in Nat
      /\ Calling(D, n) = Calling(D, n - 1) + (IF r.a \in Callers \cup {"resume"} THEN 1 ELSE 0)
      /\ Calling(D, n - 1) \in Nat
  <2>1. D[n].t = t /\ D[n] = r
    BY <1>1
  <2>2. QED
    BY <1>1, <2>1, NyStep, CallingStep
<1>10. n = 2 => r.a = "pcall"
  BY <1>1, <1>2, <1>4 DEF Shape, Base
<1>11. q.a = "docall" => n = 2
  <2>1. n - 1 >= 2 => n - 1 \in 2..n
    BY <1>1
  <2>2. n - 1 \in 2..n => q.a # "docall"
    BY <1>1, <1>2 DEF Shape, Base
  <2>3. n # 2 => n - 1 >= 2
    BY <1>1, <1>4
  <2>4. QED
    BY <2>1, <2>2, <2>3
<1>12. q \in Record /\ q.at \in Nat /\ q.at >= 1
  BY <1>1, <1>2, <1>4
<1>13. QED
  BY <1>4, <1>5, <1>6, <1>7, <1>8, <1>9, <1>10, <1>11, <1>12 DEF IsBefore
\* A record less, and who is continued.
LEMMA ContinuedPopped ==
  ASSUME NEW D, NEW n \in Nat, n = Len(D), n >= 2, NEW E, Beginning(E, D, n - 1), NEW u, NEW t, NEW i,
         ContinuedAt(u, D, t, i), D[n].a # "ypcall", D[n].a = "C" => D[n].at > i, D[n].at \in Nat, i \in Nat
  PROVE  ContinuedAt(u, E, t, i)
<1>1. Len(E) = n - 1 /\ \A j \in 1..(n - 1) : E[j].a = D[j].a /\ E[j].t = D[j].t /\ E[j].at = D[j].at
  BY DEF Beginning, Alike
<1>2. \A l \in Nat : Has(E, "C", t, l) => Has(D, "C", t, l)
  <2>1. \A j \in 1..(n - 1) : j \in 1..n
    OBVIOUS
  <2>2. QED
    BY <1>1, <2>1 DEF Has
<1>3. Has(D, "C", t, i) => Has(E, "C", t, i)
  <2>1. \A j \in 1..n : j = n \/ j \in 1..(n - 1)
    OBVIOUS
  <2>2. \A j \in 1..n : D[j].a = "C" /\ D[j].t = t /\ D[j].at = i => j # n
    OBVIOUS
  <2>3. QED
    BY <1>1, <2>1, <2>2 DEF Has
<1>4. Has(D, "ypcall", t, i) => Has(E, "ypcall", t, i)
  <2>1. \A j \in 1..n : j = n \/ j \in 1..(n - 1)
    OBVIOUS
  <2>2. QED
    BY <1>1, <2>1 DEF Has
<1>5. \A l \in 2..i : l \in Nat
  OBVIOUS
<1>6. i \in Nat
  OBVIOUS
<1>7. (\A l \in 2..i : ~Has(D, "C", t, l)) => \A l \in 2..i : ~Has(E, "C", t, l)
  BY <1>2, <1>5
<1>8. Has(E, "C", t, i) => Has(D, "C", t, i)
  BY <1>2, <1>6
<1>9. QED
  BY <1>3, <1>4, <1>7, <1>8 DEF ContinuedAt
\* The last record goes, and u is what becomes of its thread.
Pops(u, D, n, q, r, t, th) ==
  /\ IsThread(u) /\ Slots(u) /\ u.status = "OK"
  /\ u.nny = th.nny - (IF IsNy(r) THEN 1 ELSE 0)
  /\ u.nCcalls = th.nCcalls - (IF r.a \in Callers \cup {"resume"} THEN 1 ELSE 0)
  /\ Below(u, th, q) /\ (q.a = "C" => ~u.ci[q.at].yp)
  /\ \/ q.at = Len(u.ci)
     \/ /\ r.a # "ypcall" /\ (r.a = "C" => r.at > Len(u.ci))
        /\ \A i \in (q.at + 1)..Len(u.ci) : ContinuedAt(u, D, t, i)
LEMMA PopGood ==
  ASSUME NEW M, NEW D, NEW n, NEW r, NEW t, NEW th, Stacks(M, D, n, r, t, th), NEW q, IsBefore(q, D, n, r, t, th),
         NEW u, Pops(u, D, n, q, r, t, th), NEW E, Beginning(E, D, n - 1)
  PROVE  Good(Moved(M, t, u), E)
<1>1. /\ Good(M, D) /\ n = Len(D) /\ r = D[n] /\ t = r.t /\ th = M[t] /\ n \in Nat /\ n >= 1 /\ n \in 1..n
      /\ D \in Seq(Record) /\ th.nny = Ny(D, t, n) + MainNy(t) /\ th.nCcalls = Calling(D, n) /\ r.at \in Nat
  BY DEF Stacks
<1>2. /\ n >= 2 /\ n - 1 \in 1..n /\ q = D[n - 1] /\ q.t = t /\ q.at \in Nat /\ q.at >= 1
      /\ Ny(D, t, n) = Ny(D, t, n - 1) + (IF IsNy(r) THEN 1 ELSE 0) /\ Ny(D, t, n - 1) \in Nat
      /\ Calling(D, n) = Calling(D, n - 1) + (IF r.a \in Callers \cup {"resume"} THEN 1 ELSE 0)
      /\ Calling(D, n - 1) \in Nat
  BY DEF IsBefore
<1>3. /\ IsThread(u) /\ Slots(u) /\ u.status = "OK" /\ Below(u, th, q) /\ (q.a = "C" => ~u.ci[q.at].yp)
      /\ u.nny = th.nny - (IF IsNy(r) THEN 1 ELSE 0)
      /\ u.nCcalls = th.nCcalls - (IF r.a \in Callers \cup {"resume"} THEN 1 ELSE 0)
  BY DEF Pops
<1>4. u.nny = Ny(D, t, n - 1) + MainNy(t) /\ u.nCcalls = Calling(D, n - 1)
  <2>1. MainNy(t) \in Nat
    BY DEF MainNy
  <2>2. u.nny = Ny(D, t, n - 1) + MainNy(t)
    BY <1>1, <1>2, <1>3, <2>1
  <2>3. u.nCcalls = Calling(D, n - 1)
    BY <1>1, <1>2, <1>3
  <2>4. QED
    BY <2>2, <2>3
<1>5. Len(u.ci) \in Nat
  BY <1>3, ThreadIs
<1>6. ASSUME NEW i \in (q.at + 1)..Len(u.ci) PROVE ContinuedAt(u, E, t, i)
  <2>1. q.at # Len(u.ci) /\ i \in Nat /\ i <= Len(u.ci)
    BY <1>2, <1>5
  <2>2. /\ r.a # "ypcall" /\ (r.a = "C" => r.at > Len(u.ci)) /\ ContinuedAt(u, D, t, i)
    BY <2>1 DEF Pops
  <2>3. r.a = "C" => r.at > i
    BY <1>1, <1>5, <2>1, <2>2
  <2>4. QED
    BY <1>1, <1>2, <2>1, <2>2, <2>3, ContinuedPopped
<1>7. Remains(u, M, D, n - 1, E)
  BY <1>1, <1>2, <1>3, <1>4, <1>6 DEF Remains
<1>8. \A i \in ((n - 1) + 1)..Len(D) : D[i].t = D[n - 1].t
  <2>1. \A i \in ((n - 1) + 1)..Len(D) : i = n
    BY <1>1
  <2>2. QED
    BY <1>1, <1>2, <2>1
<1>9. Moved(M, t, u) = Moved(M, D[n - 1].t, u) /\ n - 1 \in Nat
  BY <1>1, <1>2
<1> DEFINE m == n - 1
           N == Moved(M, t, u)
<1>10. N = Moved(M, D[m].t, u) /\ Remains(u, M, D, m, E) /\ Beginning(E, D, m)
       /\ \A i \in (m + 1)..Len(D) : D[i].t = D[m].t
  BY <1>7, <1>8, <1>9
<1> HIDE DEF m, N
<1>11. Good(N, E)
  BY <1>1, <1>10, CutGood
<1>12. QED
  BY <1>11 DEF N
\* No record goes, and u is what becomes of the thread of the last one.
Replaces(u, D, r, t, th) ==
  /\ IsThread(u) /\ Slots(u) /\ u.status = "OK" /\ u.nny = th.nny /\ u.nCcalls = th.nCcalls
  /\ Below(u, th, r) /\ (r.a = "C" => ~u.ci[r.at].yp)
  /\ \A i \in (r.at + 1)..Len(u.ci) : ContinuedAt(u, D, t, i)
LEMMA ContinuedAlike ==
  ASSUME NEW D, NEW n \in Nat, n = Len(D), NEW E, Beginning(E, D, n), NEW u, NEW t, NEW i, ContinuedAt(u, D, t, i)
  PROVE  ContinuedAt(u, E, t, i)
<1>1. Len(E) = n /\ \A j \in 1..n : E[j].a = D[j].a /\ E[j].t = D[j].t /\ E[j].at = D[j].at
  BY DEF Beginning, Alike
<1>2. \A a, l : Has(E, a, t, l) <=> Has(D, a, t, l)
  BY <1>1 DEF Has
<1>3. QED
  BY <1>2 DEF ContinuedAt
LEMMA ReplaceGood ==
  ASSUME NEW M, NEW D, NEW n, NEW r, NEW t, NEW th, Stacks(M, D, n, r, t, th),
         NEW u, Replaces(u, D, r, t, th), NEW E, Beginning(E, D, n)
  PROVE  Good(Moved(M, t, u), E)
<1>1. /\ Good(M, D) /\ n = Len(D) /\ r = D[n] /\ t = r.t /\ th = M[t] /\ n \in Nat /\ n >= 1 /\ n \in 1..n
      /\ D \in Seq(Record) /\ th.nny = Ny(D, t, n) + MainNy(t) /\ th.nCcalls = Calling(D, n) /\ r.at \in Nat
  BY DEF Stacks
<1>2. /\ IsThread(u) /\ Slots(u) /\ u.status = "OK" /\ Below(u, th, r) /\ (r.a = "C" => ~u.ci[r.at].yp)
      /\ u.nny = th.nny /\ u.nCcalls = th.nCcalls
      /\ \A i \in (r.at + 1)..Len(u.ci) : ContinuedAt(u, D, t, i)
  BY DEF Replaces
<1>3. ASSUME NEW i \in (r.at + 1)..Len(u.ci) PROVE ContinuedAt(u, E, t, i)
  <2>1. ContinuedAt(u, D, t, i)
    BY <1>2
  <2>2. QED
    BY <1>1, <2>1, ContinuedAlike
<1>4. Remains(u, M, D, n, E)
  BY <1>1, <1>2, <1>3 DEF Remains
<1>5. \A i \in (n + 1)..Len(D) : D[i].t = D[n].t
  BY <1>1
<1> DEFINE N == Moved(M, t, u)
<1>6. N = Moved(M, D[n].t, u)
  BY <1>1
<1> HIDE DEF N
<1>7. Good(N, E)
  BY <1>1, <1>4, <1>5, <1>6, CutGood
<1>8. QED
  BY <1>7 DEF N
IsReplaced(w, z, u) ==
  /\ GoodZ(w) /\ Th(w) = u /\ w.C = z.C /\ w.err = z.err /\ T(w) = T(z) /\ Last(w.C) = Last(z.C)
LEMMA ReplaceZ ==
  ASSUME NEW z, GoodZ(z), NEW u, Replaces(u, z.C, Last(z.C), T(z), Th(z))
  PROVE  IsReplaced(On(z, u), z, u)
<1> DEFINE D == z.C
           M == z.L
           n == Len(D)
           r == Last(D)
           t == T(z)
           th == Th(z)
           w == On(z, u)
<1>1. Stacks(M, D, n, r, t, th)
  BY StacksIs
<1>2. IsZ(z)
  BY DEF GoodZ
<1>3. IsZ(w) /\ w.L = Moved(M, t, u) /\ w.C = D /\ w.err = z.err /\ T(w) = t
  BY <1>2, OnIs DEF Moved
<1>4. Th(w) = u
  BY OnTh
<1>5. Replaces(u, D, r, t, th)
  OBVIOUS
<1> HIDE DEF w, D, M, n, r, t, th
<1>6. Beginning(D, D, n)
  BY <1>1, Whole DEF Stacks
<1>7. Good(Moved(M, t, u), D)
  BY <1>1, <1>5, <1>6, ReplaceGood
<1>8. IsReplaced(w, z, u)
  BY <1>3, <1>4, <1>7 DEF IsReplaced, GoodZ, D, t
<1>9. QED
  BY <1>8 DEF w
IsPop(w, z, u, q) ==
  /\ GoodZ(w) /\ Th(w) = u /\ w.err = z.err /\ T(w) = T(z) /\ Last(w.C) = q /\ Len(w.C) = Len(z.C) - 1
LEMMA PopZ ==
  ASSUME NEW z, GoodZ(z), NEW q, IsBefore(q, z.C, Len(z.C), Last(z.C), T(z), Th(z)),
         NEW u, Pops(u, z.C, Len(z.C), q, Last(z.C), T(z), Th(z))
  PROVE  IsPop(Unstacked(On(z, u)), z, u, q)
<1> DEFINE D == z.C
           M == z.L
           n == Len(D)
           r == Last(D)
           t == T(z)
           th == Th(z)
           v == On(z, u)
           w == Unstacked(v)
           E == Front(D)
           N == Moved(M, t, u)
<1>1. Stacks(M, D, n, r, t, th) /\ IsBefore(q, D, n, r, t, th) /\ Pops(u, D, n, q, r, t, th)
  BY StacksIs
<1>2. IsZ(z) /\ t \in Threads /\ M = [s \in Threads |-> M[s]]
  BY ZIs DEF GoodZ
<1>3. IsZ(v) /\ v.L = N /\ v.C = D /\ v.err = z.err
  BY <1>2, OnIs DEF Moved
<1>4. N[t] = u
  BY <1>2 DEF Moved
<1> HIDE DEF N, v
<1>5. IsZ(w) /\ w.L = N /\ w.C = E /\ w.err = z.err
  BY <1>3, UnstackedIs
<1> HIDE DEF w, D, M, n, r, t, th, E
<1>6. D \in Seq(Record) /\ n = Len(D) /\ n >= 2 /\ q = D[n - 1] /\ q.t = t /\ n \in Nat
  BY <1>1 DEF Stacks, IsBefore
<1>7. Beginning(E, D, n - 1) /\ Last(E) = q
  BY <1>6, FrontRecords DEF E
<1>8. Good(N, E)
  BY <1>1, <1>7, PopGood DEF N
<1>9. T(w) = t /\ Th(w) = u /\ Last(w.C) = q /\ Len(w.C) = n - 1
  BY <1>4, <1>5, <1>6, <1>7 DEF T, Th, Beginning
<1>10. IsPop(w, z, u, q)
  BY <1>5, <1>8, <1>9 DEF IsPop, GoodZ, n, t, D
<1>11. QED
  BY <1>10 DEF w, v
\* The C function that made the call goes on.
IsBack(w, z, u, q) ==
  /\ GoodZ(w) /\ Th(w) = u /\ w.err = z.err /\ T(w) = T(z) /\ Alike(q, Last(w.C)) /\ Last(w.C).back
  /\ Last(w.C).status = "OK"
LEMMA PopBackZ ==
  ASSUME NEW z, GoodZ(z), NEW q, IsBefore(q, z.C, Len(z.C), Last(z.C), T(z), Th(z)), q.a \in {"C", "docall"},
         NEW u, Pops(u, z.C, Len(z.C), q, Last(z.C), T(z), Th(z)), NEW w, IsZ(w),
         w.L = Moved(z.L, T(z), u), w.C = MarkLast(Front(z.C), "OK"), w.err = z.err
  PROVE  IsBack(w, z, u, q)
<1> DEFINE D == z.C
           M == z.L
           n == Len(D)
           r == Last(D)
           t == T(z)
           th == Th(z)
           F == Front(D)
           E == MarkLast(F, "OK")
           N == Moved(M, t, u)
<1>1. Stacks(M, D, n, r, t, th) /\ IsBefore(q, D, n, r, t, th) /\ Pops(u, D, n, q, r, t, th)
  BY StacksIs
<1>2. IsZ(z) /\ t \in Threads /\ M = [s \in Threads |-> M[s]]
  BY ZIs DEF GoodZ
<1>4. N[t] = u
  BY <1>2 DEF Moved
<1> HIDE DEF D, M, n, r, t, th, F, E, N
<1>6. D \in Seq(Record) /\ n = Len(D) /\ n >= 2 /\ q = D[n - 1] /\ q.t = t /\ n \in Nat
  BY <1>1 DEF Stacks, IsBefore
<1>7. Beginning(F, D, n - 1) /\ Last(F) = q
  BY <1>6, FrontRecords DEF F
<1>8. F \in Seq(Record) /\ Len(F) = n - 1 /\ n - 1 >= 1 /\ F[n - 1] = q
  <2>1. F \in Seq(Record) /\ Len(F) = n - 1
    BY <1>7 DEF Beginning
  <2>2. QED
    BY <1>6, <1>7, <2>1 DEF Last
<1>9. /\ E \in Seq(Record) /\ Len(E) = Len(F) /\ \A i \in 1..Len(F) : i < Len(F) => E[i] = F[i]
      /\ Alike(F[Len(F)], E[Len(F)]) /\ E[Len(F)].back /\ E[Len(F)].status = "OK"
  <2>1. "OK" \in Statuses /\ F[Len(F)].a \in {"C", "docall"}
    BY <1>8 DEF Statuses
  <2>2. QED
    BY <1>8, <2>1, Marked DEF E
<1>10. Beginning(E, D, n - 1)
  <2>1. \A i \in 1..(n - 1) : i < n - 1 => E[i] = F[i] /\ F[i] = D[i]
    BY <1>7, <1>8, <1>9 DEF Beginning
  <2>2. \A i \in 1..(n - 1) : i < n - 1 \/ i = n - 1
    BY <1>6
  <2>3. Alike(D[n - 1], E[n - 1])
    BY <1>6, <1>8, <1>9
  <2>4. \A i \in 1..(n - 1) : Alike(D[i], E[i])
    BY <2>1, <2>2, <2>3 DEF Alike
  <2>5. n - 1 \in 1..Len(D)
    BY <1>6
  <2>6. QED
    BY <1>8, <1>9, <2>1, <2>4, <2>5 DEF Beginning
<1>11. Good(N, E)
  BY <1>1, <1>10, PopGood DEF N
<1>12. Last(E) = E[Len(F)] /\ Alike(q, Last(E)) /\ Last(E).back /\ Last(E).status = "OK"
  BY <1>8, <1>9 DEF Last
<1>13. w.L = N /\ w.C = E
  BY DEF N, E, F, D, M, t
<1>14. T(w) = t /\ Th(w) = u
  <2>1. Last(E).t = t
    BY <1>6, <1>12 DEF Alike
  <2>2. QED
    BY <1>4, <1>13, <2>1 DEF T, Th
<1>15. QED
  BY <1>11, <1>12, <1>13, <1>14 DEF IsBack, GoodZ, t
\* A function has returned to the record r of thread th.
Ret(r, th) ==
  /\ r.a \in Callers \cup {"resume", "exec", "unroll"}
  /\ r.a \in Callers \cup {"resume"} => r.at = Len(th.ci)
  /\ r.a = "exec" => InExec(r, Len(th.ci), th)
  /\ r.a = "unroll" => r.status = "YIELD"
  /\ Len(th.stack) <= lim(th) /\ Len(th.stack) >= 1
RetZ(z) == GoodZ(z) /\ z.err = "none" /\ Ret(Last(z.C), Th(z))
\* The instruction is over.
IsCleared(w, th) ==
  /\ IsThread(w) /\ Rest6(w, th) /\ Len(w.stack) <= lim(th) + 3
  /\ w.ci = [th.ci EXCEPT ![Len(th.ci)] = [Ci(th) EXCEPT !.op = "none"]]
LEMMA Cleared ==
  ASSUME NEW th, IsThread(th), Slots(th), ~errorstatus(th.status), NEW w, IsCleared(w, th)
  PROVE  Slots(w) /\ AgreeAll(w, th) /\ lim(w) = lim(th)
<1> DEFINE l == Len(th.ci)
           f == [Ci(th) EXCEPT !.op = "none"]
<1>1. /\ Ci(th).top <= lim(th) /\ FrameFits(l, Ci(th)) /\ l \in Nat /\ l >= 1 /\ Ci(th) = th.ci[l] /\ Ci(th) \in Frame
  BY TopFrame
<1>2. th.ci \in Seq(Frame)
  BY ThreadIs
<1>3. /\ f \in Frame /\ f.func = Ci(th).func /\ f.top = Ci(th).top /\ f.lua = Ci(th).lua /\ f.fresh = Ci(th).fresh
      /\ f.yp = Ci(th).yp /\ f.k = Ci(th).k /\ f.extra = Ci(th).extra
  BY <1>1 DEF Frame
<1>4. w.ci = [th.ci EXCEPT ![l] = f] /\ IsThread(w) /\ Rest6(w, th) /\ Len(w.stack) <= lim(th) + 3
  BY DEF IsCleared
<1> HIDE DEF f, l
<1>5. Len(w.ci) = l /\ w.ci[l] = f /\ \A i \in 1..(l - 1) : w.ci[i] = th.ci[i]
  BY <1>1, <1>2, <1>4 DEF l
<1>6. FrameFits(l, f) /\ f.top <= lim(th)
  BY <1>1, <1>3 DEF FrameFits
<1>7. Agree(f, Ci(th))
  <2>1. Ci(th).top \in Nat
    BY <1>1, FrameIs
  <2>2. QED
    BY <1>3, <2>1 DEF Agree
<1>8. AgreeAll(w, th)
  BY <1>5, <1>7, AgreesIs DEF l
<1>9. Slots(w) /\ lim(w) = lim(th)
  <2>1. \A i \in 1..Len(w.ci) : i \in 1..(l - 1) \/ i = l
    BY <1>1, <1>5
  <2>2. \A i \in 1..(l - 1) : i \in 1..l
    BY <1>1
  <2>3. \A i \in 1..Len(w.ci) : \/ i \in 1..Len(th.ci) /\ w.ci[i] = th.ci[i]
                                \/ FrameFits(i, w.ci[i]) /\ w.ci[i].top <= lim(th)
    BY <1>5, <1>6, <2>1, <2>2 DEF l
  <2>4. ~errorstatus(w.status) /\ w.big = th.big
    BY <1>4 DEF Rest6
  <2>5. QED
    BY <1>4, <2>3, <2>4, SlotsKept
<1>10. QED
  BY <1>8, <1>9
LEMMA AgreeAdjusted ==
  ASSUME NEW th, NEW u, IsThread(u), Slots(u), Rest6(u, th), AgreeAll(u, th), IsThread(th),
         NEW r, r.at \in Nat, r.at >= 1, r.at <= Len(th.ci), r.a # "C"
  PROVE  Adjusted(u, th, r)
<1>1. Len(u.ci) = Len(th.ci) /\ (\A i \in 1..Len(th.ci) : Agree(u.ci[i], th.ci[i])) /\ Len(th.ci) \in Nat
  BY ThreadIs DEF AgreeAll
<1>2. \A i \in 1..r.at : i \in 1..Len(th.ci)
  BY <1>1
<1>3. \A i \in (r.at + 1)..Len(th.ci) : i \in 1..Len(th.ci)
  BY <1>1
<1>4. Below(u, th, r)
  BY <1>1, <1>2 DEF Below
<1>5. QED
  BY <1>1, <1>3, <1>4 DEF Adjusted, Rest6
LEMMA ClearedRest ==
  ASSUME NEW z, GoodZ(z), z.err = "none", Last(z.C).a = "exec", InExec(Last(z.C), Len(Th(z).ci), Th(z)),
         NEW u, IsCleared(u, Th(z))
  PROVE  RestZ(On(z, u))
<1> DEFINE th == Th(z)
           r == Last(z.C)
           w == On(z, u)
<1>1. /\ Stacks(z.L, z.C, Len(z.C), r, T(z), th)
  BY StacksIs
<1> HIDE DEF th, r, w
<1>2. /\ IsThread(th) /\ Slots(th) /\ ~errorstatus(th.status) /\ r.at \in Nat /\ r.at >= 1 /\ r.at <= Len(th.ci)
      /\ Len(th.ci) \in Nat
  BY <1>1 DEF Stacks, errorstatus
<1>3. IsCleared(u, th) /\ r.a = "exec" /\ InExec(r, Len(th.ci), th)
  BY DEF th, r
<1>4. Slots(u) /\ AgreeAll(u, th) /\ IsThread(u) /\ Rest6(u, th)
  BY <1>2, <1>3, Cleared DEF IsCleared
<1>5. Adjusted(u, th, r)
  BY <1>2, <1>3, <1>4, AgreeAdjusted
<1>6. GoodZ(w) /\ Th(w) = u /\ w.err = "none" /\ Last(w.C) = r
  BY <1>5, AdjustedGood DEF th, r, w
<1>7. InExec(r, Len(u.ci), u)
  <2>1. Len(u.ci) = Len(th.ci) /\ \A i \in 1..Len(th.ci) : Agree(u.ci[i], th.ci[i])
    BY <1>4 DEF AgreeAll
  <2>2. \A i \in r.at..Len(th.ci) : i \in 1..Len(th.ci)
    BY <1>2
  <2>3. QED
    BY <1>3, <2>1, <2>2 DEF InExec, Agree
<1>8. RestZ(w)
  BY <1>3, <1>6, <1>7 DEF RestZ, AtRest
<1>9. QED
  BY <1>8 DEF w
\* Back in luaV_execute.
LEMMA ExecContinues ==
  ASSUME NEW z, RetZ(z), Last(z.C).a = "exec"
  PROVE  RestZ(On(z, Refill(Th(z))))
<1> DEFINE th == Th(z)
           u == Refill(th)
<1>1. GoodZ(z) /\ z.err = "none" /\ InExec(Last(z.C), Len(th.ci), th)
  BY DEF RetZ, Ret
<1>2. IsThread(th) /\ Slots(th) /\ ~errorstatus(th.status)
  BY <1>1, ZIs DEF errorstatus
<1>3. Ci(th).top <= lim(th) /\ lim(th) \in Nat /\ Ci(th).top \in Nat
  BY <1>2, TopFrame
<1>4. /\ IsThread(u) /\ Rest6(u, th) /\ Len(u.stack) = Ci(th).top
      /\ u.ci = [th.ci EXCEPT ![Len(th.ci)] = [Ci(th) EXCEPT !.op = "none"]]
  BY <1>2, Refilled
<1> HIDE DEF u, th
<1>5. IsCleared(u, th)
  BY <1>3, <1>4 DEF IsCleared
<1>6. RestZ(On(z, u))
  BY <1>1, <1>5, ClearedRest DEF th
<1>7. QED
  BY <1>6 DEF u, th
\* The end of a coroutine.
LEMMA EndRest ==
  ASSUME NEW z, GoodZ(z), z.err = "none", Len(Th(z).ci) = 1, Len(Th(z).stack) >= 1, Len(Th(z).stack) <= lim(Th(z)),
         NEW j \in 1..Len(z.C), z.C[j].a = "resume", \A i \in j..Len(z.C) : z.C[i].t = z.C[j].t
  PROVE  RestZ(resumed(z, j, gettop(Th(z)), "OK"))
<1> DEFINE D == z.C
           M == z.L
           t == T(z)
           th == Th(z)
           n == gettop(th)
           r == D[j]
           w == Left(th, r, n)
<1>1. /\ IsThread(th) /\ Slots(th) /\ th.status = "OK" /\ ~errorstatus(th.status) /\ Good(M, D) /\ IsZ(z)
      /\ Len(D) \in Nat /\ t = D[Len(D)].t /\ th = M[t] /\ M = [s \in Threads |-> M[s]] /\ t \in Threads
  BY ZIs DEF GoodZ, errorstatus
<1>2. r.t = t
  <2>1. Len(D) \in j..Len(D)
    BY <1>1
  <2>2. QED
    BY <1>1, <2>1
<1>3. r.oldnny = 1 /\ r.nCcalls \in Int /\ r.oldnny \in Int
  <2>1. r \in Record /\ Saved(r, D, j - 1)
    BY <1>1, GoodIs DEF Good, Located
  <2>2. QED
    BY <2>1, RecordIs DEF Saved
<1> HIDE DEF th, t, M, D, r
<1>4. Ci(th).func = 1 /\ Len(th.stack) \in Nat
  BY <1>1, TopFrame DEF th
<1>5. n = Len(th.stack) - 1 /\ n \in Nat /\ n <= Len(th.stack)
  BY <1>4 DEF gettop, th
<1> HIDE DEF n
<1>6. /\ IsThread(w) /\ w.ci = th.ci /\ w.status = th.status /\ w.big = th.big
      /\ Len(w.stack) = Len(th.stack) - n /\ w.nny = r.oldnny
  <2>1. IsThread(th) /\ r.oldnny \in Int /\ r.nCcalls \in Int
    BY <1>1, <1>3
  <2>2. n \in Nat /\ n <= Len(th.stack)
    BY <1>5
  <2>3. QED
    BY <2>1, <2>2, LeftIs
<1>7. Len(w.stack) = 1
  BY <1>4, <1>5, <1>6
<1> HIDE DEF w
<1>8. Rested(w)
  <2>1. Len(w.ci) = 1
    BY <1>6 DEF th
  <2>2. w.status = "OK" /\ w.nny = 1
    BY <1>1, <1>3, <1>6
  <2>3. Asleep(w)
    BY <1>7, <2>1, <2>2 DEF Asleep
  <2>4. \A i \in 2..Len(w.ci) : FALSE
    BY <2>1
  <2>5. QED
    BY <2>2, <2>3, <2>4 DEF Rested
<1>9. Slots(w)
  <2>1. lim(w) = lim(th) /\ lim(th) \in Nat
    BY <1>1, <1>6, LimIs DEF lim
  <2>2. Len(w.stack) <= lim(w) + 3
    BY <1>7, <2>1
  <2>3. QED
    BY <1>1, <1>6, <2>1, <2>2 DEF Slots
<1>10. M = Moved(M, r.t, th)
  BY <1>1, <1>2 DEF Moved
<1>11. Leaving(z, M, D, j, th, n, "OK")
  <2>1. "OK" \in Statuses /\ ~errorstatus("OK")
    BY DEF Statuses, errorstatus
  <2>2. D[j].a = "resume" /\ (\A i \in j..Len(D) : D[i].t = D[j].t) /\ j \in 1..Len(D) /\ z.L = M /\ z.C = D
    BY DEF D, M
  <2>3. QED
    BY <1>1, <1>5, <1>8, <1>9, <1>10, <2>1, <2>2 DEF Leaving, w, r
<1>12. RestZ(resumed(z, j, n, "OK"))
  BY <1>11, LeavingRest
<1>13. QED
  BY <1>12 DEF n, th
\* What unroll starts luaV_execute with.
Reentered(th) == OnCi(luaV_finishOp(th), [Ci(th) EXCEPT !.fresh = TRUE, !.op = "none"])
IsReentered(u, th) ==
  /\ IsThread(u) /\ Slots(u) /\ Rest6(u, th) /\ Len(u.ci) = Len(th.ci) /\ u.ci[Len(th.ci)].lua
  /\ u.ci[Len(th.ci)].fresh
  /\ \A i \in 1..(Len(th.ci) - 1) : Agree(u.ci[i], th.ci[i])
LEMMA ReenteredIs ==
  ASSUME NEW th, IsThread(th), Slots(th), ~errorstatus(th.status), Ci(th).lua, Len(th.ci) >= 2
  PROVE  IsReentered(Reentered(th), th)
<1> DEFINE v == luaV_finishOp(th)
           f == [Ci(th) EXCEPT !.fresh = TRUE, !.op = "none"]
           u == OnCi(v, f)
           l == Len(th.ci)
<1>1. /\ Ci(th).top <= lim(th) /\ FrameFits(l, Ci(th)) /\ l \in Nat /\ l >= 1 /\ Ci(th) = th.ci[l] /\ Ci(th) \in Frame
      /\ lim(th) \in Nat /\ Len(th.stack) \in Nat /\ Ci(th).top \in Nat
  BY TopFrame
<1>2. /\ IsThread(v) /\ Rest6(v, th) /\ (Len(v.stack) <= Len(th.stack) \/ Len(v.stack) = Ci(th).top)
      /\ v.ci = [th.ci EXCEPT ![Len(th.ci)] = [Ci(th) EXCEPT !.op = "none"]]
  BY FinishedOp
<1>3. /\ f \in Frame /\ f.func = Ci(th).func /\ f.top = Ci(th).top /\ f.lua = Ci(th).lua /\ f.fresh = TRUE
      /\ f.yp = Ci(th).yp /\ f.k = Ci(th).k /\ f.extra = Ci(th).extra
  BY <1>1 DEF Frame
<1> HIDE DEF v, f
<1>4. Len(th.stack) <= lim(th) + 3
  BY DEF Slots
<1>5. IsCleared(v, th)
  <2>1. Len(v.stack) \in Nat
    BY <1>2, ThreadIs
  <2>2. Len(v.stack) <= lim(th) + 3
    BY <1>1, <1>2, <1>4, <2>1
  <2>3. QED
    BY <1>2, <2>2 DEF IsCleared
<1>6. Slots(v) /\ AgreeAll(v, th) /\ lim(v) = lim(th)
  BY <1>5, Cleared
<1>7. FrameFits(l, f) /\ f.top <= lim(v)
  BY <1>1, <1>3, <1>6 DEF FrameFits
<1>8. Len(v.ci) = l /\ \A i \in 1..l : Agree(v.ci[i], th.ci[i])
  BY <1>6 DEF AgreeAll
<1> HIDE DEF u, l
<1>9. /\ IsThread(u) /\ Slots(u) /\ Rest6(u, v) /\ Len(u.ci) = Len(v.ci)
      /\ u.ci[Len(v.ci)] = f /\ \A i \in 1..(Len(v.ci) - 1) : u.ci[i] = v.ci[i]
  <2>1. ~errorstatus(v.status) /\ FrameFits(Len(v.ci), f)
    BY <1>2, <1>7, <1>8 DEF Rest6
  <2>2. QED
    BY <1>2, <1>3, <1>6, <1>7, <2>1, FrameChanged DEF u
<1>10. Rest6(u, th)
  BY <1>2, <1>9 DEF Rest6
<1>11. \A i \in 1..(l - 1) : i \in 1..l
  BY <1>1
<1>12. IsReentered(u, th)
  BY <1>3, <1>8, <1>9, <1>10, <1>11 DEF IsReentered, l
<1>13. QED
  BY <1>12 DEF u, v, f, Reentered
LEMMA ReenterEnters ==
  ASSUME NEW M, NEW D, NEW n, NEW q, NEW t, NEW th, Stacks(M, D, n, q, t, th), q.a = "unroll", q.status = "YIELD", n >= 2, NEW u,
         IsReentered(u, th), Len(th.ci) >= 2, NEW r, r = [a |-> "exec", t |-> t, at |-> Len(th.ci)]
  PROVE  Enters(u, M, D, r) /\ AtRest(r, u) /\ r.t = t
<1> DEFINE l == Len(th.ci)
<1>1. /\ Good(M, D) /\ n = Len(D) /\ q = D[n] /\ t = q.t /\ th = M[t] /\ n \in Nat /\ n \in 1..n
      /\ D \in Seq(Record) /\ q \in Record /\ t \in Threads /\ IsThread(th) /\ Slots(th) /\ th.status = "OK"
      /\ th.nny = Ny(D, t, n) + MainNy(t) /\ th.nCcalls = Calling(D, n) /\ Placed(q, th)
      /\ l \in Nat /\ l >= 1 /\ q.at \in Nat /\ q.at >= 1 /\ q.at <= l
      /\ \A i \in 2..l : ContinuedAt(th, D, t, i)
  BY DEF Stacks
<1>2. /\ IsThread(u) /\ Slots(u) /\ Rest6(u, th) /\ Len(u.ci) = l /\ u.ci[l].lua /\ u.ci[l].fresh
      /\ \A i \in 1..(l - 1) : Agree(u.ci[i], th.ci[i])
  BY DEF IsReentered
<1>3. q.at = 1 /\ l >= 2
  BY <1>1 DEF Placed
<1>4. /\ r \in Record /\ r.a = "exec" /\ r.t = t /\ r.at = l
  BY <1>1 DEF Record, Places, l
<1> HIDE DEF l
<1>5. ~IsNy(r) /\ r.a \notin Callers \cup {"resume"} /\ ~Free(r)
  BY <1>4 DEF IsNy, Callers, Free
<1>6. Follows(r, D)
  <2>1. n # 1 /\ q.at <= r.at /\ q.at < r.at
    BY <1>1, <1>3, <1>4
  <2>2. QED
    BY <1>1, <1>4, <2>1 DEF Follows
<1>7. Below(u, th, q)
  <2>1. \A i \in 1..q.at : i \in 1..(l - 1)
    BY <1>1, <1>3
  <2>2. QED
    BY <1>1, <1>2, <2>1 DEF Below
<1>8. Linked(q, r, u) /\ Saved(r, D, n)
  BY <1>4, <1>5 DEF Linked, Saved
<1>9. Placed(r, u)
  BY <1>1, <1>2, <1>3, <1>4, <1>5 DEF Placed
<1>10. u.status = "OK" /\ u.nny = th.nny /\ u.nCcalls = th.nCcalls
  BY <1>1, <1>2 DEF Rest6
<1>11. ASSUME NEW i \in 2..Len(u.ci) PROVE ContinuedAt(u, Append(D, r), t, i)
  <2>1. i = l \/ (i \in 1..(l - 1) /\ i \in 2..l)
    BY <1>1, <1>2
  <2>2. CASE i = l
    BY <1>2, <1>10, <2>2, LuaContinued DEF errorstatus
  <2>3. CASE i \in 1..(l - 1) /\ i \in 2..l
    <3>1. Agree(u.ci[i], th.ci[i]) /\ ContinuedAt(th, D, t, i)
      BY <1>1, <1>2, <2>3
    <3>2. ContinuedAt(u, D, t, i)
      BY <1>1, <1>2, <1>10, <3>1 DEF ContinuedAt, Agree
    <3>3. i \in Nat /\ r.a # "C"
      BY <1>4, <2>3
    <3>4. QED
      BY <1>1, <1>4, <3>2, <3>3, ContinuedPushed
  <2>4. QED
    BY <2>1, <2>2, <2>3
<1>12. /\ u.nny = Ny(D, r.t, n) + MainNy(r.t) + (IF IsNy(r) THEN 1 ELSE 0)
       /\ u.nCcalls = Calling(D, n) + (IF r.a \in Callers \cup {"resume"} THEN 1 ELSE 0)
  <2>1. Ny(D, t, n) \in Nat /\ Calling(D, n) \in Nat /\ MainNy(t) \in Nat
    BY <1>1, NyZero, CallingStep DEF MainNy
  <2>2. Ny(D, t, n) + MainNy(t) + 0 = Ny(D, t, n) + MainNy(t) /\ Calling(D, n) + 0 = Calling(D, n)
    BY <2>1
  <2>3. (IF IsNy(r) THEN 1 ELSE 0) = 0 /\ (IF r.a \in Callers \cup {"resume"} THEN 1 ELSE 0) = 0 /\ r.t = t
    BY <1>4, <1>5
  <2>4. QED
    BY <1>1, <1>10, <2>2, <2>3
<1>13. Enters(u, M, D, r)
  BY <1>1, <1>2, <1>4, <1>6, <1>7, <1>8, <1>9, <1>10, <1>11, <1>12 DEF Enters
<1>14. AtRest(r, u)
  <2>1. \A i \in r.at..Len(u.ci) : i = l
    BY <1>1, <1>2, <1>4
  <2>2. InExec(r, Len(u.ci), u)
    BY <1>2, <1>4, <2>1 DEF InExec
  <2>3. QED
    BY <1>4, <2>2 DEF AtRest
<1>15. QED
  BY <1>4, <1>13, <1>14
\* The next function of a coroutine that was interrupted.
LEMMA UnrollRest ==
  ASSUME NEW z, RetZ(z), Last(z.C).a = "unroll"
  PROVE  RestZ(unroll(z))
<1> DEFINE D == z.C
           M == z.L
           n == Len(D)
           r == Last(D)
           t == T(z)
           th == Th(z)
           q == D[n - 1]
<1>1. GoodZ(z) /\ z.err = "none" /\ Ret(r, th)
  BY DEF RetZ
<1>2. Stacks(M, D, n, r, t, th)
  BY <1>1, StacksIs
<1>3. IsBefore(q, D, n, r, t, th)
  BY <1>2, Before
<1>4. IsZ(z) /\ Good(M, D)
  BY <1>1 DEF GoodZ
<1> HIDE DEF D, M, n, r, t, th, q
<1>5. /\ n = Len(D) /\ n >= 2 /\ n \in Nat /\ n - 1 \in 1..n /\ q = D[n - 1] /\ q.t = t /\ r = D[n] /\ r.t = t /\ t \in Threads
      /\ IsThread(th) /\ Slots(th) /\ th.status = "OK" /\ Len(th.ci) \in Nat /\ Len(th.ci) >= 1
      /\ r.a = "unroll" /\ (\A i \in 2..Len(th.ci) : ContinuedAt(th, D, t, i))
      /\ D \in Seq(Record) /\ n \in 1..n /\ r.status = "YIELD" /\ Len(th.stack) <= lim(th) /\ Len(th.stack) >= 1
  <2>1. r.a = "unroll"
    BY DEF r, D
  <2>2. QED
    BY <1>1, <1>2, <1>3, <2>1 DEF Stacks, IsBefore, Ret
<1>6. q.a = "resume"
  BY <1>3, <1>5 DEF IsBefore, Linked
<1>16. \A k \in Nat : k >= 1 /\ k # 1 => k >= 2 /\ k \in 2..k
  OBVIOUS
<1>7. CASE Len(th.ci) = 1
  <2> DEFINE j == n - 1
  <2>1. unroll(z) = resumed(z, j, gettop(th), "OK")
    BY <1>7 DEF unroll, th, n, D
  <2>2. \A i \in j..Len(D) : D[i].t = D[j].t
    <3>1. \A i \in j..Len(D) : i = n \/ i = n - 1
      BY <1>5
    <3>2. QED
      BY <1>5, <3>1
  <2>3. j \in 1..Len(D) /\ D[j].a = "resume"
    BY <1>5, <1>6
  <2> HIDE DEF j
  <2>4. RestZ(resumed(z, j, gettop(th), "OK"))
    BY <1>1, <1>5, <1>7, <2>2, <2>3, EndRest DEF th, D
  <2>5. QED
    BY <2>1, <2>4
<1>8. CASE Len(th.ci) # 1 /\ Ci(th).lua
  <2> DEFINE u == Reentered(th)
             v == On(z, u)
             e == [a |-> "exec", t |-> t, at |-> Len(th.ci)]
             w == Stacked(v, e)
  <2>1. unroll(z) = Started(v)
    BY <1>8 DEF unroll, th, Reentered
  <2>2. Len(th.ci) >= 2 /\ ~errorstatus(th.status)
    BY <1>5, <1>8, <1>16 DEF errorstatus
  <2>3. IsReentered(u, th)
    BY <1>5, <1>8, <2>2, ReenteredIs
  <2>4. Th(v) = u /\ T(v) = t
    <3> HIDE DEF u
    <3>1. QED
      BY <1>1, <1>4, OnTh, OnIs DEF t
  <2>5. Len(u.ci) = Len(th.ci)
    BY <2>3 DEF IsReentered
  <2>6. Started(v) = w
    BY <2>4, <2>5 DEF Started
  <2> HIDE DEF u
  <2>7. e = [a |-> "exec", t |-> t, at |-> Len(th.ci)]
    OBVIOUS
  <2> HIDE DEF e, w
  <2>8. Enters(u, M, D, e) /\ AtRest(e, u) /\ e.t = t
    BY <1>2, <1>5, <2>2, <2>3, <2>7, ReenterEnters
  <2>9. IsStacked(w, z, u, e)
    BY <1>1, <2>8, StackedHas DEF w, v, M, D, t
  <2>10. RestZ(w)
    BY <1>1, <2>8, <2>9 DEF IsStacked, RestZ
  <2>11. QED
    BY <2>1, <2>6, <2>10
<1>9. CASE Len(th.ci) # 1 /\ ~Ci(th).lua
  <2>1. unroll(z) = z
    BY <1>9 DEF unroll, th
  <2>2. Len(th.ci) >= 2 /\ Ci(th) = th.ci[Len(th.ci)] /\ Len(th.ci) \in 2..Len(th.ci)
    BY <1>5, <1>9, <1>16, ThreadIs
  <2>3. \A j \in 1..Len(D) : D[j].t = t => j = n \/ j = n - 1
    <3>1. ASSUME NEW j \in 1..Len(D), D[j].t = t, j # n, j # n - 1 PROVE FALSE
      <4>1. j < n - 1 /\ n - 1 <= n - 1 /\ n - 1 \in 1..Len(D)
        BY <1>5, <3>1
      <4>2. Apart(D)
        BY <1>4 DEF Good, Shape
      <4>3. D[j].t # D[n - 1].t
        BY <1>5, <1>6, <4>1, <4>2 DEF Apart
      <4>4. QED
        BY <1>5, <3>1, <4>3
    <3>2. QED
      BY <3>1
  <2>4. \A a : \A i \in Nat : a \notin {"resume", "unroll"} => ~Has(D, a, t, i)
    BY <1>5, <1>6, <2>3 DEF Has
  <2>5. ContinuedAt(th, D, t, Len(th.ci))
    BY <1>5, <2>2
  <2>6. ~Has(D, "C", t, Len(th.ci))
    BY <1>5, <2>4
  <2>7. Ci(th).k \in Ks
    BY <1>5, <1>9, <2>2, <2>5, <2>6 DEF ContinuedAt
  <2>8. AtRest(r, th)
    BY <1>5, <1>9, <2>2, <2>7 DEF AtRest
  <2>9. QED
    BY <1>1, <2>1, <2>8 DEF RestZ, r, D, th
<1>10. QED
  BY <1>7, <1>8, <1>9
\* A C function that waits for another call than lua_pcallk's is not in lua_pcallk.
LEMMA CallQuiet ==
  ASSUME NEW M, NEW D, NEW n, NEW r, NEW t, NEW th, Stacks(M, D, n, r, t, th), NEW q, IsBefore(q, D, n, r, t, th),
         r.a # "ypcall", q.a = "C"
  PROVE  ~th.ci[q.at].yp
<1>1. /\ Good(M, D) /\ n = Len(D) /\ r = D[n] /\ th = M[t] /\ n \in Nat /\ t \in Threads /\ th.status = "OK"
      /\ Len(th.ci) \in Nat /\ \A i \in 2..Len(th.ci) : ContinuedAt(th, D, t, i)
  BY DEF Stacks
<1>2. n - 1 \in 1..n /\ q = D[n - 1] /\ q.t = t /\ q.at \in Nat /\ Placed(q, th) /\ n >= 2
  BY DEF IsBefore
<1>3. q.at \in 2..Len(th.ci)
  BY <1>1, <1>2 DEF Placed
<1>4. ASSUME th.ci[q.at].yp PROVE FALSE
  <2>1. ContinuedAt(th, D, t, q.at)
    BY <1>1, <1>3
  <2>2. Has(D, "C", t, q.at)
    BY <1>1, <1>2 DEF Has
  <2>3. PICK w \in 1..Len(D) : D[w].a = "ypcall" /\ D[w].t = t /\ D[w].at = q.at
    BY <1>4, <2>1, <2>2 DEF ContinuedAt, Has
  <2>4. w # n /\ w # n - 1
    BY <1>1, <1>2, <2>3
  <2>5. w < n - 1 /\ w \in 1..Len(D) /\ n - 1 \in 1..Len(D)
    BY <1>1, <1>2, <2>3, <2>4
  <2>6. Order(D)
    BY <1>1 DEF Good, Shape
  <2>7. D[w].at < D[n - 1].at
    BY <1>2, <2>3, <2>5, <2>6 DEF Order
  <2>8. QED
    BY <1>2, <2>3, <2>7
<1>5. QED
  BY <1>4
\* The thread after a call.
Discounted(th, r) == [th EXCEPT !.nCcalls = @ - 1, !.nny = IF r.ny THEN @ - 1 ELSE @]
LEMMA DiscountedIs ==
  ASSUME NEW v, IsThread(v), Slots(v), NEW r, r.ny \in BOOLEAN, NEW u, u = Discounted(v, r)
  PROVE  /\ IsThread(u) /\ Slots(u) /\ u.stack = v.stack /\ u.ci = v.ci /\ u.status = v.status /\ u.big = v.big
         /\ u.nCcalls = v.nCcalls - 1 /\ u.nny = v.nny - (IF r.ny THEN 1 ELSE 0)
<1> DEFINE c == v.nCcalls - 1
           n == IF r.ny THEN v.nny - 1 ELSE v.nny
           x == PutCalls(v, c)
<1>1. v.nCcalls \in Int /\ v.nny \in Int /\ c \in Int /\ n \in Int /\ n = v.nny - (IF r.ny THEN 1 ELSE 0)
  BY ThreadIs
<1>2. u = PutNny(x, n)
  BY DEF Discounted, PutNny, PutCalls
<1>4. x = PutCalls(v, c)
  OBVIOUS
<1> HIDE DEF c, n, x
<1>3. /\ IsThread(x) /\ x.nCcalls = c /\ x.stack = v.stack /\ x.ci = v.ci /\ x.status = v.status /\ x.big = v.big
      /\ x.nny = v.nny
  BY <1>1, <1>4, SetCalls
<1>5. /\ IsThread(u) /\ u.nny = n /\ u.stack = x.stack /\ u.ci = x.ci /\ u.status = x.status /\ u.big = x.big
      /\ u.nCcalls = x.nCcalls
  <2>1. IsThread(x) /\ n \in Int /\ u = PutNny(x, n)
    BY <1>1, <1>2, <1>3
  <2>2. IsThread(u) /\ u.nny = n
    BY <2>1, SetNny
  <2>3. u.stack = x.stack /\ u.ci = x.ci
    BY <2>1, SetNny
  <2>4. u.status = x.status /\ u.big = x.big /\ u.nCcalls = x.nCcalls
    BY <2>1, SetNny
  <2>5. QED
    BY <2>2, <2>3, <2>4
<1>6. Slots(u)
  BY <1>3, <1>5 DEF Slots, lim
<1>7. QED
  BY <1>1, <1>3, <1>5, <1>6 DEF c
\* The C function that called has the results.
Comes(u, th, r) ==
  /\ IsThread(u) /\ Slots(u) /\ u.status = th.status
  /\ u.nny = th.nny - (IF r.ny THEN 1 ELSE 0) /\ u.nCcalls = th.nCcalls - 1 /\ Len(u.ci) = Len(th.ci)
  /\ \A i \in 1..(Len(th.ci) - 1) : Agree(u.ci[i], th.ci[i])
  /\ u.ci[Len(th.ci)].lua = th.ci[Len(th.ci)].lua
  /\ r.a # "ypcall" => Agree(u.ci[Len(th.ci)], th.ci[Len(th.ci)])
  /\ r.a = "ypcall" => ~u.ci[Len(th.ci)].yp
  /\ Len(u.stack) <= Ci(u).top
LEMMA AdjustedComes ==
  ASSUME NEW th, IsThread(th), NEW r, NEW v, IsThread(v), Slots(v), ~errorstatus(th.status), v.status = th.status,
         v.nny = th.nny - (IF r.ny THEN 1 ELSE 0), v.nCcalls = th.nCcalls - 1, Len(v.ci) = Len(th.ci),
         \A i \in 1..(Len(th.ci) - 1) : v.ci[i] = th.ci[i], v.ci[Len(th.ci)].lua = th.ci[Len(th.ci)].lua,
         r.a # "ypcall" => v.ci[Len(th.ci)] = th.ci[Len(th.ci)], r.a = "ypcall" => ~v.ci[Len(th.ci)].yp,
         Len(v.stack) <= lim(v)
  PROVE  Comes(adjustresults(v), th, r)
<1> DEFINE u == adjustresults(v)
           l == Len(th.ci)
<1>1. Len(v.stack) \in Nat /\ Len(v.stack) + 0 <= lim(v) /\ l \in Nat /\ l >= 1
  <2>1. Len(v.stack) \in Nat /\ l \in Nat /\ l >= 1
    BY ThreadIs
  <2>2. \A k \in Nat : k + 0 = k
    OBVIOUS
  <2>3. QED
    BY <2>1, <2>2
<1>2. u = lua_checkstack(v, 0)
  BY DEF adjustresults
<1> HIDE DEF u, l
<1>3. /\ IsThread(u) /\ Slots(u) /\ u.stack = v.stack /\ Rest6(u, v) /\ AgreeAll(u, v)
      /\ Len(v.stack) + 0 <= Ci(u).top
  BY <1>1, <1>2, RoomierFits
<1>4. Len(u.ci) = l /\ \A i \in 1..l : Agree(u.ci[i], v.ci[i])
  BY <1>3 DEF AgreeAll, l
<1>5. l \in 1..l /\ \A i \in 1..(l - 1) : i \in 1..l
  BY <1>1
<1>6. Len(u.stack) <= Ci(u).top
  <2>1. Len(v.stack) + 0 = Len(v.stack)
    BY <1>1
  <2>2. QED
    BY <1>3, <2>1
<1>7. \A i \in 1..(l - 1) : Agree(u.ci[i], th.ci[i])
  BY <1>4, <1>5 DEF l
<1>8. u.ci[l].lua = th.ci[l].lua /\ (r.a # "ypcall" => Agree(u.ci[l], th.ci[l])) /\ (r.a = "ypcall" => ~u.ci[l].yp)
  BY <1>4, <1>5 DEF Agree, l
<1>9. QED
  BY <1>3, <1>4, <1>6, <1>7, <1>8 DEF Comes, Rest6, u, l
\* A call returns to the C function that made it.
LEMMA ComesBack ==
  ASSUME NEW z, RetZ(z), Last(z.C).a \in {"call", "pcall", "ypcall"}, NEW u, Comes(u, Th(z), Last(z.C)),
         NEW w, IsZ(w), w.L = Moved(z.L, T(z), u), w.C = MarkLast(Front(z.C), "OK"), w.err = "none"
  PROVE  RestZ(w)
<1> DEFINE D == z.C
           n == Len(D)
           r == Last(D)
           t == T(z)
           th == Th(z)
           q == D[n - 1]
           l == Len(th.ci)
<1>1. GoodZ(z) /\ z.err = "none" /\ Ret(r, th)
  BY DEF RetZ
<1>2. Stacks(z.L, D, n, r, t, th)
  BY <1>1, StacksIs
<1>3. r.a \in {"call", "pcall", "ypcall"} /\ Comes(u, th, r) /\ r.a \in Callers
  BY DEF Callers
<1>4. IsBefore(q, D, n, r, t, th)
  BY <1>2, <1>3, Before
<1> HIDE DEF q, r, th, t
<1>5. /\ n = Len(D) /\ r = D[n] /\ IsThread(th) /\ Slots(th) /\ th.status = "OK" /\ Placed(r, th) /\ r \in Record
      /\ l \in Nat /\ l >= 1
  BY <1>2 DEF Stacks
<1>6. Linked(q, r, th) /\ Placed(q, th) /\ (n = 2 => r.a = "pcall") /\ (q.a = "docall" => n = 2) /\ q.at \in Nat
  BY <1>4 DEF IsBefore
<1>7. q.a \in {"C", "docall"} /\ q.at = l
  BY <1>1, <1>3, <1>6 DEF Linked, Ret
<1>8. /\ IsThread(u) /\ Slots(u) /\ u.status = th.status
      /\ u.nny = th.nny - (IF r.ny THEN 1 ELSE 0) /\ u.nCcalls = th.nCcalls - 1 /\ Len(u.ci) = l
      /\ (\A i \in 1..(l - 1) : Agree(u.ci[i], th.ci[i]))
      /\ u.ci[l].lua = th.ci[l].lua
      /\ (r.a # "ypcall" => Agree(u.ci[l], th.ci[l]))
      /\ (r.a = "ypcall" => ~u.ci[l].yp)
      /\ Len(u.stack) <= Ci(u).top
  BY <1>3 DEF Comes
<1> HIDE DEF l
<1>9. q.a = "C" => ~u.ci[l].yp
  <2>1. CASE r.a = "ypcall"
    BY <1>8, <2>1
  <2>2. CASE r.a # "ypcall" /\ q.a = "C"
    <3>1. ~th.ci[q.at].yp
      BY <1>2, <1>4, <2>2, CallQuiet
    <3>2. QED
      BY <1>7, <1>8, <2>2, <3>1 DEF Agree
  <2>3. QED
    BY <2>1, <2>2
<1>10. Below(u, th, q)
  <2>1. \A i \in 1..l : i \in 1..(l - 1) \/ i = l
    BY <1>5
  <2>2. r.a = "ypcall" => q.a = "C"
    BY <1>6, <1>7
  <2>3. l <= l
    BY <1>5
  <2>4. \A i \in 1..l : Agree(u.ci[i], th.ci[i]) \/ (i = l /\ q.a = "C" /\ u.ci[i].lua = th.ci[i].lua)
    BY <1>8, <2>1, <2>2
  <2>5. QED
    BY <1>7, <1>8, <2>3, <2>4 DEF Below
<1>11. Pops(u, D, n, q, r, t, th)
  <2>1. (IF IsNy(r) THEN 1 ELSE 0) = (IF r.ny THEN 1 ELSE 0) /\ (IF r.a \in Callers \cup {"resume"} THEN 1 ELSE 0) = 1
    <3>1. IsNy(r) <=> r.ny
      BY <1>3, <1>5, RecordIs DEF IsNy
    <3>2. QED
      BY <1>3, <3>1
  <2>2. q.at = Len(u.ci)
    BY <1>7, <1>8
  <2>3. u.status = "OK" /\ (q.a = "C" => ~u.ci[q.at].yp)
    BY <1>5, <1>7, <1>8, <1>9
  <2>4. QED
    BY <1>8, <1>10, <2>1, <2>2, <2>3 DEF Pops
<1>12. IsBack(w, z, u, q)
  <2>1. w.err = z.err
    BY <1>1
  <2>2. QED
    BY <1>1, <1>4, <1>7, <1>11, <2>1, PopBackZ DEF D, n, r, t, th
<1>13. /\ GoodZ(w) /\ Th(w) = u /\ w.err = z.err /\ Alike(q, Last(w.C)) /\ Last(w.C).back
       /\ Last(w.C).status = "OK"
  BY <1>12 DEF IsBack
<1>14. AtRest(Last(w.C), u)
  <2>1. Last(w.C).a = q.a /\ Last(w.C).at = l /\ ~errorstatus(Last(w.C).status)
    BY <1>7, <1>13 DEF Alike, errorstatus
  <2>2. CASE q.a = "docall"
    <3>1. l = 1
      BY <1>6, <1>7, <2>2 DEF Placed
    <3>2. QED
      BY <1>8, <2>1, <2>2, <3>1 DEF AtRest
  <2>3. CASE q.a = "C"
    <3>1. Ci(u) = u.ci[l] /\ Len(u.stack) \in Nat
      BY <1>8, ThreadIs
    <3>2. Len(u.stack) + 0 <= Ci(u).top
      <4>1. Len(u.stack) + 0 = Len(u.stack)
        BY <3>1
      <4>2. QED
        BY <1>8, <4>1
    <3>3. QED
      BY <1>8, <1>9, <1>13, <2>1, <2>3, <3>1, <3>2 DEF AtRest
  <2>4. QED
    BY <1>7, <2>2, <2>3
<1>15. QED
  BY <1>1, <1>13, <1>14 DEF RestZ
\* The state after a call.
LEMMA EndedIs ==
  ASSUME NEW z, RetZ(z), Last(z.C).a \in Callers, NEW d, d = Discounted(Th(z), Last(z.C))
  PROVE  LET x == Ended(z, Last(z.C))
         IN /\ IsZ(x) /\ x.L = Moved(z.L, T(z), d) /\ x.C = Front(z.C) /\ x.err = "none" /\ T(x) = T(z) /\ Th(x) = d
            /\ x = Unstacked(On(z, d))
<1> DEFINE x == Ended(z, Last(z.C))
           v == On(z, d)
           D == z.C
           n == Len(D)
           q == D[n - 1]
           t == T(z)
<1>1. GoodZ(z) /\ z.err = "none" /\ IsZ(z)
  BY DEF RetZ, GoodZ
<1>2. x = Unstacked(v)
  BY DEF Ended, Discounted
<1> HIDE DEF t
<1>3. IsZ(v) /\ v.L = [z.L EXCEPT ![t] = d] /\ v.C = D /\ v.err = z.err
  BY <1>1, OnIs DEF t
<1>4. IsZ(x) /\ x.L = v.L /\ x.C = Front(v.C) /\ x.err = v.err
  BY <1>2, <1>3, UnstackedIs
<1> HIDE DEF v, x
<1>5. Stacks(z.L, D, n, Last(D), t, Th(z)) /\ Last(D).a \notin {"docall", "resume"}
  BY <1>1, StacksIs DEF Callers, t
<1>6. IsBefore(q, D, n, Last(D), t, Th(z))
  BY <1>5, Before
<1>7. D \in Seq(Record) /\ n = Len(D) /\ n >= 2 /\ q.t = t
  BY <1>5, <1>6 DEF Stacks, IsBefore
<1>8. Last(Front(D)) = q
  BY <1>7, FrontRecords
<1>9. T(x) = t /\ z.L = [s \in Threads |-> z.L[s]] /\ t \in Threads
  BY <1>1, <1>3, <1>4, <1>7, <1>8, ZIs DEF T, t
<1>10. Th(x) = d
  BY <1>3, <1>4, <1>9 DEF Th
<1>11. QED
  BY <1>1, <1>2, <1>3, <1>4, <1>9, <1>10 DEF Moved, x, v, t
LEMMA BackIs ==
  ASSUME NEW z, RetZ(z), Last(z.C).a \in Callers, NEW d, d = Discounted(Th(z), Last(z.C)), NEW x,
         x = Ended(z, Last(z.C)), NEW u, NEW w, w = Returns(On(x, u), "OK")
  PROVE  IsZ(w) /\ w.L = Moved(z.L, T(z), u) /\ w.C = MarkLast(Front(z.C), "OK") /\ w.err = "none"
<1> DEFINE t == T(z)
           y == On(x, u)
           e == "OK"
<1>1. IsZ(x) /\ x.L = Moved(z.L, t, d) /\ x.C = Front(z.C) /\ x.err = "none" /\ T(x) = t
  BY EndedIs
<1>2. IsZ(y) /\ y.L = [x.L EXCEPT ![t] = u] /\ y.C = x.C /\ y.err = x.err
  BY <1>1, OnIs
<1>3. w = Returns(y, e)
  OBVIOUS
<1> HIDE DEF y, e
<1>4. IsZ(w) /\ w.L = y.L /\ w.err = y.err /\ w.C = MarkLast(y.C, e)
  BY <1>2, <1>3, ReturnsIs
<1>5. z.L = [s \in Threads |-> z.L[s]] /\ t \in Threads
  BY ZIs DEF RetZ
<1>6. [Moved(z.L, t, d) EXCEPT ![t] = u] = Moved(z.L, t, u)
  BY <1>5 DEF Moved
<1>7. w.L = Moved(z.L, t, u)
  BY <1>1, <1>2, <1>4, <1>6
<1>8. w.C = MarkLast(Front(z.C), e) /\ w.err = "none"
  BY <1>1, <1>2, <1>4
<1>9. QED
  BY <1>4, <1>7, <1>8 DEF e, t
\* The thread after the call, before anything else is done.
LEMMA EndedThread ==
  ASSUME NEW z, RetZ(z), Last(z.C).a \in Callers, NEW d, d = Discounted(Th(z), Last(z.C))
  PROVE  /\ IsThread(d) /\ Slots(d) /\ d.stack = Th(z).stack /\ d.ci = Th(z).ci /\ d.status = Th(z).status
         /\ d.big = Th(z).big /\ d.nCcalls = Th(z).nCcalls - 1 /\ d.nny = Th(z).nny - (IF Last(z.C).ny THEN 1 ELSE 0)
         /\ IsThread(Th(z)) /\ Slots(Th(z)) /\ ~errorstatus(Th(z).status) /\ Th(z).status = "OK"
         /\ Last(z.C) \in Record /\ Len(Th(z).ci) \in Nat /\ Len(Th(z).ci) >= 1
         /\ Len(d.stack) <= lim(d) /\ Last(z.C).at = Len(Th(z).ci)
<1> DEFINE r == Last(z.C)
           th == Th(z)
<1>1. GoodZ(z) /\ Ret(r, th)
  BY DEF RetZ
<1>2. Stacks(z.L, z.C, Len(z.C), r, T(z), th)
  BY <1>1, StacksIs
<1>3. /\ IsThread(th) /\ Slots(th) /\ ~errorstatus(th.status) /\ th.status = "OK" /\ r \in Record
      /\ Len(th.ci) \in Nat /\ Len(th.ci) >= 1
  BY <1>2 DEF Stacks, errorstatus
<1>4. r.ny \in BOOLEAN
  BY <1>3, RecordIs
<1>5. d = Discounted(th, r) /\ r.a \in Callers
  OBVIOUS
<1> HIDE DEF r, th
<1>6. /\ IsThread(d) /\ Slots(d) /\ d.stack = th.stack /\ d.ci = th.ci /\ d.status = th.status /\ d.big = th.big
      /\ d.nCcalls = th.nCcalls - 1 /\ d.nny = th.nny - (IF r.ny THEN 1 ELSE 0)
  BY <1>3, <1>4, <1>5, DiscountedIs
<1>7. Len(d.stack) <= lim(d)
  BY <1>1, <1>6 DEF Ret, lim
<1>8. r.at = Len(th.ci)
  BY <1>1, <1>5 DEF Ret
<1>9. QED
  BY <1>3, <1>6, <1>7, <1>8 DEF r, th
LEMMA EndedGood ==
  ASSUME NEW z, RetZ(z), Last(z.C).a \in {"tm", "errormsg"}, NEW d, d = Discounted(Th(z), Last(z.C)),
         NEW x, x = Ended(z, Last(z.C))
  PROVE  /\ GoodZ(x) /\ Th(x) = d /\ x.err = "none" /\ Len(x.C) >= 2
         /\ Linked(Last(x.C), Last(z.C), Th(z))
<1> DEFINE D == z.C
           n == Len(D)
           r == Last(D)
           t == T(z)
           th == Th(z)
           q == D[n - 1]
<1>1. GoodZ(z) /\ z.err = "none" /\ r.a \in Callers /\ r.a \in {"tm", "errormsg"}
  BY DEF RetZ, Callers
<1>2. Stacks(z.L, D, n, r, t, th)
  BY <1>1, StacksIs
<1>3. IsBefore(q, D, n, r, t, th)
  BY <1>1, <1>2, Before
<1>4. /\ IsThread(d) /\ Slots(d) /\ d.ci = th.ci /\ d.status = th.status
      /\ d.nCcalls = th.nCcalls - 1 /\ d.nny = th.nny - (IF r.ny THEN 1 ELSE 0)
      /\ IsThread(th) /\ th.status = "OK" /\ r \in Record /\ Len(th.ci) \in Nat
  BY <1>1, EndedThread
<1>5. x = Unstacked(On(z, d))
  BY <1>1, EndedIs
<1> HIDE DEF D, n, q, r, th, t
<1>6. (q.a = "C" => ~d.ci[q.at].yp)
  BY <1>1, <1>2, <1>3, <1>4, CallQuiet
<1>7. Below(d, th, q)
  <2>1. \A i \in 1..Len(th.ci) : Agree(th.ci[i], th.ci[i])
    BY <1>4, SameIs DEF Same
  <2>2. Placed(q, th) /\ q.at \in Nat
    BY <1>3 DEF IsBefore
  <2>3. q.at <= Len(th.ci)
    BY <2>2 DEF Placed
  <2>4. \A i \in 1..q.at : i \in 1..Len(th.ci)
    BY <1>4, <2>2, <2>3
  <2>5. QED
    BY <1>4, <2>1, <2>3, <2>4 DEF Below
<1>8. \A i \in (q.at + 1)..Len(d.ci) : ContinuedAt(d, D, t, i)
  <2>1. \A i \in 2..Len(th.ci) : ContinuedAt(th, D, t, i)
    BY <1>2 DEF Stacks
  <2>2. \A i : ContinuedAt(th, D, t, i) => ContinuedAt(d, D, t, i)
    BY <1>4 DEF ContinuedAt
  <2>3. q.at \in Nat /\ q.at >= 1
    BY <1>3 DEF IsBefore
  <2>4. \A i \in (q.at + 1)..Len(d.ci) : i \in 2..Len(th.ci)
    BY <1>4, <2>3
  <2>5. QED
    BY <2>1, <2>2, <2>4
<1>9. Pops(d, D, n, q, r, t, th)
  <2>1. (IF IsNy(r) THEN 1 ELSE 0) = (IF r.ny THEN 1 ELSE 0) /\ (IF r.a \in Callers \cup {"resume"} THEN 1 ELSE 0) = 1
    <3>1. IsNy(r) <=> r.ny
      BY <1>1, <1>4, RecordIs DEF IsNy
    <3>2. QED
      BY <1>1, <3>1
  <2>2. r.a # "ypcall" /\ (r.a = "C" => r.at > Len(d.ci))
    BY <1>1
  <2>3. QED
    BY <1>4, <1>6, <1>7, <1>8, <2>1, <2>2 DEF Pops
<1>10. IsPop(x, z, d, q)
  BY <1>1, <1>3, <1>5, <1>9, PopZ DEF D, n, r, t, th
<1>11. GoodZ(x) /\ Th(x) = d /\ x.err = "none" /\ Last(x.C) = q /\ Len(x.C) = n - 1
  BY <1>1, <1>10 DEF IsPop, n, D
<1>12. n \in Nat /\ n >= 2 /\ n # 2 /\ Linked(q, r, th)
  BY <1>1, <1>2, <1>3 DEF Stacks, IsBefore
<1>13. QED
  BY <1>11, <1>12 DEF r, th, D
LEMMA UnprotectedSlots ==
  ASSUME NEW d, IsThread(d), Slots(d), ~errorstatus(d.status)
  PROVE  Slots(unprotected(d)) /\ lim(unprotected(d)) = lim(d)
<1> DEFINE w == unprotected(d)
           l == Len(d.ci)
           f == [Ci(d) EXCEPT !.yp = FALSE]
<1>1. /\ IsThread(w) /\ w.stack = d.stack /\ w.status = d.status /\ w.big = d.big /\ Len(w.ci) = l
      /\ w.ci = [d.ci EXCEPT ![l] = f]
      /\ \A i \in 1..(l - 1) : w.ci[i] = d.ci[i]
  BY Unprotected
<1>2. /\ Ci(d).top <= lim(d) /\ FrameFits(l, Ci(d)) /\ l \in Nat /\ l >= 1 /\ Ci(d) = d.ci[l] /\ Ci(d) \in Frame
  BY TopFrame
<1>3. f.func = Ci(d).func /\ f.top = Ci(d).top /\ f.lua = Ci(d).lua /\ f.yp = FALSE
  BY <1>2 DEF Frame
<1>4. Ci(w) = f /\ Ci(w) = w.ci[l]
  <2>1. Ci(w) = f
    BY Unprotected
  <2> HIDE DEF f, w, l
  <2>2. QED
    BY <1>1, <2>1, ThreadIs
<1> HIDE DEF w, f, l
<1>5. FrameFits(l, f) /\ f.top <= lim(d)
  BY <1>2, <1>3 DEF FrameFits
<1>6. \A i \in 1..Len(w.ci) : \/ i \in 1..Len(d.ci) /\ w.ci[i] = d.ci[i]
                              \/ FrameFits(i, w.ci[i]) /\ w.ci[i].top <= lim(d)
  <2>1. \A i \in 1..l : i = l \/ i \in 1..(l - 1)
    BY <1>2
  <2>2. QED
    BY <1>1, <1>4, <1>5, <2>1 DEF l
<1>7. ~errorstatus(w.status) /\ Len(w.stack) <= lim(d) + 3
  BY <1>1 DEF Slots
<1>8. QED
  BY <1>1, <1>6, <1>7, SlotsKept DEF w
IsUnprotected(w, d) ==
  /\ IsThread(w) /\ w.stack = d.stack /\ w.status = d.status /\ w.nny = d.nny
  /\ w.nCcalls = d.nCcalls /\ w.big = d.big /\ Len(w.ci) = Len(d.ci)
  /\ Ci(w) = [Ci(d) EXCEPT !.yp = FALSE]
  /\ \A i \in 1..(Len(d.ci) - 1) : w.ci[i] = d.ci[i]
LEMMA UnprotectedHas ==
  ASSUME NEW d, IsThread(d), NEW w, w = unprotected(d)
  PROVE  IsUnprotected(w, d)
<1> DEFINE v == unprotected(d)
<1>1. /\ IsThread(v) /\ v.stack = d.stack /\ v.status = d.status /\ v.nny = d.nny
      /\ v.nCcalls = d.nCcalls /\ v.big = d.big /\ Len(v.ci) = Len(d.ci)
      /\ Ci(v) = [Ci(d) EXCEPT !.yp = FALSE]
      /\ \A i \in 1..(Len(d.ci) - 1) : v.ci[i] = d.ci[i]
  BY Unprotected
<1>2. w = v
  OBVIOUS
<1> HIDE DEF v
<1>3. QED
  BY <1>1, <1>2 DEF IsUnprotected
LEMMA CallComes ==
  ASSUME NEW z, RetZ(z), Last(z.C).a \in {"call", "pcall", "ypcall"}, NEW d, d = Discounted(Th(z), Last(z.C)),
         NEW v, \/ Last(z.C).a = "call" /\ v = d
                \/ Last(z.C).a = "pcall" /\ v = PutErrfunc(d, Last(z.C).errfunc)
                \/ Last(z.C).a = "ypcall" /\ v = unprotected(d)
  PROVE  Comes(adjustresults(v), Th(z), Last(z.C))
<1> DEFINE r == Last(z.C)
           th == Th(z)
           l == Len(th.ci)
<1>1. r.a \in {"call", "pcall", "ypcall"} /\ r.a \in Callers
  BY DEF Callers
<1>2. /\ IsThread(d) /\ Slots(d) /\ d.stack = th.stack /\ d.ci = th.ci /\ d.status = th.status
      /\ d.big = th.big /\ d.nCcalls = th.nCcalls - 1 /\ d.nny = th.nny - (IF r.ny THEN 1 ELSE 0)
      /\ IsThread(th) /\ Slots(th) /\ ~errorstatus(th.status)
      /\ r \in Record /\ l \in Nat /\ l >= 1 /\ Len(d.stack) <= lim(d)
  BY <1>1, EndedThread
<1> HIDE DEF r, th
<1>3. CASE r.a = "call" /\ v = d
  BY <1>2, <1>3, AdjustedComes DEF r, th
<1>4. CASE r.a = "pcall" /\ v = PutErrfunc(d, r.errfunc)
  <2>1. r.errfunc \in Nat
    BY <1>2, <1>4, RecordIs
  <2>2. /\ IsThread(v) /\ v.status = d.status /\ v.stack = d.stack /\ v.ci = d.ci
        /\ v.nny = d.nny /\ v.nCcalls = d.nCcalls /\ v.big = d.big
    BY <1>2, <1>4, <2>1, SetErrfunc
  <2>3. Slots(v) /\ lim(v) = lim(d)
    BY <1>2, <2>2 DEF Slots, lim
  <2>4. Comes(adjustresults(v), th, r)
    BY <1>2, <1>4, <2>2, <2>3, AdjustedComes
  <2>5. QED
    BY <2>4 DEF r, th
<1>5. CASE r.a = "ypcall" /\ v = unprotected(d)
  <2>1. /\ IsThread(v) /\ v.stack = d.stack /\ v.status = d.status /\ v.nny = d.nny
        /\ v.nCcalls = d.nCcalls /\ v.big = d.big /\ Len(v.ci) = Len(d.ci)
        /\ Ci(v) = [Ci(d) EXCEPT !.yp = FALSE]
        /\ \A i \in 1..(Len(d.ci) - 1) : v.ci[i] = d.ci[i]
    <3>1. IsThread(d) /\ v = unprotected(d)
      BY <1>2, <1>5
    <3>2. IsUnprotected(v, d)
      BY <3>1, UnprotectedHas
    <3>3. QED
      BY <3>2 DEF IsUnprotected
  <2>2. Slots(v) /\ lim(v) = lim(d)
    BY <1>2, <1>5, UnprotectedSlots
  <2>3. Ci(v) = v.ci[l] /\ Ci(d) = th.ci[l] /\ Ci(d) \in Frame
    <3>1. Ci(v) = v.ci[Len(v.ci)] /\ Ci(d) = d.ci[Len(d.ci)] /\ Ci(d) \in Frame
      BY <1>2, <2>1, ThreadIs
    <3>2. QED
      BY <1>2, <2>1, <3>1 DEF l
  <2>4. v.ci[l].lua = th.ci[l].lua /\ ~v.ci[l].yp
    BY <2>1, <2>3 DEF Frame
  <2>5. Comes(adjustresults(v), th, r)
    BY <1>2, <1>5, <2>1, <2>2, <2>4, AdjustedComes DEF l
  <2>6. QED
    BY <2>5 DEF r, th
<1>6. QED
  BY <1>3, <1>4, <1>5 DEF r
\* A call returns.
LEMMA CallEndsRest ==
  ASSUME NEW z, RetZ(z), Last(z.C).a \in Callers
  PROVE  RestZ(callEnds(Ended(z, Last(z.C)), Last(z.C)))
<1> DEFINE r == Last(z.C)
           d == Discounted(Th(z), r)
           x == Ended(z, r)
           y == callEnds(x, r)
<1>1. Th(x) = d
  BY EndedIs
<1>2. CASE r.a \in {"call", "pcall", "ypcall"}
  <2> DEFINE v == CASE r.a = "call"   -> d
                    [] r.a = "pcall"  -> PutErrfunc(d, r.errfunc)
                    [] r.a = "ypcall" -> unprotected(d)
             u == adjustresults(v)
             w == Returns(On(x, u), "OK")
  <2>1. y = w
    BY <1>1, <1>2 DEF callEnds, PutErrfunc
  <2>2. \/ r.a = "call" /\ v = d
        \/ r.a = "pcall" /\ v = PutErrfunc(d, r.errfunc)
        \/ r.a = "ypcall" /\ v = unprotected(d)
    BY <1>2
  <2> HIDE DEF v
  <2>3. Comes(u, Th(z), r)
    BY <1>2, <2>2, CallComes
  <2> HIDE DEF u
  <2>4. IsZ(w) /\ w.L = Moved(z.L, T(z), u) /\ w.C = MarkLast(Front(z.C), "OK") /\ w.err = "none"
    <3>1. x = Ended(z, Last(z.C)) /\ w = Returns(On(x, u), "OK") /\ d = Discounted(Th(z), Last(z.C))
      OBVIOUS
    <3> HIDE DEF w, x, d
    <3>2. QED
      BY <3>1, BackIs
  <2> HIDE DEF w, y
  <2>5. RestZ(w)
    BY <1>2, <2>3, <2>4, ComesBack
  <2>6. QED
    BY <2>1, <2>5 DEF y
<1>3. CASE r.a = "tm"
  <2> DEFINE u == storeresult(d)
  <2>1. y = On(x, u)
    BY <1>1, <1>3 DEF callEnds
  <2> HIDE DEF y
  <2>2. /\ GoodZ(x) /\ Th(x) = d /\ x.err = "none" /\ Linked(Last(x.C), r, Th(z))
    <3>1. r.a \in {"tm", "errormsg"}
      BY <1>3
    <3>2. x = Ended(z, Last(z.C)) /\ d = Discounted(Th(z), Last(z.C))
      OBVIOUS
    <3> HIDE DEF x, d
    <3>3. QED
      BY <3>1, <3>2, EndedGood
  <2>3. IsThread(d) /\ Slots(d) /\ d.ci = Th(z).ci /\ r.at = Len(Th(z).ci)
    <3>1. d = Discounted(Th(z), Last(z.C))
      OBVIOUS
    <3> HIDE DEF d
    <3>3. QED
      BY <3>1, EndedThread
  <2> HIDE DEF x, d
  <2>4. Last(x.C).a = "exec" /\ InExec(Last(x.C), Len(d.ci), d)
    BY <1>3, <2>2, <2>3 DEF Linked, InExec
  <2>5. /\ IsThread(u) /\ Rest6(u, d) /\ Len(u.stack) <= Len(d.stack)
        /\ u.ci = [d.ci EXCEPT ![Len(d.ci)] = [Ci(d) EXCEPT !.op = "none"]]
    BY <2>3, Stored
  <2> HIDE DEF u
  <2>6. IsCleared(u, d)
    <3>1. Len(u.stack) \in Nat /\ Len(d.stack) \in Nat /\ lim(d) \in Nat
      BY <2>3, <2>5, ThreadIs, LimIs
    <3>2. Len(u.stack) <= lim(d) + 3
      BY <2>3, <2>5, <3>1 DEF Slots
    <3>3. QED
      BY <2>5, <3>2 DEF IsCleared
  <2>7. RestZ(On(x, u))
    BY <2>2, <2>4, <2>6, ClearedRest
  <2>8. RestZ(y)
    BY <2>1, <2>7
  <2>9. QED
    BY <2>8 DEF y, x
<1>4. CASE r.a = "errormsg"
  <2>1. y = luaD_throw(x, "ERRRUN")
    BY <1>4 DEF callEnds
  <2> HIDE DEF y
  <2>2. GoodZ(x) /\ x.err = "none" /\ Len(x.C) >= 2
    <3>1. r.a \in {"tm", "errormsg"}
      BY <1>4
    <3>2. x = Ended(z, Last(z.C)) /\ d = Discounted(Th(z), Last(z.C))
      OBVIOUS
    <3> HIDE DEF x, d
    <3>3. QED
      BY <3>1, <3>2, EndedGood
  <2> HIDE DEF x
  <2>3. RestZ(luaD_throw(x, "ERRRUN"))
    BY <2>2, ThrowRest DEF Throwing
  <2>4. RestZ(y)
    BY <2>1, <2>3
  <2>5. QED
    BY <2>4 DEF y, x
<1>5. QED
  BY <1>2, <1>3, <1>4 DEF Callers
\* A function returns to whatever called it.
LEMMA ContinueRest ==
  ASSUME NEW z, RetZ(z)
  PROVE  RestZ(Continue(z))
<1> DEFINE r == Last(z.C)
           y == Continue(z)
<1>1. GoodZ(z) /\ z.err = "none" /\ Ret(r, Th(z))
  BY DEF RetZ
<1>2. r.a \in Callers \cup {"resume", "exec", "unroll"}
  BY <1>1 DEF Ret
<1>3. CASE r.a = "exec"
  <2>1. y = On(z, Refill(Th(z)))
    BY <1>3 DEF Continue
  <2>2. QED
    BY <1>3, <2>1, ExecContinues
<1>4. CASE r.a = "resume"
  <2> DEFINE n == Len(z.C)
  <2>1. y = resumed(z, n, gettop(Th(z)), "OK")
    BY <1>4 DEF Continue
  <2> HIDE DEF y
  <2>2. /\ n \in Nat /\ n \in 1..n /\ r = z.C[n] /\ Placed(r, Th(z))
    BY <1>1, ZIs
  <2>3. Len(Th(z).ci) = 1 /\ Len(Th(z).stack) >= 1 /\ Len(Th(z).stack) <= lim(Th(z))
    BY <1>1, <1>4, <2>2 DEF Ret, Placed
  <2>4. \A i \in n..n : z.C[i].t = z.C[n].t
    BY <2>2
  <2>5. RestZ(resumed(z, n, gettop(Th(z)), "OK"))
    <3>1. z.C[n].a = "resume" /\ n \in 1..Len(z.C) /\ \A i \in n..Len(z.C) : z.C[i].t = z.C[n].t
      BY <1>4, <2>2, <2>4
    <3> HIDE DEF n, r
    <3>2. QED
      BY <1>1, <2>3, <3>1, EndRest
  <2>6. QED
    BY <2>1, <2>5 DEF y
<1>5. CASE r.a = "unroll"
  <2>1. y = unroll(z)
    BY <1>5 DEF Continue
  <2>2. QED
    BY <1>5, <2>1, UnrollRest
<1>6. CASE r.a \in Callers
  <2>1. r.a \notin {"exec", "resume", "unroll"}
    BY <1>6 DEF Callers
  <2>2. y = callEnds(Ended(z, r), r)
    BY <2>1 DEF Continue
  <2>3. QED
    BY <1>6, <2>2, CallEndsRest
<1>7. QED
  BY <1>2, <1>3, <1>4, <1>5, <1>6
\* What is left of a thread when its last frame is popped.
Remnant(p, th) ==
  /\ IsThread(p) /\ Slots(p) /\ p.status = th.status /\ p.nny = th.nny /\ p.nCcalls = th.nCcalls
  /\ Len(p.ci) = Len(th.ci) - 1 /\ \A i \in 1..(Len(th.ci) - 1) : p.ci[i] = th.ci[i]
  /\ Len(p.stack) <= lim(p) /\ Len(p.stack) >= 1
LEMMA RemnantOf == ASSUME NEW p, NEW th, IsPopped(p, th) PROVE Remnant(p, th)
BY DEF IsPopped, Remnant, Rest6
LEMMA RemnantHas ==
  ASSUME NEW M, NEW D, NEW n, NEW q, NEW t, NEW th, Stacks(M, D, n, q, t, th), NEW p, Remnant(p, th)
  PROVE  /\ \A r : r.at \in Nat /\ r.at >= 1 /\ r.at <= Len(p.ci) => Below(p, th, r)
         /\ \A r : r.at \in Nat /\ r.at >= 1 => \A i \in (r.at + 1)..Len(p.ci) : ContinuedAt(p, D, t, i)
         /\ \A r : r.at \in Nat /\ r.at >= 1 /\ InExec(r, Len(p.ci), th) => InExec(r, Len(p.ci), p)
         /\ Len(p.ci) = Len(th.ci) - 1 /\ Len(p.ci) \in Nat /\ p.status = "OK"
<1>1. /\ IsThread(th) /\ th.status = "OK" /\ Len(th.ci) \in Nat /\ Len(th.ci) >= 1
      /\ \A i \in 2..Len(th.ci) : ContinuedAt(th, D, t, i)
  BY DEF Stacks
<1>2. IsThread(p) /\ p.status = "OK" /\ Len(p.ci) = Len(th.ci) - 1 /\ \A i \in 1..(Len(th.ci) - 1) : p.ci[i] = th.ci[i]
  BY <1>1 DEF Remnant
<1>3. \A i \in 1..(Len(th.ci) - 1) : Agree(p.ci[i], th.ci[i])
  <2>1. \A i \in 1..(Len(th.ci) - 1) : i \in 1..Len(th.ci)
    BY <1>1
  <2>2. \A i \in 1..Len(th.ci) : th.ci[i] \in Frame /\ th.ci[i].top \in Nat
    BY <1>1, ThreadIs, FrameIs
  <2>3. QED
    BY <1>2, <2>1, <2>2 DEF Agree
<1>4. \A r : r.at \in Nat /\ r.at >= 1 /\ r.at <= Len(p.ci) => Below(p, th, r)
  <2>1. ASSUME NEW r, r.at \in Nat /\ r.at >= 1 /\ r.at <= Len(p.ci) PROVE Below(p, th, r)
    <3>1. \A i \in 1..r.at : i \in 1..(Len(th.ci) - 1)
      BY <1>1, <1>2, <2>1
    <3>2. QED
      BY <1>3, <2>1, <3>1 DEF Below
  <2>2. QED
    BY <2>1
<1>5. ASSUME NEW i \in 2..Len(p.ci) PROVE ContinuedAt(p, D, t, i)
  <2>1. i \in 2..Len(th.ci) /\ i \in 1..(Len(th.ci) - 1)
    BY <1>1, <1>2
  <2>2. ContinuedAt(th, D, t, i) /\ p.ci[i] = th.ci[i]
    BY <1>1, <1>2, <2>1
  <2>3. QED
    BY <1>1, <1>2, <2>2 DEF ContinuedAt
<1>6. \A r : r.at \in Nat /\ r.at >= 1 => \A i \in (r.at + 1)..Len(p.ci) : ContinuedAt(p, D, t, i)
  <2>1. ASSUME NEW r, r.at \in Nat /\ r.at >= 1, NEW i \in (r.at + 1)..Len(p.ci) PROVE ContinuedAt(p, D, t, i)
    <3>1. i \in 2..Len(p.ci)
      BY <1>1, <1>2, <2>1
    <3>2. QED
      BY <1>5, <3>1
  <2>2. QED
    BY <2>1
<1>7. \A r : r.at \in Nat /\ r.at >= 1 /\ InExec(r, Len(p.ci), th) => InExec(r, Len(p.ci), p)
  <2>1. ASSUME NEW r, r.at \in Nat /\ r.at >= 1 /\ InExec(r, Len(p.ci), th) PROVE InExec(r, Len(p.ci), p)
    <3>1. \A i \in r.at..Len(p.ci) : i \in 1..(Len(th.ci) - 1)
      BY <1>1, <1>2, <2>1
    <3>2. \A i \in r.at..Len(p.ci) : p.ci[i] = th.ci[i]
      BY <1>2, <3>1
    <3>3. QED
      BY <2>1, <3>2 DEF InExec
  <2>2. QED
    BY <2>1
<1>8. Len(p.ci) \in Nat
  BY <1>1, <1>2
<1>9. QED
  BY <1>2, <1>4, <1>6, <1>7, <1>8
\* A function that has a record of its own returns.
LEMMA PopReturns ==
  ASSUME NEW z, GoodZ(z), z.err = "none", Last(z.C).a \in {"C", "exec"}, Last(z.C).at = Len(Th(z).ci),
         NEW p, Remnant(p, Th(z))
  PROVE  RetZ(Unstacked(On(z, p)))
<1> DEFINE D == z.C
           M == z.L
           n == Len(D)
           r == Last(D)
           t == T(z)
           th == Th(z)
           q == D[n - 1]
           w == Unstacked(On(z, p))
<1>1. Stacks(M, D, n, r, t, th)
  BY StacksIs
<1> HIDE DEF D, M, n, r, t, th, w
<1>2. IsBefore(D[n - 1], D, n, r, t, th) /\ r.a \in {"C", "exec"} /\ r.at = Len(th.ci)
  <2>1. r.a \in {"C", "exec"} /\ r.at = Len(th.ci)
    BY DEF r, D, th
  <2>2. QED
    BY <1>1, <2>1, Before
<1>3. /\ Linked(q, r, th) /\ q.at \in Nat /\ q.at >= 1 /\ q.at < r.at
  BY <1>2 DEF IsBefore
<1>4. /\ \A e : e.at \in Nat /\ e.at >= 1 /\ e.at <= Len(p.ci) => Below(p, th, e)
      /\ \A e : e.at \in Nat /\ e.at >= 1 => \A i \in (e.at + 1)..Len(p.ci) : ContinuedAt(p, D, t, i)
      /\ \A e : e.at \in Nat /\ e.at >= 1 /\ InExec(e, Len(p.ci), th) => InExec(e, Len(p.ci), p)
      /\ Len(p.ci) = Len(th.ci) - 1 /\ Len(p.ci) \in Nat /\ p.status = "OK"
  <2>1. Remnant(p, th)
    BY DEF th
  <2>2. QED
    BY <1>1, <2>1, RemnantHas
<1> HIDE DEF q
<1>5. \/ q.a \in Callers \cup {"resume"} /\ r.at = q.at + 1
      \/ q.a = "exec" /\ InExec(q, r.at - 1, th)
      \/ q.a = "unroll" /\ q.status = "YIELD"
  BY <1>2, <1>3 DEF Linked
<1>6. Pops(p, D, n, q, r, t, th)
  <2>1. IsThread(p) /\ Slots(p) /\ p.nny = th.nny /\ p.nCcalls = th.nCcalls
    BY DEF Remnant, th
  <2>2. ~IsNy(r) /\ r.a \notin Callers \cup {"resume"} /\ r.a # "ypcall"
    BY <1>2 DEF IsNy, Callers
  <2>3. th.nny - 0 = th.nny /\ th.nCcalls - 0 = th.nCcalls
    <3>1. th.nny \in Int /\ th.nCcalls \in Int
      BY <1>1, ThreadIs DEF Stacks
    <3>2. QED
      BY <3>1
  <2>4. q.at <= Len(p.ci) /\ r.at > Len(p.ci)
    BY <1>2, <1>3, <1>4
  <2>5. Below(p, th, q) /\ \A i \in (q.at + 1)..Len(p.ci) : ContinuedAt(p, D, t, i)
    BY <1>3, <1>4, <2>4
  <2>6. q.a # "C"
    BY <1>5 DEF Callers
  <2>7. p.nny = th.nny - (IF IsNy(r) THEN 1 ELSE 0)
    BY <2>1, <2>2, <2>3
  <2>8. p.nCcalls = th.nCcalls - (IF r.a \in Callers \cup {"resume"} THEN 1 ELSE 0)
    BY <2>1, <2>2, <2>3
  <2>9. QED
    BY <1>4, <2>1, <2>2, <2>4, <2>5, <2>6, <2>7, <2>8 DEF Pops
<1>7. IsPop(w, z, p, q)
  <2>1. /\ IsBefore(q, z.C, Len(z.C), Last(z.C), T(z), Th(z)) /\ Pops(p, z.C, Len(z.C), q, Last(z.C), T(z), Th(z))
    BY <1>2, <1>6 DEF D, n, r, t, th, q
  <2>2. QED
    BY <2>1, PopZ DEF w
<1>8. Ret(q, p)
  <2>1. q.a \in Callers \cup {"resume"} => q.at = Len(p.ci)
    <3>1. q.a \in Callers \cup {"resume"} => q.a # "exec" /\ q.a # "unroll"
      BY DEF Callers
    <3>2. QED
      BY <1>2, <1>3, <1>4, <1>5, <3>1
  <2>2. q.a = "exec" => InExec(q, Len(p.ci), p)
    <3>1. q.a = "exec" => InExec(q, r.at - 1, th)
      BY <1>5 DEF Callers
    <3>2. r.at - 1 = Len(p.ci)
      BY <1>2, <1>4
    <3>3. QED
      BY <1>3, <1>4, <3>1, <3>2
  <2>3. q.a = "unroll" => q.status = "YIELD"
    BY <1>5 DEF Callers
  <2>4. Len(p.stack) <= lim(p) /\ Len(p.stack) >= 1
    BY DEF Remnant
  <2>5. q.a \in Callers \cup {"resume", "exec", "unroll"}
    BY <1>5
  <2>6. QED
    BY <2>1, <2>2, <2>3, <2>4, <2>5 DEF Ret
<1>9. RetZ(w)
  BY <1>7, <1>8 DEF RetZ, IsPop
<1>10. QED
  BY <1>9 DEF w
\* A Lua function that another one has called returns.
LEMMA FrameReturns ==
  ASSUME NEW z, GoodZ(z), z.err = "none", Last(z.C).a = "exec", InExec(Last(z.C), Len(Th(z).ci), Th(z)),
         Last(z.C).at # Len(Th(z).ci), NEW p, Remnant(p, Th(z))
  PROVE  RetZ(On(z, p))
<1> DEFINE D == z.C
           M == z.L
           n == Len(D)
           r == Last(D)
           t == T(z)
           th == Th(z)
           w == On(z, p)
<1>1. Stacks(M, D, n, r, t, th)
  BY StacksIs
<1> HIDE DEF D, M, n, r, t, th, w
<1>2. r.at \in Nat /\ r.at >= 1 /\ r.at <= Len(th.ci) /\ Len(th.ci) \in Nat
  BY <1>1 DEF Stacks
<1>3. r.a = "exec" /\ InExec(r, Len(th.ci), th) /\ r.at # Len(th.ci) /\ Remnant(p, th)
  BY DEF D, r, th
<1>4. /\ \A e : e.at \in Nat /\ e.at >= 1 /\ e.at <= Len(p.ci) => Below(p, th, e)
      /\ \A e : e.at \in Nat /\ e.at >= 1 => \A i \in (e.at + 1)..Len(p.ci) : ContinuedAt(p, D, t, i)
      /\ \A e : e.at \in Nat /\ e.at >= 1 /\ InExec(e, Len(p.ci), th) => InExec(e, Len(p.ci), p)
      /\ Len(p.ci) = Len(th.ci) - 1 /\ Len(p.ci) \in Nat /\ p.status = "OK"
  BY <1>1, <1>3, RemnantHas
<1>5. r.at <= Len(p.ci)
  BY <1>2, <1>3, <1>4
<1>6. Replaces(p, D, r, t, th)
  <2>1. IsThread(p) /\ Slots(p) /\ p.nny = th.nny /\ p.nCcalls = th.nCcalls
    BY <1>3 DEF Remnant
  <2>2. Below(p, th, r) /\ \A i \in (r.at + 1)..Len(p.ci) : ContinuedAt(p, D, t, i)
    BY <1>2, <1>4, <1>5
  <2>3. QED
    BY <1>3, <1>4, <2>1, <2>2 DEF Replaces
<1>7. IsReplaced(w, z, p)
  <2>1. Replaces(p, z.C, Last(z.C), T(z), Th(z))
    BY <1>6 DEF D, r, t, th
  <2>2. QED
    BY <2>1, ReplaceZ DEF w
<1>8. InExec(r, Len(p.ci), p)
  <2>1. InExec(r, Len(p.ci), th)
    <3>1. \A i \in r.at..Len(p.ci) : i \in r.at..Len(th.ci)
      BY <1>2, <1>4
    <3>2. QED
      BY <1>3, <3>1 DEF InExec
  <2>2. QED
    BY <1>2, <1>4, <2>1
<1>9. Ret(r, p)
  <2>1. r.a \notin Callers \cup {"resume", "unroll"}
    BY <1>3 DEF Callers
  <2>2. Len(p.stack) <= lim(p) /\ Len(p.stack) >= 1
    BY <1>3 DEF Remnant
  <2>3. QED
    BY <1>3, <1>8, <2>1, <2>2 DEF Ret
<1>10. RetZ(w)
  <2>1. Last(w.C) = r /\ Th(w) = p /\ GoodZ(w) /\ w.err = "none"
    BY <1>7 DEF IsReplaced, r, D
  <2>2. QED
    BY <1>9, <2>1 DEF RetZ
<1>11. QED
  BY <1>10 DEF w
\* What a C function returns has place.
ValuesFit(vals, th) == SeqIs(vals) /\ Ci(th).func - 1 + Len(vals) <= lim(th)
Held(th) ==
  IsThread(th) /\ Slots(th) /\ ~errorstatus(th.status) /\ Len(th.stack) <= lim(th) /\ Len(th.ci) >= 2
LEMMA FromIs ==
  ASSUME NEW th, Held(th), NEW i \in Nat, i >= 1
  PROVE  SeqIs(From(th, i)) /\ Ci(th).func + Len(From(th, i)) + (i - 1) <= lim(th) + 1 + (i - 1)
         /\ (i >= 2 => Ci(th).func + Len(From(th, i)) <= lim(th))
         /\ Ci(th).func - 1 + Len(From(th, i)) <= lim(th)
<1>1. /\ SeqIs(th.stack) /\ Len(th.stack) \in Nat /\ Ci(th).func \in Nat /\ lim(th) \in Nat /\ Ci(th).func <= lim(th)
      /\ Len(th.stack) <= lim(th)
  <2>1. Ci(th).func + 1 <= Ci(th).top /\ Ci(th).top <= lim(th) /\ Ci(th).top \in Nat /\ Ci(th).func \in Nat /\ lim(th) \in Nat
    BY TopFrame DEF Held
  <2>2. QED
    BY <2>1, ThreadIs DEF Held
<1> DEFINE a == Ci(th).func
           s == th.stack
           m == lim(th)
           f == From(th, i)
<1>2. f = SubSeq(s, a + i, Len(s))
  BY DEF From
<1> HIDE DEF a, s, m, f
<1>3. a \in Nat /\ Len(s) \in Nat /\ m \in Nat /\ a <= m /\ Len(s) <= m /\ SeqIs(s)
  BY <1>1 DEF a, s, m
<1>4. SeqIs(f) /\ Len(f) = IF a + i <= Len(s) THEN Len(s) - (a + i) + 1 ELSE 0
  <2>1. a + i \in Int /\ Len(s) \in Int
    BY <1>3
  <2>2. QED
    BY <1>2, <1>3, <2>1, Cut
<1>5. SeqIs(f) /\ a + Len(f) + (i - 1) <= m + 1 + (i - 1) /\ (i >= 2 => a + Len(f) <= m) /\ a - 1 + Len(f) <= m
  BY <1>3, <1>4
<1>6. QED
  BY <1>5 DEF a, m, f
LEMMA PairFits == ASSUME NEW th, Held(th), NEW a, NEW b PROVE ValuesFit(<<a, b>>, th)
<1>1. Ci(th).func + 1 <= Ci(th).top /\ Ci(th).top <= lim(th) /\ Ci(th).func \in Nat /\ Ci(th).top \in Nat /\ lim(th) \in Nat
  BY TopFrame DEF Held
<1>2. SeqIs(<<a, b>>) /\ Len(<<a, b>>) = 2
  BY Fixed
<1>3. QED
  BY <1>1, <1>2 DEF ValuesFit
LEMMA OneFits == ASSUME NEW th, Held(th), NEW a PROVE ValuesFit(<<a>>, th)
<1>1. Ci(th).func + 1 <= Ci(th).top /\ Ci(th).top <= lim(th) /\ Ci(th).func \in Nat /\ Ci(th).top \in Nat /\ lim(th) \in Nat
  BY TopFrame DEF Held
<1>2. SeqIs(<<a>>) /\ Len(<<a>>) = 1
  BY Fixed
<1>3. QED
  BY <1>1, <1>2 DEF ValuesFit
LEMMA FromFits == ASSUME NEW th, Held(th), NEW i \in Nat, i >= 1 PROVE ValuesFit(From(th, i), th)
BY FromIs DEF ValuesFit
LEMMA TruthFits == ASSUME NEW th, Held(th), NEW a PROVE ValuesFit(<<a>> \o From(th, 2), th)
<1> DEFINE b == <<a>>
           f == From(th, 2)
           s == b \o f
<1>1. SeqIs(f) /\ Ci(th).func + Len(f) <= lim(th)
  BY FromIs
<1>2. Ci(th).func \in Nat /\ lim(th) \in Nat
  BY TopFrame DEF Held
<1>3. SeqIs(b) /\ Len(b) = 1
  BY Fixed
<1> HIDE DEF b, f
<1>4. SeqIs(s) /\ Len(s) = 1 + Len(f) /\ Len(f) \in Nat
  BY <1>1, <1>3, Joined, LenIs
<1> HIDE DEF s
<1>5. ValuesFit(s, th)
  BY <1>1, <1>2, <1>4 DEF ValuesFit
<1>6. QED
  BY <1>5 DEF s, b, f
LEMMA PcallFits == ASSUME NEW th, Held(th), NEW st, NEW e \in Nat PROVE ValuesFit(finishpcall(th, st, e), th)
<1>1. CASE errorstatus(st)
  BY <1>1, PairFits DEF finishpcall
<1>2. CASE ~errorstatus(st)
  <2>1. e + 1 \in Nat /\ e + 1 >= 1
    OBVIOUS
  <2> DEFINE i == e + 1
  <2>2. finishpcall(th, st, e) = From(th, i)
    BY <1>2 DEF finishpcall
  <2> HIDE DEF i
  <2>3. ValuesFit(From(th, i), th)
    BY <2>1, FromFits DEF i
  <2>4. QED
    BY <2>2, <2>3
<1>3. QED
  BY <1>1, <1>2
LEMMA ContinuationFits ==
  ASSUME NEW th, Held(th), NEW st, NEW k \in Ks
  PROVE  ValuesFit(Continuation(th, k, st), th)
<1>1. CASE k = "pcall"
  BY <1>1, PcallFits DEF Continuation
<1>2. CASE k = "xpcall"
  BY <1>2, PcallFits DEF Continuation
<1>3. CASE k = "dofile"
  <2>1. Continuation(th, k, st) = From(th, 2)
    BY <1>3 DEF Continuation, dofilecont
  <2>2. ValuesFit(From(th, 2), th)
    BY FromFits
  <2>3. QED
    BY <2>1, <2>2
<1>4. QED
  BY <1>1, <1>2, <1>3 DEF Ks
LEMMA ValuesPopped ==
  ASSUME NEW th, Held(th), NEW vals, ValuesFit(vals, th)
  PROVE  IsPopped(luaD_poscall(th, vals), th)
BY PoscallFits DEF Held, ValuesFit
\* A C function that runs.
LEMMA RestHeld ==
  ASSUME NEW z, RestZ(z), Last(z.C).a = "C"
  PROVE  Held(Th(z)) /\ Last(z.C).at = Len(Th(z).ci) /\ ~Ci(Th(z)).yp /\ ~Ci(Th(z)).lua
<1> DEFINE th == Th(z)
           r == Last(z.C)
<1>1. Stacks(z.L, z.C, Len(z.C), r, T(z), th) /\ AtRest(r, th)
  BY StacksIs DEF RestZ
<1> HIDE DEF th, r
<1>2. /\ IsThread(th) /\ Slots(th) /\ ~errorstatus(th.status) /\ Placed(r, th)
  BY <1>1 DEF Stacks, errorstatus
<1>3. r.a = "C"
  BY DEF r
<1>4. r.at = Len(th.ci) /\ ~Ci(th).yp /\ Len(th.stack) + (IF r.back THEN 0 ELSE LUA_MINSTACK) <= Ci(th).top
  BY <1>1, <1>3 DEF AtRest
<1>5. Len(th.ci) >= 2 /\ ~Ci(th).lua
  <2>1. r.at >= 2 /\ ~th.ci[r.at].lua /\ Ci(th) = th.ci[Len(th.ci)]
    BY <1>2, <1>3, ThreadIs DEF Placed
  <2>2. r.at = Len(th.ci)
    BY <1>4
  <2>3. ~th.ci[Len(th.ci)].lua
    BY <2>1, <2>2
  <2>4. ~Ci(th).lua
    BY <2>1, <2>3
  <2>5. QED
    BY <2>1, <2>2, <2>4
<1>6. Len(th.stack) <= lim(th)
  <2>1. Ci(th).top <= lim(th) /\ Ci(th).top \in Nat /\ lim(th) \in Nat /\ Len(th.stack) \in Nat /\ LUA_MINSTACK \in Nat
    BY <1>2, TopFrame, Sizes
  <2> DEFINE x == IF r.back THEN 0 ELSE LUA_MINSTACK
  <2>2. x \in Nat /\ x >= 0
    BY <2>1
  <2>3. Len(th.stack) + x <= Ci(th).top
    BY <1>4
  <2> HIDE DEF x
  <2>4. QED
    BY <2>1, <2>2, <2>3
<1>7. Held(th) /\ r.at = Len(th.ci) /\ ~Ci(th).yp /\ ~Ci(th).lua
  BY <1>2, <1>4, <1>5, <1>6 DEF Held
<1>8. QED
  BY <1>7 DEF th, r
LEMMA CReturnsRest ==
  ASSUME NEW z, RestZ(z), Last(z.C).a = "C", NEW vals, ValuesFit(vals, Th(z))
  PROVE  RestZ(CReturns(z, vals))
<1> DEFINE p == luaD_poscall(Th(z), vals)
           w == Unstacked(On(z, p))
<1>1. Held(Th(z)) /\ Last(z.C).at = Len(Th(z).ci)
  BY RestHeld
<1>2. Remnant(p, Th(z))
  <2>1. IsPopped(p, Th(z))
    BY <1>1, ValuesPopped
  <2> HIDE DEF p
  <2>2. QED
    BY <2>1, RemnantOf
<1>3. CReturns(z, vals) = Continue(w)
  BY DEF CReturns
<1> HIDE DEF p
<1>4. RetZ(w)
  BY <1>1, <1>2, PopReturns DEF RestZ
<1> HIDE DEF w
<1>5. QED
  BY <1>3, <1>4, ContinueRest
LEMMA LuaReturnsRest ==
  ASSUME NEW z, RestZ(z), Last(z.C).a = "exec", NEW v
  PROVE  RestZ(Continue(IF Ci(Th(z)).fresh THEN Unstacked(On(z, luaD_poscall(Th(z), <<v>>)))
                        ELSE On(z, luaD_poscall(Th(z), <<v>>))))
<1> DEFINE th == Th(z)
           r == Last(z.C)
           p == luaD_poscall(th, <<v>>)
           x == IF Ci(th).fresh THEN Unstacked(On(z, p)) ELSE On(z, p)
<1>1. Stacks(z.L, z.C, Len(z.C), r, T(z), th) /\ AtRest(r, th) /\ GoodZ(z) /\ z.err = "none"
  BY StacksIs DEF RestZ
<1>2. r.a = "exec"
  OBVIOUS
<1> HIDE DEF x
<1>3. /\ IsThread(th) /\ Slots(th) /\ ~errorstatus(th.status) /\ Placed(r, th) /\ InExec(r, Len(th.ci), th)
      /\ Len(th.ci) \in Nat /\ r.at \in Nat /\ r.at <= Len(th.ci)
  BY <1>1, <1>2 DEF Stacks, errorstatus, AtRest
<1>4. Len(th.ci) >= 2 /\ Ci(th) = th.ci[Len(th.ci)]
  BY <1>2, <1>3, ThreadIs DEF Placed
<1>5. Remnant(p, th)
  <2>1. Ci(th).func + 1 <= Ci(th).top /\ Ci(th).top <= lim(th) /\ Ci(th).func \in Nat /\ Ci(th).top \in Nat /\ lim(th) \in Nat
    BY <1>3, TopFrame
  <2>2. SeqIs(<<v>>) /\ Len(<<v>>) = 1
    BY Fixed
  <2>3. Ci(th).func - 1 + Len(<<v>>) <= lim(th)
    BY <2>1, <2>2
  <2> DEFINE s == <<v>>
  <2>4. p = luaD_poscall(th, s) /\ SeqIs(s) /\ Ci(th).func - 1 + Len(s) <= lim(th)
    BY <2>2, <2>3
  <2> HIDE DEF s, p, th
  <2>5. IsPopped(p, th)
    BY <1>3, <1>4, <2>4, PoscallFits
  <2>6. QED
    BY <2>5, RemnantOf
<1>6. Ci(th).fresh <=> r.at = Len(th.ci)
  <2>1. Len(th.ci) \in r.at..Len(th.ci)
    BY <1>3
  <2>2. QED
    BY <1>3, <1>4, <2>1 DEF InExec
<1> HIDE DEF p, th, r
<1>7. RetZ(x)
  <2>1. CASE Ci(th).fresh
    <3>1. x = Unstacked(On(z, p)) /\ Last(z.C).a = "exec" /\ Last(z.C).at = Len(Th(z).ci) /\ Remnant(p, Th(z))
      BY <1>5, <1>6, <2>1 DEF x, r, th
    <3>2. RetZ(Unstacked(On(z, p)))
      BY <1>1, <3>1, PopReturns
    <3>3. QED
      BY <3>1, <3>2
  <2>2. CASE ~Ci(th).fresh
    <3>1. /\ x = On(z, p) /\ Last(z.C).a = "exec" /\ Last(z.C).at # Len(Th(z).ci) /\ Remnant(p, Th(z))
          /\ InExec(Last(z.C), Len(Th(z).ci), Th(z))
      BY <1>3, <1>5, <1>6, <2>2 DEF x, r, th
    <3>2. RetZ(On(z, p))
      BY <1>1, <3>1, FrameReturns
    <3>3. QED
      BY <3>1, <3>2
  <2>3. QED
    BY <2>1, <2>2
<1>8. RestZ(Continue(x))
  BY <1>7, ContinueRest
<1>9. QED
  BY <1>8 DEF x, p, th
\* A C function that is continued, before it returns.
IsFinished(f, th) ==
  /\ IsThread(f) /\ Slots(f) /\ f.status = th.status /\ f.nny = th.nny /\ f.nCcalls = th.nCcalls
  /\ f.stack = th.stack /\ lim(f) = lim(th) /\ Len(f.ci) = Len(th.ci)
  /\ Ci(f).func = Ci(th).func /\ Ci(f).k = Ci(th).k
  /\ \A i \in 1..(Len(th.ci) - 1) : f.ci[i] = th.ci[i]
LEMMA FinishedSelf == ASSUME NEW th, Held(th) PROVE IsFinished(th, th)
BY DEF IsFinished, Held
LEMMA FinishedUnprotected ==
  ASSUME NEW th, Held(th)
  PROVE  IsFinished(unprotected(th), th) /\ Held(unprotected(th))
<1> DEFINE w == unprotected(th)
<1>1. IsThread(th) /\ Slots(th) /\ ~errorstatus(th.status) /\ Len(th.stack) <= lim(th) /\ Len(th.ci) >= 2
  BY DEF Held
<1>2. IsThread(th) /\ w = unprotected(th)
  BY <1>1
<1>3. Slots(unprotected(th)) /\ lim(unprotected(th)) = lim(th)
  BY <1>1, UnprotectedSlots
<1> HIDE DEF w
<1>4. IsUnprotected(w, th)
  BY <1>2, UnprotectedHas
<1>5. Slots(w) /\ lim(w) = lim(th)
  BY <1>2, <1>3
<1>6. Ci(w).func = Ci(th).func /\ Ci(w).k = Ci(th).k
  <2>1. Ci(th) \in Frame /\ Ci(w) = [Ci(th) EXCEPT !.yp = FALSE]
    BY <1>1, <1>4, ThreadIs DEF IsUnprotected
  <2>2. QED
    BY <2>1 DEF Frame
<1>7. IsFinished(w, th) /\ Held(w)
  BY <1>1, <1>4, <1>5, <1>6 DEF IsFinished, IsUnprotected, Held
<1>8. QED
  BY <1>7 DEF w
LEMMA FinishedAdjusted ==
  ASSUME NEW th, Held(th)
  PROVE  IsFinished(adjustresults(th), th) /\ Held(adjustresults(th))
<1> DEFINE w == adjustresults(th)
<1>1. IsThread(th) /\ Slots(th) /\ ~errorstatus(th.status) /\ Len(th.stack) <= lim(th) /\ Len(th.ci) >= 2
      /\ Len(th.stack) \in Nat /\ 0 \in Nat
  BY ThreadIs DEF Held
<1>2. w = lua_checkstack(th, 0)
  BY DEF adjustresults
<1>3. Len(th.stack) + 0 <= lim(th)
  BY <1>1
<1>4. /\ IsThread(w) /\ Slots(w) /\ w.stack = th.stack /\ Rest6(w, th) /\ Agree(Ci(w), Ci(th)) /\ lim(w) = lim(th)
  <2> DEFINE o == 0
  <2>1. w = lua_checkstack(th, o) /\ o \in Nat /\ Len(th.stack) + o <= lim(th)
    BY <1>2, <1>3
  <2> HIDE DEF o, w
  <2>2. QED
    BY <1>1, <2>1, RoomierFits
<1>5. Len(w.ci) = Len(th.ci) /\ \A i \in 1..(Len(th.ci) - 1) : w.ci[i] = th.ci[i]
  <2> DEFINE o == 0
           h == IF Ci(th).top >= Len(th.stack) + o THEN Ci(th).top ELSE Len(th.stack) + o
           v == lua_checkstack(th, o)
  <2>1. w = v /\ o \in Nat /\ IsThread(th)
    BY <1>1, <1>2
  <2> HIDE DEF w
  <2>2. Len(v.ci) = Len(th.ci) /\ \A i \in 1..(Len(th.ci) - 1) : v.ci[i] = th.ci[i]
    BY <2>1, Roomier
  <2> HIDE DEF v, o
  <2>3. QED
    BY <2>1, <2>2
<1> HIDE DEF w
<1>6. IsFinished(w, th) /\ Held(w)
  BY <1>1, <1>4, <1>5 DEF IsFinished, Held, Rest6, Agree
<1>7. QED
  BY <1>6 DEF w
LEMMA FinishedTwice ==
  ASSUME NEW f, NEW g, NEW th, IsFinished(f, g), IsFinished(g, th)
  PROVE  IsFinished(f, th)
BY DEF IsFinished
LEMMA FinishedIs ==
  ASSUME NEW th, Held(th)
  PROVE  IsFinished(finished(th), th) /\ Held(finished(th))
<1> DEFINE u == IF Ci(th).yp THEN unprotected(th) ELSE th
           w == IF Ci(u).nres = -1 THEN adjustresults(u) ELSE u
<1>1. finished(th) = w
  BY DEF finished
<1>2. IsFinished(u, th) /\ Held(u)
  BY FinishedSelf, FinishedUnprotected
<1> HIDE DEF u
<1>3. IsFinished(w, u) /\ Held(w)
  BY <1>2, FinishedSelf, FinishedAdjusted
<1> HIDE DEF w
<1>4. IsFinished(w, th)
  BY <1>2, <1>3, FinishedTwice
<1>5. QED
  BY <1>1, <1>3, <1>4
\* The record of unroll, with the status of the next continuation.
IsYielding(E, D) ==
  /\ Beginning(E, D, Len(D)) /\ Last(E).a = "unroll" /\ Last(E).status = "YIELD" /\ Last(E).t = Last(D).t
  /\ Last(E).at = Last(D).at
LEMMA YieldingIs ==
  ASSUME NEW D \in Seq(Record), Len(D) >= 1, Last(D).a = "unroll", NEW E, E = [D EXCEPT ![Len(D)].status = "YIELD"]
  PROVE  IsYielding(E, D)
<1> DEFINE n == Len(D)
           r == [D[n] EXCEPT !.status = "YIELD"]
<1>1. D[n] \in Record /\ n \in Nat /\ n >= 1 /\ n \in 1..n /\ Last(D) = D[n]
  BY DEF Last
<1>2. /\ r \in [a : {"unroll"}, t : Threads, at : Places, status : Statuses]
      /\ r.a = D[n].a /\ r.t = D[n].t /\ r.at = D[n].at /\ r.status = "YIELD"
  BY <1>1 DEF Record, Statuses
<1>3. r \in Record
  BY <1>2 DEF Record
<1>4. E = [D EXCEPT ![n] = r]
  OBVIOUS
<1> HIDE DEF r, n
<1>5. E \in Seq(Record) /\ Len(E) = n /\ E[n] = r /\ \A i \in 1..n : i < n => E[i] = D[i]
  <2>1. n = Len(D) /\ D \in [1..n -> Record]
    BY <1>1 DEF n
  <2>2. E \in [1..n -> Record] /\ n \in Nat
    BY <1>1, <1>3, <1>4, <2>1
  <2>6. \A i \in 1..n : [D EXCEPT ![n] = r][i] = IF i = n THEN r ELSE D[i]
    BY <2>1
  <2>7. \A i \in 1..n : E[i] = IF i = n THEN r ELSE D[i]
    BY <1>4, <2>6, Zenon
  <2>3. E[n] = r /\ \A i \in 1..n : i < n => E[i] = D[i]
    BY <1>1, <2>7
  <2>4. QED
    BY <2>2, <2>3
<1>6. Last(E) = r
  BY <1>5 DEF Last
<1>7. Alike(D[n], r)
  BY <1>1, <1>2 DEF Alike
<1>8. \A i \in 1..n : Alike(D[i], E[i])
  <2>1. \A i \in 1..n : i < n \/ i = n
    BY <1>1
  <2>2. QED
    BY <1>5, <1>7, <2>1 DEF Alike
<1>9. Beginning(E, D, n)
  BY <1>1, <1>5, <1>8 DEF Beginning, n
<1>10. Last(E).a = "unroll" /\ Last(E).status = "YIELD" /\ Last(E).t = Last(D).t /\ Last(E).at = Last(D).at
  BY <1>1, <1>2, <1>6
<1>11. IsYielding(E, D)
  BY <1>9, <1>10 DEF IsYielding, n
<1>12. QED
  BY <1>11
\* unroll goes on with what the C function returned.
LEMMA ReplaceYielding ==
  ASSUME NEW z, GoodZ(z), z.err = "none", Last(z.C).a = "unroll", NEW p, Remnant(p, Th(z)), Len(Th(z).ci) >= 2,
         NEW w, IsZ(w), w.L = Moved(z.L, T(z), p), IsYielding(w.C, z.C), w.err = z.err
  PROVE  RetZ(w)
<1> DEFINE D == z.C
           M == z.L
           n == Len(D)
           r == Last(D)
           t == T(z)
           th == Th(z)
<1>1. Stacks(M, D, n, r, t, th)
  BY StacksIs
<1>2. t \in Threads /\ M = [s \in Threads |-> M[s]] /\ t = Last(D).t
  BY ZIs DEF T
<1> HIDE DEF D, M, n, r, t, th
<1>3. r.at \in Nat /\ r.at >= 1 /\ r.at <= Len(th.ci) /\ Len(th.ci) \in Nat /\ Placed(r, th)
  BY <1>1 DEF Stacks
<1>4. r.a = "unroll" /\ Remnant(p, th) /\ Len(th.ci) >= 2
  BY DEF D, r, th
<1>5. /\ \A e : e.at \in Nat /\ e.at >= 1 /\ e.at <= Len(p.ci) => Below(p, th, e)
      /\ \A e : e.at \in Nat /\ e.at >= 1 => \A i \in (e.at + 1)..Len(p.ci) : ContinuedAt(p, D, t, i)
      /\ Len(p.ci) = Len(th.ci) - 1 /\ Len(p.ci) \in Nat /\ p.status = "OK"
  BY <1>1, <1>4, RemnantHas
<1>6. r.at = 1 /\ r.at <= Len(p.ci)
  BY <1>3, <1>4, <1>5 DEF Placed
<1>7. Replaces(p, D, r, t, th)
  <2>1. IsThread(p) /\ Slots(p) /\ p.nny = th.nny /\ p.nCcalls = th.nCcalls
    BY <1>4 DEF Remnant
  <2>2. Below(p, th, r) /\ \A i \in (r.at + 1)..Len(p.ci) : ContinuedAt(p, D, t, i)
    BY <1>3, <1>5, <1>6
  <2>3. QED
    BY <1>4, <1>5, <2>1, <2>2 DEF Replaces
<1> DEFINE E == w.C
<1>8. IsYielding(E, D) /\ Beginning(E, D, n)
  BY DEF D, n, IsYielding
<1> HIDE DEF E
<1>9. Good(Moved(M, t, p), E)
  BY <1>1, <1>7, <1>8, ReplaceGood
<1>10. GoodZ(w)
  BY <1>9 DEF GoodZ, E, M, t
<1>11. T(w) = t /\ Last(w.C).a = "unroll" /\ Last(w.C).status = "YIELD"
  BY <1>2, <1>8 DEF T, E, IsYielding
<1>12. Th(w) = p
  <2>1. w.L = Moved(M, t, p)
    BY DEF M, t
  <2>2. QED
    BY <1>2, <1>11, <2>1 DEF Th, Moved
<1>13. Ret(Last(w.C), p)
  BY <1>4, <1>11 DEF Ret, Remnant, Callers
<1>14. QED
  BY <1>10, <1>12, <1>13 DEF RetZ
LEMMA FinishCcallRest ==
  ASSUME NEW z, RestZ(z), Last(z.C).a = "unroll"
  PROVE  RestZ(finishCcall(z, Last(z.C).status))
<1> DEFINE th == Th(z)
           r == Last(z.C)
           st == r.status
           f == finished(th)
           vals == Continuation(f, Ci(f).k, st)
           p == luaD_poscall(f, vals)
           x == On(z, p)
           D == z.C
           E == [D EXCEPT ![Len(D)].status = "YIELD"]
           w == ZC(x, E)
           y == finishCcall(z, st)
<1>1. Stacks(z.L, D, Len(D), r, T(z), th) /\ AtRest(r, th) /\ GoodZ(z) /\ z.err = "none" /\ IsZ(z)
  BY StacksIs DEF RestZ, GoodZ
<1>2. y = Continue([x EXCEPT !.C[Len(z.C)].status = "YIELD"])
  BY DEF finishCcall
<1>3. IsZ(x) /\ x.L = Moved(z.L, T(z), p) /\ x.C = D /\ x.err = z.err
  BY <1>1, OnIs DEF Moved
<1> HIDE DEF x
<1>4. [x EXCEPT !.C[Len(z.C)].status = "YIELD"] = w
  BY <1>3 DEF ZC
<1>5. IsZ(w) /\ w.L = Moved(z.L, T(z), p) /\ w.C = E /\ w.err = z.err
  BY <1>3, ZFields
<1> HIDE DEF w, E, y
<1>6. r.a = "unroll" /\ D \in Seq(Record) /\ Len(D) >= 1
  BY <1>1 DEF Stacks
<1>7. IsYielding(E, D)
  BY <1>6, YieldingIs DEF E
<1> HIDE DEF th, D, p, r
<1>8. Held(th) /\ Ci(th).k \in Ks
  <2>1. /\ IsThread(th) /\ Slots(th) /\ ~errorstatus(th.status)
    BY <1>1 DEF Stacks, errorstatus
  <2>2. /\ Len(th.ci) >= 2 /\ Ci(th).k \in Ks
        /\ Len(th.stack) <= IF r.status = "YIELD" THEN lim(th) ELSE Ci(th).top
    BY <1>1, <1>6 DEF AtRest
  <2>3. Ci(th).top <= lim(th) /\ Ci(th).top \in Nat /\ lim(th) \in Nat /\ Len(th.stack) \in Nat
    BY <2>1, TopFrame
  <2>4. Len(th.stack) <= lim(th)
    BY <2>2, <2>3
  <2>5. QED
    BY <2>1, <2>2, <2>4 DEF Held
<1>9. IsFinished(f, th) /\ Held(f)
  BY <1>8, FinishedIs
<1>10. Ci(f).k \in Ks
  BY <1>8, <1>9 DEF IsFinished
<1> HIDE DEF f, st
<1>11. ValuesFit(vals, f)
  BY <1>9, <1>10, ContinuationFits
<1> HIDE DEF vals
<1>12. IsPopped(p, f)
  BY <1>9, <1>11, ValuesPopped DEF p
<1>13. Remnant(p, th)
  BY <1>9, <1>12 DEF IsPopped, Remnant, Rest6, IsFinished
<1>14. RetZ(w)
  <2>1. Remnant(p, Th(z)) /\ Len(Th(z).ci) >= 2 /\ Last(z.C).a = "unroll" /\ IsYielding(w.C, z.C)
    BY <1>5, <1>6, <1>7, <1>8, <1>13 DEF th, Held, r, D
  <2>2. QED
    BY <1>1, <1>5, <2>1, ReplaceYielding
<1>15. RestZ(y)
  BY <1>2, <1>4, <1>14, ContinueRest
<1>16. QED
  BY <1>15 DEF y, st, r
-----------------------------------------------------------------------------
(* The interface for C functions.                                          *)

\* The thread of a call that record q is about to make.
Prepared(v, th, q) ==
  /\ IsThread(v) /\ Slots(v) /\ v.status = th.status /\ v.nny = th.nny /\ v.nCcalls = th.nCcalls
  /\ Len(v.ci) = Len(th.ci) /\ Below(v, th, q) /\ \A i \in (q.at + 1)..Len(th.ci) : Agree(v.ci[i], th.ci[i])
LEMMA PreparedAll ==
  ASSUME NEW M, NEW D, NEW n, NEW q, NEW t, NEW th, Stacks(M, D, n, q, t, th), NEW v, IsThread(v), Slots(v),
         v.status = th.status, v.nny = th.nny, v.nCcalls = th.nCcalls, AgreeAll(v, th)
  PROVE  Prepared(v, th, q)
<1>1. q.at \in Nat /\ q.at >= 1 /\ q.at <= Len(th.ci) /\ Len(th.ci) \in Nat
  BY DEF Stacks
<1>2. Len(v.ci) = Len(th.ci) /\ \A i \in 1..Len(th.ci) : Agree(v.ci[i], th.ci[i])
  BY DEF AgreeAll
<1>3. (\A i \in 1..q.at : i \in 1..Len(th.ci)) /\ \A i \in (q.at + 1)..Len(th.ci) : i \in 1..Len(th.ci)
  BY <1>1
<1>4. QED
  BY <1>1, <1>2, <1>3 DEF Prepared, Below
LEMMA PreparedC ==
  ASSUME NEW M, NEW D, NEW n, NEW q, NEW t, NEW th, Stacks(M, D, n, q, t, th), NEW v, IsThread(v), Slots(v),
         v.status = th.status, v.nny = th.nny, v.nCcalls = th.nCcalls, Len(v.ci) = Len(th.ci),
         \A i \in 1..(Len(th.ci) - 1) : v.ci[i] = th.ci[i], Ci(v).lua = Ci(th).lua, q.a = "C", q.at = Len(th.ci)
  PROVE  Prepared(v, th, q)
<1>1. Len(th.ci) \in Nat /\ IsThread(th) /\ Ci(th) = th.ci[Len(th.ci)] /\ Ci(v) = v.ci[Len(th.ci)]
  BY ThreadIs DEF Stacks
<1>2. \A i \in 1..Len(th.ci) : th.ci[i].top \in Nat
  BY <1>1, ThreadIs, FrameIs
<1>3. \A i \in 1..q.at : i = q.at \/ (i \in 1..(Len(th.ci) - 1) /\ i \in 1..Len(th.ci))
  BY <1>1
<1>4. Below(v, th, q)
  <2>1. q.at <= Len(v.ci)
    BY <1>1
  <2>2. ASSUME NEW i \in 1..q.at PROVE Agree(v.ci[i], th.ci[i]) \/ (i = q.at /\ q.a = "C" /\ v.ci[i].lua = th.ci[i].lua)
    <3>1. CASE i = q.at
      BY <1>1, <3>1
    <3>2. CASE i \in 1..(Len(th.ci) - 1) /\ i \in 1..Len(th.ci)
      BY <1>2, <3>2 DEF Agree
    <3>3. QED
      BY <1>3, <3>1, <3>2
  <2>3. QED
    BY <2>1, <2>2 DEF Below
<1>5. \A i \in (q.at + 1)..Len(th.ci) : FALSE
  BY <1>1
<1>6. QED
  BY <1>4, <1>5 DEF Prepared
\* The records of calls.
PcallRecord(t, th, func) ==
  [a |-> "pcall", t |-> t, at |-> Len(th.ci), ny |-> TRUE, func |-> func, nny |-> th.nny,
   errfunc |-> th.errfunc, nCcalls |-> th.nCcalls]
CallRecord(what, t, th, ny) == [a |-> what, t |-> t, at |-> Len(th.ci), ny |-> ny]
LEMMA PcallCaller ==
  ASSUME NEW M, NEW D, NEW n, NEW q, NEW t, NEW th, Stacks(M, D, n, q, t, th), NEW v, Prepared(v, th, q),
         q.a \in {"C", "docall"}, ~q.back, q.at = Len(th.ci), ~Ci(v).yp, NEW func \in Nat, func >= Ci(v).func, func <= Ci(v).top,
         NEW x, IsThread(x), x.ci = th.ci, x.nny = th.nny, x.nCcalls = th.nCcalls
  PROVE  Caller(v, th, q, PcallRecord(t, x, func), D, n)
<1> DEFINE r == PcallRecord(t, x, func)
<1>1. /\ n = Len(D) /\ q = D[n] /\ t = q.t /\ n \in Nat /\ q \in Record /\ t \in Threads /\ IsThread(th)
      /\ th.nny = Ny(D, t, n) + MainNy(t) /\ th.nCcalls = Calling(D, n) /\ Len(th.ci) \in Nat /\ Len(th.ci) >= 1
  BY DEF Stacks
<1>2. IsThread(v) /\ Len(v.ci) = Len(th.ci) /\ Ci(v) = v.ci[Len(v.ci)] /\ Ci(v) \in Frame
  BY ThreadIs DEF Prepared
<1>3. /\ r.a = "pcall" /\ r.t = t /\ r.at = Len(th.ci) /\ r.ny = TRUE /\ r.func = func /\ r.nny = th.nny
      /\ r.nCcalls = th.nCcalls
  BY DEF PcallRecord
<1>4. r \in Record
  <2>1. x.nny \in Int /\ x.errfunc \in Nat /\ x.nCcalls \in Int /\ Len(x.ci) \in Places
    BY <1>1, ThreadIs DEF Places
  <2>2. QED
    BY <1>1, <2>1 DEF PcallRecord, Record
<1> HIDE DEF r
<1>5. Linked(q, r, v)
  BY <1>3 DEF Linked
<1>6. Placed(r, v)
  <2>1. Ci(v).func \in Nat /\ Ci(v).top \in Nat
    BY <1>2, FrameIs
  <2>2. func \in Ci(v).func..Ci(v).top
    BY <2>1
  <2>3. QED
    BY <1>2, <1>3, <2>2 DEF Placed, Free
<1>7. Saved(r, D, n)
  BY <1>1, <1>3 DEF Saved, Free, MainNy
<1>8. q.a = "C" => (v.ci[q.at].yp => r.a = "ypcall" /\ r.at = q.at)
  BY <1>2
<1>9. r.a \in Callers
  BY <1>3 DEF Callers
<1>10. Caller(v, th, q, r, D, n)
  BY <1>1, <1>2, <1>3, <1>4, <1>5, <1>6, <1>7, <1>8, <1>9 DEF Caller, Prepared
<1>11. QED
  BY <1>10 DEF r
\* A thread in which no call is active that makes it not yieldable.
LEMMA YieldableIs ==
  ASSUME NEW M, NEW D, NEW n, NEW q, NEW t, NEW th, Stacks(M, D, n, q, t, th), th.nny = 0
  PROVE  Yieldable(D, t, n) /\ n # 1
<1>1. /\ Good(M, D) /\ n = Len(D) /\ q = D[n] /\ t = q.t /\ n \in Nat /\ th.nny = Ny(D, t, n) + MainNy(t)
  BY DEF Stacks
<1>2. Ny(D, t, n) \in Nat /\ (Ny(D, t, n) = 0 <=> \A i \in 1..n : D[i].t = t => ~IsNy(D[i]))
  BY <1>1, NyZero
<1>3. t # "main" /\ Ny(D, t, n) = 0
  BY <1>1, <1>2 DEF MainNy
<1>4. D[1].t = "main"
  BY <1>1, GoodIs
<1>5. QED
  BY <1>1, <1>2, <1>3, <1>4 DEF Yieldable
LEMMA CallCaller ==
  ASSUME NEW M, NEW D, NEW n, NEW q, NEW t, NEW th, Stacks(M, D, n, q, t, th), NEW v, Prepared(v, th, q), n # 1,
         NEW what, NEW ny, ny \in BOOLEAN, NEW x, x.ci = th.ci,
         \/ what = "call" /\ ny /\ q.a = "C" /\ q.at = Len(th.ci) /\ ~Ci(v).yp
         \/ what = "call" /\ ~ny /\ q.a = "C" /\ q.at = Len(th.ci) /\ ~Ci(v).yp /\ th.nny = 0 /\ Ci(v).k \in Ks
         \/ what = "ypcall" /\ ~ny /\ q.a = "C" /\ q.at = Len(th.ci) /\ th.nny = 0 /\ Ci(v).k \in Ks
         \/ what = "tm" /\ ~ny /\ q.a = "exec" /\ InExec(q, Len(v.ci), v)
  PROVE  Caller(v, th, q, CallRecord(what, t, x, ny), D, n)
<1> DEFINE r == CallRecord(what, t, x, ny)
<1>1. /\ n = Len(D) /\ q = D[n] /\ t = q.t /\ n \in Nat /\ q \in Record /\ t \in Threads /\ IsThread(th)
      /\ Len(th.ci) \in Nat /\ Len(th.ci) >= 1
  BY DEF Stacks
<1>2. IsThread(v) /\ Len(v.ci) = Len(th.ci) /\ Ci(v) = v.ci[Len(v.ci)] /\ Ci(v) \in Frame
  BY ThreadIs DEF Prepared
<1>3. /\ r.a = what /\ r.t = t /\ r.at = Len(th.ci) /\ r.ny = ny
  BY DEF CallRecord
<1>4. r \in Record
  <2>1. Len(x.ci) \in Places /\ what \in {"call", "ypcall", "tm", "errormsg"}
    BY <1>1 DEF Places
  <2>2. r \in [a : {"call", "ypcall", "tm", "errormsg"}, t : Threads, at : Places, ny : BOOLEAN]
    BY <1>1, <2>1 DEF CallRecord
  <2> HIDE DEF r
  <2>3. QED
    BY <2>2 DEF Record
<1> HIDE DEF r
<1>5. Linked(q, r, v)
  BY <1>2, <1>3 DEF Linked
<1>6. Placed(r, v)
  BY <1>2, <1>3 DEF Placed, Free
<1>7. Saved(r, D, n)
  <2>1. Free(r) => th.nny = 0 /\ r.t = t
    BY <1>3 DEF Free
  <2>2. th.nny = 0 => Yieldable(D, t, n)
    BY YieldableIs
  <2>3. r.a # "pcall" /\ r.a # "resume"
    BY <1>3
  <2>4. QED
    BY <2>1, <2>2, <2>3 DEF Saved
<1>8. q.a = "C" => (v.ci[q.at].yp => r.a = "ypcall" /\ r.at = q.at)
  BY <1>2, <1>3
<1>9. r.a \in Callers
  BY <1>3 DEF Callers
<1>10. Caller(v, th, q, r, D, n)
  BY <1>1, <1>2, <1>3, <1>4, <1>5, <1>6, <1>7, <1>8, <1>9 DEF Caller, Prepared
<1>11. QED
  BY <1>10 DEF r
\* The stack holds the function at func and its arguments.
Loaded(w, th, func) ==
  /\ IsThread(w) /\ Slots(w) /\ Rest6(w, th) /\ w.ci = th.ci /\ func \in Nat /\ func >= 2 /\ func <= Len(w.stack)
LEMMA LoadedIs ==
  ASSUME NEW th, IsThread(th), Slots(th), NEW s, SeqIs(s), Len(s) <= lim(th) + 3, NEW w, w = PutStack(th, s),
         NEW func \in Nat, func >= 2, func <= Len(s)
  PROVE  Loaded(w, th, func)
<1>1. IsThread(w) /\ Slots(w) /\ w.stack = s /\ w.ci = th.ci /\ Rest6(w, th)
  BY StackChanged
<1>2. QED
  BY <1>1 DEF Loaded
LEMMA LoadedAgrees ==
  ASSUME NEW th, IsThread(th), NEW u, u.ci = th.ci
  PROVE  AgreeAll(u, th) /\ Ci(u) = Ci(th)
<1>1. \A i \in 1..Len(th.ci) : Agree(u.ci[i], th.ci[i])
  BY SameIs DEF Same
<1>2. QED
  BY <1>1 DEF AgreeAll, Ci
LEMMA PcallOutcome ==
  ASSUME NEW z, GoodZ(z), z.err = "none", Last(z.C).a \in {"C", "docall"}, ~Last(z.C).back,
         Last(z.C).at = Len(Th(z).ci), ~Ci(Th(z)).yp, NEW w, NEW func, Loaded(w, Th(z), func),
         func >= Ci(Th(z)).func, func <= Ci(Th(z)).top, NEW e \in Nat, NEW nres \in {-1, 0, 1, 2}
  PROVE  Outcome(luaD_pcall(z, w, func, e, nres))
<1> DEFINE v == PutErrfunc(w, e)
           t == T(z)
           th == Th(z)
           q == Last(z.C)
           n == Len(z.C)
           r == PcallRecord(t, w, func)
           u == Counted(v, r)
           y == luaD_pcall(z, w, func, e, nres)
<1>1. Stacks(z.L, z.C, n, q, t, th)
  BY StacksIs
<1>2. y = luaD_call(On(z, v), r, func, nres)
  BY DEF luaD_pcall, PutErrfunc, PcallRecord
<1> HIDE DEF y, u, r, n, q, th, t
<1>3. /\ IsThread(w) /\ Slots(w) /\ Rest6(w, th) /\ w.ci = th.ci /\ func \in Nat /\ func >= 2 /\ func <= Len(w.stack)
      /\ IsThread(th)
  BY <1>1 DEF Loaded, th, Stacks
<1>4. /\ IsThread(v) /\ v.status = w.status /\ v.stack = w.stack /\ v.ci = w.ci /\ v.nny = w.nny
      /\ v.nCcalls = w.nCcalls /\ v.big = w.big
  <2>1. v = PutErrfunc(w, e)
    OBVIOUS
  <2> HIDE DEF v
  <2>2. QED
    BY <1>3, <2>1, SetErrfunc
<1> HIDE DEF v
<1>5. AgreeAll(v, th) /\ Ci(v) = Ci(th)
  BY <1>3, <1>4, LoadedAgrees
<1>6. Slots(v)
  BY <1>3, <1>4 DEF Slots, lim
<1>7. Prepared(v, th, q)
  BY <1>1, <1>3, <1>4, <1>5, <1>6, PreparedAll DEF Rest6
<1>8. Caller(v, th, q, r, z.C, n)
  <2>1. q.a \in {"C", "docall"} /\ ~q.back /\ q.at = Len(th.ci) /\ ~Ci(v).yp /\ func >= Ci(v).func /\ func <= Ci(v).top
    BY <1>5 DEF q, th
  <2>2. w.nny = th.nny /\ w.nCcalls = th.nCcalls
    BY <1>3 DEF Rest6
  <2>3. QED
    BY <1>1, <1>3, <1>7, <2>1, <2>2, PcallCaller DEF r
<1>9. CallOutcome(u, y)
  <2>1. Caller(v, Th(z), Last(z.C), r, z.C, Len(z.C))
    BY <1>8 DEF th, q, n
  <2>2. func <= Len(v.stack)
    BY <1>3, <1>4
  <2>3. CallOutcome(Counted(v, r), luaD_call(On(z, v), r, func, nres))
    BY <1>3, <2>1, <2>2, CallStarts
  <2>4. QED
    BY <1>2, <2>3 DEF u
<1>10. Outcome(y)
  BY <1>9, OutcomeIs
<1>11. QED
  BY <1>10 DEF y
LEMMA YpcallOutcome ==
  ASSUME NEW z, GoodZ(z), z.err = "none", Last(z.C).a = "C", Last(z.C).at = Len(Th(z).ci), Len(Th(z).ci) >= 2,
         ~Ci(Th(z)).lua, Th(z).nny = 0, NEW w, NEW func, Loaded(w, Th(z), func), func <= Ci(Th(z)).top,
         NEW e \in Nat, NEW k \in Protects, NEW nres \in {-1, 0, 1, 2}
  PROVE  Outcome(luaD_call(On(z, ypcall(w, func, e, k)), Rec("ypcall", z, FALSE), func, nres))
<1> DEFINE v == ypcall(w, func, e, k)
           t == T(z)
           th == Th(z)
           q == Last(z.C)
           n == Len(z.C)
           r == Rec("ypcall", z, FALSE)
           u == Counted(v, r)
           y == luaD_call(On(z, v), r, func, nres)
<1>1. Stacks(z.L, z.C, n, q, t, th)
  BY StacksIs
<1>2. r = CallRecord("ypcall", t, th, FALSE)
  BY DEF Rec, CallRecord
<1> HIDE DEF y, u, r, n, q, th, t
<1>3. /\ IsThread(w) /\ Slots(w) /\ Rest6(w, th) /\ w.ci = th.ci /\ func \in Nat /\ func >= 2 /\ func <= Len(w.stack)
      /\ IsThread(th) /\ th.status = "OK"
  BY <1>1 DEF Loaded, th, Stacks
<1>4. IsYpcall(v, w, k)
  <2>1. Ci(w) = Ci(th) /\ Len(w.ci) >= 2 /\ ~Ci(w).lua /\ ~errorstatus(w.status) /\ func <= Ci(w).top
    BY <1>3, LoadedAgrees DEF th, Rest6, errorstatus
  <2>2. Ci(w).top \in Nat
    BY <1>3, <2>1, TopFrame
  <2>3. func \in 1..Ci(w).top
    BY <1>3, <2>1, <2>2
  <2>4. QED
    BY <1>3, <2>1, <2>3, YpcallIs
<1> HIDE DEF v
<1>5. /\ IsThread(v) /\ Slots(v) /\ v.stack = w.stack /\ Len(v.ci) = Len(th.ci)
      /\ v.status = th.status /\ v.nny = th.nny /\ v.nCcalls = th.nCcalls
      /\ \A i \in 1..(Len(th.ci) - 1) : v.ci[i] = th.ci[i]
      /\ Ci(v).k = k /\ ~Ci(v).lua
  BY <1>3, <1>4 DEF IsYpcall, Rest6
<1>6. q.a = "C" /\ q.at = Len(th.ci) /\ ~Ci(th).lua /\ th.nny = 0
  BY DEF q, th
<1>7. Prepared(v, th, q)
  <2>1. Ci(v).lua = Ci(th).lua
    <3>1. Ci(v).lua \in BOOLEAN /\ Ci(th).lua \in BOOLEAN
      BY <1>3, <1>5, ThreadIs, FrameIs
    <3>2. QED
      BY <1>5, <1>6, <3>1
  <2>2. QED
    BY <1>1, <1>5, <1>6, <2>1, PreparedC
<1>8. Caller(v, th, q, r, z.C, n)
  <2>1. n # 1
    BY <1>1, <1>6, YieldableIs
  <2>2. Ci(v).k \in Ks /\ FALSE \in BOOLEAN
    BY <1>5 DEF Ks, Protects
  <2> DEFINE what == "ypcall"
  <2>3. what = "ypcall" /\ r = CallRecord(what, t, th, FALSE)
    BY <1>2
  <2> HIDE DEF what
  <2>4. QED
    BY <1>1, <1>6, <1>7, <2>1, <2>2, <2>3, CallCaller
<1>9. CallOutcome(u, y)
  <2>1. Caller(v, Th(z), Last(z.C), r, z.C, Len(z.C))
    BY <1>8 DEF th, q, n
  <2>2. func <= Len(v.stack)
    BY <1>3, <1>5
  <2>3. CallOutcome(Counted(v, r), luaD_call(On(z, v), r, func, nres))
    BY <1>3, <2>1, <2>2, CallStarts
  <2>4. QED
    BY <2>3 DEF u, y
<1>10. Outcome(y)
  BY <1>9, OutcomeIs
<1>11. QED
  BY <1>10 DEF y, v, r
\* What a C function that starts has.
Starts(z) == RestZ(z) /\ Last(z.C).a = "C" /\ ~Last(z.C).back
LEMMA StartsIs ==
  ASSUME NEW z, Starts(z)
  PROVE  LET th == Th(z)
         IN /\ Held(th) /\ Last(z.C).at = Len(th.ci) /\ ~Ci(th).yp /\ ~Ci(th).lua /\ GoodZ(z) /\ z.err = "none"
            /\ Ci(th).func <= Len(th.stack) /\ Len(th.stack) + LUA_MINSTACK <= Ci(th).top /\ Ci(th).top <= lim(th)
            /\ IsThread(th) /\ Slots(th) /\ Len(th.stack) \in Nat /\ Ci(th).top \in Nat /\ lim(th) \in Nat
            /\ Ci(th).func \in Nat /\ Ci(th).func >= 2 /\ Len(th.ci) >= 2 /\ SeqIs(th.stack) /\ th.nny \in Nat
<1> DEFINE th == Th(z)
<1>1. Held(th) /\ Last(z.C).at = Len(th.ci) /\ ~Ci(th).yp /\ ~Ci(th).lua
  BY RestHeld DEF Starts
<1>2. GoodZ(z) /\ z.err = "none" /\ AtRest(Last(z.C), th)
  BY DEF Starts, RestZ
<1>3. Ci(th).func <= Len(th.stack) /\ Len(th.stack) + LUA_MINSTACK <= Ci(th).top
  <2>1. Last(z.C).a = "C" /\ ~Last(z.C).back
    BY DEF Starts
  <2> HIDE DEF th
  <2>2. QED
    BY <1>2, <2>1 DEF AtRest
<1>4. IsThread(th) /\ Slots(th) /\ ~errorstatus(th.status) /\ Len(th.ci) >= 2
  BY <1>1 DEF Held
<1>5. th.nny \in Nat
  <2>1. th.nny = Ny(z.C, T(z), Len(z.C)) + MainNy(T(z)) /\ Ny(z.C, T(z), Len(z.C)) \in Nat
    BY <1>2, ZIs
  <2>2. QED
    BY <2>1 DEF MainNy
<1> HIDE DEF th
<1>6. /\ Ci(th).top <= lim(th) /\ Len(th.stack) \in Nat /\ Ci(th).top \in Nat /\ lim(th) \in Nat
      /\ Ci(th).func \in Nat /\ Ci(th).func >= 2
  BY <1>4, TopFrame
<1>7. SeqIs(th.stack)
  BY <1>4, ThreadIs
<1>8. QED
  BY <1>1, <1>2, <1>3, <1>4, <1>5, <1>6, <1>7 DEF th
LEMMA PcallkOutcome ==
  ASSUME NEW z, Starts(z), NEW w, NEW func, Loaded(w, Th(z), func), func >= Ci(Th(z)).func, func <= Ci(Th(z)).top,
         NEW e \in Nat, NEW k \in Protects
  PROVE  Outcome(lua_pcallk(z, w, func, e, k))
<1> DEFINE y == lua_pcallk(z, w, func, e, k)
           m == -1
<1>1. /\ Last(z.C).at = Len(Th(z).ci) /\ ~Ci(Th(z)).yp /\ ~Ci(Th(z)).lua /\ GoodZ(z) /\ z.err = "none"
      /\ Len(Th(z).ci) >= 2 /\ Th(z).nny \in Nat
  BY StartsIs
<1>2. m \in {-1, 0, 1, 2} /\ Last(z.C).a = "C" /\ ~Last(z.C).back /\ w.nny = Th(z).nny
  BY DEF Starts, Loaded, Rest6
<1>3. CASE w.nny > 0
  <2>1. y = luaD_pcall(z, w, func, e, m)
    BY <1>3 DEF lua_pcallk
  <2> HIDE DEF y, m
  <2>2. Outcome(luaD_pcall(z, w, func, e, m))
    BY <1>1, <1>2, PcallOutcome
  <2>3. QED
    BY <2>1, <2>2 DEF y
<1>4. CASE ~(w.nny > 0)
  <2>1. y = luaD_call(On(z, ypcall(w, func, e, k)), Rec("ypcall", z, FALSE), func, m)
    BY <1>4 DEF lua_pcallk
  <2>2. Th(z).nny = 0
    BY <1>1, <1>2, <1>4
  <2> HIDE DEF y, m
  <2>3. Outcome(luaD_call(On(z, ypcall(w, func, e, k)), Rec("ypcall", z, FALSE), func, m))
    BY <1>1, <1>2, <2>2, YpcallOutcome
  <2>4. QED
    BY <2>1, <2>3 DEF y
<1>5. QED
  BY <1>3, <1>4
LEMMA OnSelf == ASSUME NEW z, GoodZ(z) PROVE On(z, Th(z)) = z
<1> DEFINE t == T(z)
           w == On(z, Th(z))
           M == z.L
<1>1. IsZ(z) /\ t \in Threads /\ M = [s \in Threads |-> M[s]] /\ Th(z) = M[t]
  BY ZIs DEF GoodZ
<1>2. IsZ(w) /\ w.L = [M EXCEPT ![t] = Th(z)] /\ w.C = z.C /\ w.err = z.err
  BY <1>1, OnIs
<1> HIDE DEF w
<1>3. w.L = M
  BY <1>1, <1>2
<1>4. w = z
  BY <1>1, <1>2, <1>3 DEF IsZ
<1>5. QED
  BY <1>4 DEF w
\* A C function that is about to call.
Ready(x, func) ==
  /\ GoodZ(x) /\ x.err = "none" /\ Last(x.C).a = "C" /\ ~Last(x.C).back /\ Last(x.C).at = Len(Th(x).ci)
  /\ ~Ci(Th(x)).yp /\ ~Ci(Th(x)).lua /\ Len(Th(x).ci) >= 2 /\ func \in Nat /\ func >= 2 /\ func <= Len(Th(x).stack)
LEMMA LoadedReady ==
  ASSUME NEW z, Starts(z), NEW w, NEW func, Loaded(w, Th(z), func)
  PROVE  Ready(On(z, w), func)
<1> DEFINE th == Th(z)
           r == Last(z.C)
           x == On(z, w)
<1>1. /\ r.at = Len(th.ci) /\ ~Ci(th).yp /\ ~Ci(th).lua /\ GoodZ(z) /\ z.err = "none" /\ Len(th.ci) >= 2 /\ IsThread(th)
  BY StartsIs
<1>2. r.a = "C" /\ ~r.back
  BY DEF Starts
<1>3. /\ IsThread(w) /\ Slots(w) /\ Rest6(w, th) /\ w.ci = th.ci /\ func \in Nat /\ func >= 2 /\ func <= Len(w.stack)
  BY DEF Loaded
<1>4. Adjusted(w, th, r)
  <2> HIDE DEF th, r
  <2>1. AgreeAll(w, th) /\ Ci(w) = Ci(th)
    BY <1>1, <1>3, LoadedAgrees
  <2>2. Len(w.ci) = Len(th.ci) /\ \A i \in 1..Len(th.ci) : Agree(w.ci[i], th.ci[i])
    BY <2>1 DEF AgreeAll
  <2>3. ~w.ci[r.at].yp
    <3>1. Ci(w) = w.ci[Len(w.ci)]
      BY DEF Ci, Last
    <3>2. QED
      BY <1>1, <2>1, <2>2, <3>1
  <2>4. Len(th.ci) \in Nat
    BY <1>1, ThreadIs
  <2>5. \A i \in (r.at + 1)..Len(th.ci) : FALSE
    BY <1>1, <2>4
  <2>6. Below(w, th, r)
    BY <1>1, <2>2, <2>4 DEF Below
  <2>7. QED
    BY <1>3, <2>2, <2>3, <2>5, <2>6 DEF Adjusted, Rest6
<1>5. GoodZ(x) /\ Th(x) = w /\ x.err = z.err /\ Last(x.C) = r
  <2> HIDE DEF x
  <2>1. QED
    BY <1>1, <1>4, AdjustedGood DEF x
<1> HIDE DEF x, th, r
<1>6. Ci(w) = Ci(th)
  BY <1>3 DEF Ci
<1>7. Ready(x, func)
  BY <1>1, <1>2, <1>3, <1>5, <1>6 DEF Ready
<1>8. QED
  BY <1>7 DEF x
LEMMA StartsReady ==
  ASSUME NEW z, Starts(z), NEW func, func \in Nat, func >= 2, func <= Len(Th(z).stack)
  PROVE  Ready(z, func)
<1>1. /\ Last(z.C).at = Len(Th(z).ci) /\ ~Ci(Th(z)).yp /\ ~Ci(Th(z)).lua /\ GoodZ(z) /\ z.err = "none" /\ Len(Th(z).ci) >= 2
  BY StartsIs
<1>2. QED
  BY <1>1 DEF Starts, Ready
\* A call that another one may not continue, or one that the continuation k may.
LEMMA ReadyCall ==
  ASSUME NEW z, NEW func, Ready(z, func), NEW nres \in {-1, 0, 1, 2}, NEW v, NEW ny, ny \in BOOLEAN,
         \/ ny /\ v = Th(z)
         \/ ~ny /\ Th(z).nny = 0 /\ \E k \in Ks : HasContinuation(v, Th(z), k)
  PROVE  Outcome(luaD_call(On(z, v), Rec("call", z, ny), func, nres))
<1> DEFINE t == T(z)
           th == Th(z)
           q == Last(z.C)
           n == Len(z.C)
           r == Rec("call", z, ny)
           u == Counted(v, r)
           y == luaD_call(On(z, v), r, func, nres)
<1>0. GoodZ(z) /\ z.err = "none"
  BY DEF Ready
<1>1. Stacks(z.L, z.C, n, q, t, th)
  BY <1>0, StacksIs
<1>2. r = CallRecord("call", t, th, ny)
  BY DEF Rec, CallRecord
<1>3. /\ q.a = "C" /\ ~q.back /\ q.at = Len(th.ci) /\ ~Ci(th).yp /\ ~Ci(th).lua /\ Len(th.ci) >= 2 /\ func \in Nat
      /\ func >= 2 /\ func <= Len(th.stack)
  BY DEF Ready
<1> HIDE DEF y, u, r, n, q, th, t
<1>4. IsThread(th) /\ Slots(th) /\ th.status = "OK" /\ Good(z.L, z.C) /\ n = Len(z.C) /\ n \in Nat /\ q = z.C[n]
  BY <1>1 DEF Stacks
<1>5. \/ ny /\ v = th
      \/ ~ny /\ th.nny = 0 /\ \E k \in Ks : HasContinuation(v, th, k)
  BY DEF th
<1>6. Prepared(v, th, q) /\ ~Ci(v).yp /\ v.stack = th.stack /\ (~ny => Ci(v).k \in Ks)
  <2>1. CASE ny /\ v = th
    <3>1. AgreeAll(th, th)
      BY <1>4, LoadedAgrees
    <3>2. Prepared(th, th, q)
      BY <1>1, <1>4, <3>1, PreparedAll
    <3>3. QED
      BY <1>3, <2>1, <3>2
  <2>2. ASSUME ~ny, NEW k \in Ks, HasContinuation(v, th, k)
        PROVE  Prepared(v, th, q) /\ ~Ci(v).yp /\ v.stack = th.stack /\ Ci(v).k \in Ks
    <3>1. /\ IsThread(v) /\ Slots(v) /\ v.stack = th.stack /\ Rest6(v, th) /\ Len(v.ci) = Len(th.ci)
          /\ (\A i \in 1..(Len(th.ci) - 1) : v.ci[i] = th.ci[i])
          /\ Ci(v).k = k /\ ~Ci(v).yp /\ Ci(v).lua = Ci(th).lua
      BY <2>2 DEF HasContinuation
    <3>2. Prepared(v, th, q)
      BY <1>1, <1>3, <3>1, PreparedC DEF Rest6
    <3>3. QED
      BY <3>1, <3>2
  <2>3. QED
    BY <1>5, <2>1, <2>2
<1>7. n # 1
  <2>1. z.C[1].a = "docall"
    BY <1>4, GoodIs
  <2>2. QED
    BY <1>3, <1>4, <2>1
<1>8. Caller(v, th, q, r, z.C, n)
  <2> DEFINE what == "call"
  <2>1. /\ what = "call" /\ r = CallRecord(what, t, th, ny)
    BY <1>2
  <2> HIDE DEF what
  <2>2. \/ what = "call" /\ ny /\ q.a = "C" /\ q.at = Len(th.ci) /\ ~Ci(v).yp
        \/ what = "call" /\ ~ny /\ q.a = "C" /\ q.at = Len(th.ci) /\ ~Ci(v).yp /\ th.nny = 0 /\ Ci(v).k \in Ks
    BY <1>3, <1>5, <1>6, <2>1
  <2>3. QED
    BY <1>1, <1>6, <1>7, <2>1, <2>2, CallCaller
<1>9. CallOutcome(u, y)
  <2>1. Caller(v, Th(z), Last(z.C), r, z.C, Len(z.C))
    BY <1>8 DEF th, q, n
  <2>2. func <= Len(v.stack)
    BY <1>3, <1>6
  <2>3. CallOutcome(Counted(v, r), luaD_call(On(z, v), r, func, nres))
    BY <1>0, <1>3, <2>1, <2>2, CallStarts
  <2>4. QED
    BY <2>3 DEF u, y
<1>10. Outcome(y)
  BY <1>9, OutcomeIs
<1>11. QED
  BY <1>10 DEF y, r
LEMMA CallkOutcome ==
  ASSUME NEW z, NEW func, Ready(z, func), NEW nres \in {-1, 0, 1, 2}, NEW k \in Ks \cup {"none"}
  PROVE  Outcome(lua_callk(z, func, nres, k))
<1> DEFINE y == lua_callk(z, func, nres, k)
           th == Th(z)
           v == OnCi(th, [Ci(th) EXCEPT !.k = k])
<1>1. CASE k # "none" /\ th.nny = 0
  <2>1. y = luaD_call(On(z, v), Rec("call", z, FALSE), func, nres)
    BY <1>1 DEF lua_callk
  <2>2. k \in Ks
    BY <1>1
  <2>3. GoodZ(z) /\ ~Ci(th).yp
    BY DEF Ready
  <2>4. IsThread(th) /\ Slots(th) /\ ~errorstatus(th.status)
    BY <2>3, ZIs DEF errorstatus
  <2>5. HasContinuation(v, th, k)
    BY <2>2, <2>3, <2>4, ContinuationSet
  <2> HIDE DEF v, y
  <2>6. Outcome(luaD_call(On(z, v), Rec("call", z, FALSE), func, nres))
    <3>1. FALSE \in BOOLEAN /\ Th(z).nny = 0 /\ \E j \in Ks : HasContinuation(v, Th(z), j)
      BY <1>1, <2>2, <2>5
    <3>2. QED
      BY <3>1, ReadyCall
  <2>7. QED
    BY <2>1, <2>6 DEF y
<1>2. CASE ~(k # "none" /\ th.nny = 0)
  <2>1. y = luaD_call(z, Rec("call", z, TRUE), func, nres)
    BY <1>2 DEF lua_callk
  <2> HIDE DEF y, th
  <2>2. On(z, th) = z
    BY OnSelf DEF Ready, th
  <2>3. Outcome(luaD_call(On(z, th), Rec("call", z, TRUE), func, nres))
    <3>1. TRUE \in BOOLEAN
      OBVIOUS
    <3>2. QED
      BY <3>1, ReadyCall DEF th
  <2>4. QED
    BY <2>1, <2>2, <2>3 DEF y
<1>3. QED
  BY <1>1, <1>2
-----------------------------------------------------------------------------
(* The functions of the library that call.                                 *)

LEMMA InsertedFits ==
  ASSUME NEW th, IsThread(th), NEW n \in Int, 1 <= n, n <= Len(th.stack) + 1, NEW e
  PROVE  SeqIs(InsertAt(th.stack, n, e)) /\ Len(InsertAt(th.stack, n, e)) = Len(th.stack) + 1
BY ThreadIs, Inserted
LEMMA PcallStarts ==
  ASSUME NEW z, Starts(z), gettop(Th(z)) > 0
  PROVE  Outcome(lua_pcallk(z, [Th(z) EXCEPT !.stack = InsertAt(@, Ci(Th(z)).func + 1, "true")],
                            Ci(Th(z)).func + 2, 0, "pcall"))
<1> DEFINE th == Th(z)
           f == Ci(th).func
           e == "true"
           a == f + 1
           b == f + 2
           s == InsertAt(th.stack, a, e)
           w == PutStack(th, s)
           k == "pcall"
           o == 0
           y == lua_pcallk(z, w, b, o, k)
<1>1. /\ Ci(th).func <= Len(th.stack) /\ Len(th.stack) + LUA_MINSTACK <= Ci(th).top /\ Ci(th).top <= lim(th)
      /\ IsThread(th) /\ Slots(th) /\ Len(th.stack) \in Nat /\ Ci(th).top \in Nat /\ lim(th) \in Nat
      /\ Ci(th).func \in Nat /\ Ci(th).func >= 2
  BY StartsIs
<1>2. LUA_MINSTACK \in Nat /\ LUA_MINSTACK >= 3
  BY Sizes
<1>3. gettop(th) > 0
  OBVIOUS
<1> HIDE DEF th, e
<1>4. a \in Int /\ 1 <= a /\ a <= Len(th.stack) + 1 /\ b \in Nat /\ b >= 2 /\ b <= Len(th.stack) + 1 /\ b >= f /\ b <= Ci(th).top
  BY <1>1, <1>2, <1>3 DEF gettop
<1> HIDE DEF a, b
<1>5. SeqIs(s) /\ Len(s) = Len(th.stack) + 1
  BY <1>1, <1>4, InsertedFits
<1>6. Len(s) <= lim(th) + 3
  BY <1>1, <1>2, <1>5
<1>7. w = PutStack(th, s)
  OBVIOUS
<1> HIDE DEF w, s
<1>8. Loaded(w, th, b)
  BY <1>1, <1>4, <1>5, <1>6, <1>7, LoadedIs
<1>9. k \in Protects /\ o \in Nat
  BY DEF Protects
<1> HIDE DEF k, o, y
<1>10. Outcome(lua_pcallk(z, w, b, o, k))
  <2>1. b >= Ci(Th(z)).func /\ b <= Ci(Th(z)).top /\ Loaded(w, Th(z), b)
    BY <1>4, <1>8 DEF th, f
  <2>2. QED
    BY <1>9, <2>1, PcallkOutcome
<1>11. QED
  BY <1>10 DEF w, s, a, b, e, k, o, th, f, PutStack
LEMMA XpcallStarts ==
  ASSUME NEW z, Starts(z), gettop(Th(z)) > 1, NEW h
  PROVE  Outcome(lua_pcallk(z, [Th(z) EXCEPT !.stack = InsertAt(InsertAt(@, Ci(Th(z)).func + 3, "true"),
                                                                Ci(Th(z)).func + 4, h)],
                            Ci(Th(z)).func + 4, Ci(Th(z)).func + 2, "xpcall"))
<1> DEFINE th == Th(z)
           f == Ci(th).func
           e == "true"
           a == f + 3
           b == f + 4
           v == InsertAt(th.stack, a, e)
           s == InsertAt(v, b, h)
           w == PutStack(th, s)
           k == "xpcall"
           o == f + 2
           y == lua_pcallk(z, w, b, o, k)
<1>1. /\ Ci(th).func <= Len(th.stack) /\ Len(th.stack) + LUA_MINSTACK <= Ci(th).top /\ Ci(th).top <= lim(th)
      /\ IsThread(th) /\ Slots(th) /\ Len(th.stack) \in Nat /\ Ci(th).top \in Nat /\ lim(th) \in Nat
      /\ Ci(th).func \in Nat /\ Ci(th).func >= 2
  BY StartsIs
<1>2. LUA_MINSTACK \in Nat /\ LUA_MINSTACK >= 3
  BY Sizes
<1>3. gettop(th) > 1
  OBVIOUS
<1> HIDE DEF th, e
<1>4. /\ a \in Int /\ 1 <= a /\ a <= Len(th.stack) + 1 /\ b \in Nat /\ b \in Int /\ 1 <= b /\ b >= 2
      /\ b <= Len(th.stack) + 2 /\ b >= f /\ b <= Ci(th).top /\ o \in Nat
  <2> DEFINE n == Len(th.stack)
             g == Ci(th).top
  <2>1. f \in Nat /\ n \in Nat /\ g \in Nat /\ n + LUA_MINSTACK <= g
    BY <1>1
  <2>2. f + 2 <= n
    BY <1>1, <1>3 DEF gettop
  <2> HIDE DEF f, n, g
  <2>3. n + 3 <= g
    BY <1>2, <2>1
  <2>4. /\ a \in Int /\ 1 <= a /\ a <= n + 1 /\ b \in Nat /\ b \in Int /\ 1 <= b /\ b >= 2
        /\ b <= n + 2 /\ b >= f /\ b <= g /\ o \in Nat
    BY <2>1, <2>2, <2>3
  <2>5. QED
    BY <2>4 DEF n, g
<1> HIDE DEF a, b, o
<1>5. SeqIs(v) /\ Len(v) = Len(th.stack) + 1
  BY <1>1, <1>4, InsertedFits
<1> HIDE DEF v
<1>6. SeqIs(s) /\ Len(s) = Len(th.stack) + 2
  <2>1. b <= Len(v) + 1
    BY <1>1, <1>4, <1>5
  <2>2. SeqIs(s) /\ Len(s) = Len(v) + 1
    BY <1>4, <1>5, <2>1, Inserted
  <2> HIDE DEF s
  <2>3. QED
    BY <1>1, <1>5, <2>2
<1>7. w = PutStack(th, s)
  OBVIOUS
<1> HIDE DEF w, s
<1>8. Len(s) <= lim(th) + 3 /\ b <= Len(s)
  BY <1>1, <1>2, <1>4, <1>6
<1>9. Loaded(w, th, b)
  BY <1>1, <1>4, <1>6, <1>7, <1>8, LoadedIs
<1>10. k \in Protects
  BY DEF Protects
<1> HIDE DEF k, y
<1>11. Outcome(lua_pcallk(z, w, b, o, k))
  <2>1. b >= Ci(Th(z)).func /\ b <= Ci(Th(z)).top /\ Loaded(w, Th(z), b)
    BY <1>4, <1>9 DEF th, f
  <2>2. QED
    BY <1>4, <1>10, <2>1, PcallkOutcome
<1>12. QED
  BY <1>11 DEF w, s, v, a, b, e, k, o, th, f, PutStack
\* lua_settop(L, 1).
LEMMA Settop1Is ==
  ASSUME NEW z, Starts(z)
  PROVE  /\ IsThread(settop1(Th(z))) /\ Slots(settop1(Th(z))) /\ Rest6(settop1(Th(z)), Th(z))
         /\ settop1(Th(z)).ci = Th(z).ci /\ Len(settop1(Th(z)).stack) = Ci(Th(z)).func + 1
         /\ lim(settop1(Th(z))) = lim(Th(z))
<1> DEFINE th == Th(z)
           f == Ci(th).func
           b == <<"nil">>
           v == th.stack \o b
           s == SubSeq(v, 1, f + 1)
           w == PutStack(th, s)
<1>1. /\ Ci(th).func <= Len(th.stack) /\ Len(th.stack) + LUA_MINSTACK <= Ci(th).top /\ Ci(th).top <= lim(th)
      /\ IsThread(th) /\ Slots(th) /\ Len(th.stack) \in Nat /\ Ci(th).top \in Nat /\ lim(th) \in Nat
      /\ Ci(th).func \in Nat /\ Ci(th).func >= 2 /\ SeqIs(th.stack)
  BY StartsIs
<1>2. LUA_MINSTACK \in Nat /\ LUA_MINSTACK >= 3
  BY Sizes
<1>3. SeqIs(b) /\ Len(b) = 1
  BY Fixed
<1>4. settop1(th) = w
  BY DEF settop1, PutStack
<1> HIDE DEF th, b
<1>5. SeqIs(v)
  BY <1>1, <1>3, Joined
<1> HIDE DEF v
<1>6. SeqIs(s) /\ Len(s) = f + 1
  <2>1. f + 1 \in Int /\ 1 <= f + 1 /\ 1 \in Int /\ (f + 1) - 1 + 1 = f + 1
    BY <1>1
  <2> DEFINE m == f + 1
  <2>2. m \in Int /\ 1 <= m /\ m - 1 + 1 = m
    BY <2>1
  <2> HIDE DEF m
  <2>3. SeqIs(SubSeq(v, 1, m)) /\ Len(SubSeq(v, 1, m)) = m
    BY <1>5, <2>2, Cut
  <2>4. QED
    BY <2>3 DEF m
<1>7. w = PutStack(th, s)
  OBVIOUS
<1> HIDE DEF w, s
<1>8. Len(s) <= lim(th) + 3
  BY <1>1, <1>2, <1>6
<1>9. IsThread(w) /\ Slots(w) /\ w.stack = s /\ w.ci = th.ci /\ Rest6(w, th) /\ lim(w) = lim(th)
  BY <1>1, <1>6, <1>7, <1>8, StackChanged
<1>10. QED
  BY <1>4, <1>6, <1>9 DEF th, f
LEMMA ReadyThrows ==
  ASSUME NEW z, NEW func, Ready(z, func)
  PROVE  Throwing(z)
<1>1. Stacks(z.L, z.C, Len(z.C), Last(z.C), T(z), Th(z))
  BY StacksIs DEF Ready
<1>2. Good(z.L, z.C) /\ Len(z.C) \in Nat /\ Len(z.C) >= 1 /\ Last(z.C) = z.C[Len(z.C)]
  BY <1>1 DEF Stacks
<1>3. z.C[1].a = "docall"
  BY <1>2, GoodIs
<1>4. Len(z.C) # 1
  BY <1>2, <1>3 DEF Ready
<1>5. Len(z.C) >= 2
  <2>1. \A k \in Nat : k >= 1 /\ k # 1 => k >= 2
    OBVIOUS
  <2>2. QED
    BY <1>2, <1>4, <2>1
<1>6. QED
  BY <1>5 DEF Ready, Throwing
LEMMA DofileStarts ==
  ASSUME NEW z, Starts(z)
  PROVE  Outcome(lua_callk(On(z, Push(settop1(Th(z)), "f")), Ci(Th(z)).func + 2, -1, "dofile"))
<1> DEFINE th == Th(z)
           u == settop1(th)
           e == "f"
           s == Append(u.stack, e)
           w == PutStack(u, s)
           func == Ci(th).func + 2
           m == -1
           k == "dofile"
           y == lua_callk(On(z, w), func, m, k)
<1>1. /\ IsThread(u) /\ Slots(u) /\ Rest6(u, th) /\ u.ci = th.ci /\ Len(u.stack) = Ci(th).func + 1 /\ lim(u) = lim(th)
  BY Settop1Is
<1>2. /\ Ci(th).func <= Len(th.stack) /\ Len(th.stack) + LUA_MINSTACK <= Ci(th).top /\ Ci(th).top <= lim(th)
      /\ Len(th.stack) \in Nat /\ Ci(th).top \in Nat /\ lim(th) \in Nat /\ Ci(th).func \in Nat /\ Ci(th).func >= 2
      /\ LUA_MINSTACK \in Nat /\ LUA_MINSTACK >= 3
  BY StartsIs, Sizes
<1>3. k \in Ks \cup {"none"} /\ m \in {-1, 0, 1, 2}
  BY DEF Ks
<1> HIDE DEF th, u, e, m, k, y
<1>4. SeqIs(s) /\ Len(s) = Ci(th).func + 2
  <2>1. SeqIs(u.stack)
    BY <1>1, ThreadIs
  <2>2. SeqIs(s) /\ Len(s) = Len(u.stack) + 1
    BY <2>1, Appended
  <2> HIDE DEF s
  <2>3. QED
    BY <1>1, <1>2, <2>2
<1>5. w = PutStack(u, s)
  OBVIOUS
<1> HIDE DEF s, w
<1>6. Len(s) <= lim(u) + 3
  BY <1>1, <1>2, <1>4
<1>7. IsThread(w) /\ Slots(w) /\ w.stack = s /\ w.ci = u.ci /\ Rest6(w, u)
  BY <1>1, <1>4, <1>5, <1>6, StackChanged
<1>8. func \in Nat /\ func >= 2 /\ func <= Len(s)
  BY <1>2, <1>4
<1> HIDE DEF func
<1>9. Loaded(w, th, func)
  BY <1>1, <1>7, <1>8 DEF Loaded, Rest6
<1>10. Ready(On(z, w), func)
  BY <1>9, LoadedReady DEF th
<1>11. Outcome(y)
  BY <1>3, <1>10, CallkOutcome DEF y
<1>12. QED
  BY <1>11 DEF y, w, s, u, th, e, func, m, k, Push, PutStack
LEMMA ApplyStarts ==
  ASSUME NEW z, Starts(z), gettop(Th(z)) > 0
  PROVE  Outcome(lua_callk(z, Ci(Th(z)).func + 1, 1, "none"))
<1> DEFINE func == Ci(Th(z)).func + 1
           k == "none"
           o == 1
<1>1. Len(Th(z).stack) \in Nat /\ Ci(Th(z)).func \in Nat /\ Ci(Th(z)).func >= 2
  BY StartsIs
<1>2. func \in Nat /\ func >= 2 /\ func <= Len(Th(z).stack)
  BY <1>1 DEF gettop
<1>3. k \in Ks \cup {"none"} /\ o \in {-1, 0, 1, 2}
  OBVIOUS
<1> HIDE DEF func, k, o
<1>4. Ready(z, func)
  BY <1>2, StartsReady
<1>5. Outcome(lua_callk(z, func, o, k))
  BY <1>3, <1>4, CallkOutcome
<1>6. QED
  BY <1>5 DEF func, k, o
LEMMA ErrorStarts ==
  ASSUME NEW z, Starts(z)
  PROVE  Outcome(luaG_errormsg(On(z, settop1(Th(z)))))
<1> DEFINE th == Th(z)
           u == settop1(th)
           x == On(z, u)
           f == Ci(th).func
           y == luaG_errormsg(x)
<1>1. /\ IsThread(u) /\ Slots(u) /\ Rest6(u, th) /\ u.ci = th.ci /\ Len(u.stack) = f + 1 /\ lim(u) = lim(th)
  BY Settop1Is
<1>2. /\ f <= Len(th.stack) /\ Len(th.stack) + LUA_MINSTACK <= Ci(th).top /\ Ci(th).top <= lim(th)
      /\ Len(th.stack) \in Nat /\ Ci(th).top \in Nat /\ lim(th) \in Nat /\ f \in Nat /\ f >= 2
      /\ LUA_MINSTACK \in Nat /\ LUA_MINSTACK >= 3 /\ GoodZ(z)
  BY StartsIs, Sizes
<1>3. Th(x) = u
  BY <1>2, OnTh
<1> HIDE DEF u, x, f, y
<1>4. f <= Len(u.stack) /\ Len(u.stack) >= 2 /\ Len(u.stack) <= lim(u) + 2
  <2> HIDE DEF th
  <2>1. QED
    BY <1>1, <1>2
<1>5. Loaded(u, th, f)
  BY <1>1, <1>2, <1>4 DEF Loaded
<1>6. Ready(x, f)
  BY <1>5, LoadedReady DEF x
<1>7. Throwing(x)
  BY <1>6, ReadyThrows
<1>8. ErrOutcome(Th(x), y)
  BY <1>3, <1>4, <1>7, ErrormsgOutcome DEF y
<1>9. Outcome(y)
  BY <1>8, OutcomeIs
<1>10. QED
  BY <1>9 DEF y, x, u
LEMMA YieldStarts ==
  ASSUME NEW z, Starts(z)
  PROVE  Outcome(lua_yieldk(z, gettop(Th(z))))
<1> DEFINE th == Th(z)
           n == gettop(th)
           y == lua_yieldk(z, n)
           f == Ci(th).func
           msg == "attempt to yield"
<1>1. /\ f <= Len(th.stack) /\ Len(th.stack) \in Nat /\ f \in Nat /\ f >= 2 /\ GoodZ(z) /\ th.nny \in Nat
  BY StartsIs
<1>2. CASE th.nny > 0
  <2>1. y = luaG_runerror(z, msg)
    BY <1>2 DEF lua_yieldk
  <2> HIDE DEF y, msg
  <2>2. Ready(z, f)
    BY <1>1, StartsReady
  <2>3. Len(th.stack) >= 1
    BY <1>1
  <2>4. Erring(z)
    BY <2>2, <2>3, ReadyThrows DEF Erring
  <2>5. RunOutcome(Th(z), luaG_runerror(z, msg))
    BY <2>4, RunErrorOutcome
  <2>6. Outcome(y)
    BY <2>1, <2>5, OutcomeIs
  <2>7. QED
    BY <2>6 DEF y
<1>3. CASE ~(th.nny > 0)
  <2>1. y = luaD_throw(On(z, Yielded(th, n)), "YIELD")
    BY <1>3 DEF lua_yieldk, Yielded
  <2>2. th.nny = 0
    BY <1>1, <1>3
  <2>3. n = gettop(Th(z))
    OBVIOUS
  <2> HIDE DEF y, n
  <2>4. RestZ(luaD_throw(On(z, Yielded(Th(z), n)), "YIELD"))
    BY <2>2, <2>3, YieldRest DEF Starts
  <2>5. Outcome(y)
    BY <2>1, <2>4 DEF Outcome
  <2>6. QED
    BY <2>5 DEF y, n
<1>4. QED
  BY <1>2, <1>3
LEMMA DocallStarts ==
  ASSUME NEW z, RestZ(z), Last(z.C).a = "docall", ~Last(z.C).back
  PROVE  Outcome(luaD_pcall(z, [Th(z) EXCEPT !.stack = <<"nil", "msgh", "f">>], 3, 2, 0))
<1> DEFINE th == Th(z)
           r == Last(z.C)
           s == <<"nil", "msgh", "f">>
           w == PutStack(th, s)
           func == 3
           e == 2
           o == 0
           y == luaD_pcall(z, w, func, e, o)
<1>1. GoodZ(z) /\ z.err = "none" /\ Stacks(z.L, z.C, Len(z.C), r, T(z), th) /\ AtRest(r, th)
  BY StacksIs DEF RestZ
<1>2. r.a = "docall" /\ ~r.back
  OBVIOUS
<1>3. SeqIs(s) /\ Len(s) = 3
  BY Fixed
<1>4. w = PutStack(th, s)
  OBVIOUS
<1>5. func \in Nat /\ func = 3 /\ e \in Nat /\ o \in {-1, 0, 1, 2}
  OBVIOUS
<1> HIDE DEF th, r, s, w, func, e, o, y
<1>6. IsThread(th) /\ Slots(th) /\ ~errorstatus(th.status) /\ Placed(r, th) /\ Len(th.ci) = 1 /\ r.at = 1
  BY <1>1, <1>2 DEF Stacks, errorstatus, AtRest, Placed
<1>7. FrameFits(1, Ci(th)) /\ lim(th) \in Nat /\ Ci(th).func = 1 /\ Ci(th).top \in Nat
  BY <1>6, TopFrame
<1>8. ~Ci(th).yp /\ Ci(th).top >= 1 + LUA_MINSTACK
  BY <1>7 DEF FrameFits
<1>9. Len(s) <= lim(th) + 3 /\ func >= 2 /\ func <= Len(s)
  BY <1>3, <1>5, <1>7
<1>10. Loaded(w, th, func)
  BY <1>3, <1>4, <1>5, <1>6, <1>9, LoadedIs
<1>11. func >= Ci(th).func /\ func <= Ci(th).top
  <2>1. LUA_MINSTACK \in Nat /\ LUA_MINSTACK >= 3
    BY Sizes
  <2>2. QED
    BY <1>5, <1>7, <1>8, <2>1
<1>12. Outcome(luaD_pcall(z, w, func, e, o))
  <2>1. /\ Last(z.C).a \in {"C", "docall"} /\ ~Last(z.C).back /\ Last(z.C).at = Len(Th(z).ci) /\ ~Ci(Th(z)).yp
        /\ Loaded(w, Th(z), func) /\ func >= Ci(Th(z)).func /\ func <= Ci(Th(z)).top
    BY <1>2, <1>6, <1>8, <1>10, <1>11 DEF r, th
  <2>2. QED
    BY <1>1, <1>5, <2>1, PcallOutcome
<1>13. QED
  BY <1>12 DEF w, s, th, func, e, o, PutStack
-----------------------------------------------------------------------------
(* The instructions that call.                                             *)

\* A Lua function is about to call.
IsDoing(w, th, s) ==
  IsThread(w) /\ Slots(w) /\ Rest6(w, th) /\ AgreeAll(w, th) /\ w.stack = s
Doing_(th, op) == OnCi(th, [Ci(th) EXCEPT !.op = op])
LEMMA DoingIs ==
  ASSUME NEW th, IsThread(th), Slots(th), ~errorstatus(th.status), NEW op \in {"CALL", "ADD"},
         NEW s, SeqIs(s), Len(s) <= lim(th) + 3, NEW w, w = PutStack(Doing_(th, op), s)
  PROVE  IsDoing(w, th, s)
<1> DEFINE f == [Ci(th) EXCEPT !.op = op]
           d == OnCi(th, f)
<1>1. /\ Ci(th).top <= lim(th) /\ FrameFits(Len(th.ci), Ci(th)) /\ Ci(th) \in Frame /\ Ci(th).top \in Nat
  BY TopFrame
<1>2. /\ f \in Frame /\ f.func = Ci(th).func /\ f.top = Ci(th).top /\ f.lua = Ci(th).lua /\ f.fresh = Ci(th).fresh
      /\ f.yp = Ci(th).yp /\ f.k = Ci(th).k /\ f.extra = Ci(th).extra
  <2>1. op \in {"none", "CALL", "ADD"}
    OBVIOUS
  <2>2. QED
    BY <1>1, <2>1 DEF Frame
<1>3. d = Doing_(th, op)
  BY DEF Doing_
<1> HIDE DEF f
<1>4. FrameFits(Len(th.ci), f) /\ f.top <= lim(th) /\ Agree(f, Ci(th))
  BY <1>1, <1>2 DEF FrameFits, Agree
<1>5. /\ IsThread(d) /\ Slots(d) /\ d.stack = th.stack /\ Rest6(d, th) /\ Len(d.ci) = Len(th.ci)
      /\ d.ci[Len(th.ci)] = f /\ Ci(d) = f /\ lim(d) = lim(th)
      /\ \A i \in 1..(Len(th.ci) - 1) : d.ci[i] = th.ci[i]
  BY <1>2, <1>4, FrameChanged
<1> HIDE DEF d
<1>6. AgreeAll(d, th)
  BY <1>4, <1>5, AgreesIs
<1>7. IsThread(w) /\ Slots(w) /\ w.stack = s /\ w.ci = d.ci /\ Rest6(w, d)
  <2>1. Len(s) <= lim(d) + 3 /\ w = PutStack(d, s)
    BY <1>3, <1>5
  <2>2. QED
    BY <1>5, <2>1, StackChanged
<1>8. QED
  BY <1>5, <1>6, <1>7 DEF IsDoing, Rest6, AgreeAll
\* A Lua function that runs.
LEMMA InLuaIs ==
  ASSUME NEW z, RestZ(z), Last(z.C).a = "exec"
  PROVE  LET th == Th(z)
         IN /\ GoodZ(z) /\ z.err = "none" /\ IsThread(th) /\ Slots(th) /\ ~errorstatus(th.status) /\ th.status = "OK"
            /\ InExec(Last(z.C), Len(th.ci), th) /\ Last(z.C).at \in Nat /\ Last(z.C).at >= 1
            /\ Last(z.C).at <= Len(th.ci) /\ Len(th.ci) \in Nat /\ Throwing(z)
            /\ Ci(th).func \in Nat /\ Ci(th).func >= 2 /\ Ci(th).func + FrameSize <= Ci(th).top
            /\ Ci(th).top <= lim(th) /\ Ci(th).top \in Nat /\ lim(th) \in Nat /\ SeqIs(th.stack)
<1> DEFINE th == Th(z)
           r == Last(z.C)
           n == Len(z.C)
<1>1. GoodZ(z) /\ z.err = "none" /\ Stacks(z.L, z.C, n, r, T(z), th) /\ AtRest(r, th)
  BY StacksIs DEF RestZ
<1>2. r.a = "exec"
  OBVIOUS
<1> HIDE DEF th, r, n
<1>3. /\ IsThread(th) /\ Slots(th) /\ th.status = "OK" /\ ~errorstatus(th.status) /\ Placed(r, th) /\ Good(z.L, z.C)
      /\ r.at \in Nat /\ r.at >= 1 /\ r.at <= Len(th.ci) /\ Len(th.ci) \in Nat /\ n \in Nat /\ n >= 1 /\ r = z.C[n]
  BY <1>1 DEF Stacks, errorstatus
<1>4. InExec(r, Len(th.ci), th) /\ r.at >= 2
  BY <1>1, <1>2, <1>3 DEF AtRest, Placed
<1>5. /\ Ci(th).top <= lim(th) /\ FrameFits(Len(th.ci), Ci(th)) /\ Ci(th).top \in Nat /\ Ci(th).func \in Nat
      /\ lim(th) \in Nat /\ Ci(th) = th.ci[Len(th.ci)]
  BY <1>3, TopFrame
<1>6. Ci(th).lua /\ Len(th.ci) # 1
  <2>1. Len(th.ci) \in r.at..Len(th.ci)
    BY <1>3
  <2>2. Ci(th).lua
    BY <1>4, <1>5, <2>1 DEF InExec
  <2>3. \A a, b \in Nat : a >= 2 /\ a <= b => b # 1
    OBVIOUS
  <2>4. Len(th.ci) # 1
    BY <1>3, <1>4, <2>3
  <2>5. QED
    BY <2>2, <2>4
<1>7. Ci(th).func >= 2 /\ Ci(th).func + FrameSize <= Ci(th).top
  BY <1>5, <1>6 DEF FrameFits
<1>8. Throwing(z)
  <2>1. z.C[1].a = "docall"
    BY <1>3, GoodIs
  <2>2. n # 1
    BY <1>2, <1>3, <2>1
  <2>3. \A k \in Nat : k >= 1 /\ k # 1 => k >= 2
    OBVIOUS
  <2>4. n >= 2
    BY <1>3, <2>2, <2>3
  <2>5. QED
    BY <1>1, <2>4 DEF Throwing, n
<1>9. SeqIs(th.stack)
  BY <1>3, ThreadIs
<1>10. QED
  BY <1>1, <1>3, <1>4, <1>5, <1>7, <1>8, <1>9 DEF th, r
LEMMA InExecAgrees ==
  ASSUME NEW r, NEW th, InExec(r, Len(th.ci), th), r.at \in Nat, r.at >= 1, NEW w, AgreeAll(w, th), Len(th.ci) \in Nat
  PROVE  InExec(r, Len(w.ci), w)
<1>1. Len(w.ci) = Len(th.ci) /\ \A i \in 1..Len(th.ci) : Agree(w.ci[i], th.ci[i])
  BY DEF AgreeAll
<1>2. \A i \in r.at..Len(th.ci) : i \in 1..Len(th.ci)
  OBVIOUS
<1>3. QED
  BY <1>1, <1>2 DEF InExec, Agree
\* OP_CALL.
LEMMA OpCallStarts ==
  ASSUME NEW z, RestZ(z), Last(z.C).a = "exec", NEW form, SeqIs(form), Len(form) >= 1, Len(form) <= FrameSize
  PROVE  Outcome(luaD_precall(On(z, [Doing_(Th(z), "CALL") EXCEPT !.stack = SubSeq(@, 1, Ci(Th(z)).func) \o form]),
                              Ci(Th(z)).func + 1, 2, FALSE))
<1> DEFINE th == Th(z)
           r == Last(z.C)
           op == "CALL"
           d == Doing_(th, op)
           f == Ci(th).func
           a == SubSeq(d.stack, 1, f)
           s == a \o form
           w == PutStack(d, s)
           x == On(z, w)
           func == f + 1
           o == 2
           fresh == FALSE
           y == luaD_precall(x, func, o, fresh)
<1>1. /\ GoodZ(z) /\ z.err = "none" /\ IsThread(th) /\ Slots(th) /\ ~errorstatus(th.status) /\ th.status = "OK"
      /\ InExec(r, Len(th.ci), th) /\ r.at \in Nat /\ r.at >= 1
      /\ r.at <= Len(th.ci) /\ Len(th.ci) \in Nat /\ Throwing(z)
      /\ f \in Nat /\ f >= 2 /\ f + FrameSize <= Ci(th).top
      /\ Ci(th).top <= lim(th) /\ Ci(th).top \in Nat /\ lim(th) \in Nat /\ SeqIs(th.stack)
  BY InLuaIs
<1>2. r.a = "exec" /\ op \in {"CALL", "ADD"} /\ o \in {-1, 0, 1, 2} /\ fresh \in BOOLEAN /\ ~fresh
  OBVIOUS
<1>3. FrameSize \in Nat /\ Len(form) \in Nat
  BY Sizes, LenIs
<1>4. d.stack = th.stack
  BY <1>1 DEF Doing_, OnCi
<1>5. w = PutStack(d, s)
  OBVIOUS
<1> HIDE DEF th, r, op, d, f, o, fresh, y
<1>6. SeqIs(a) /\ Len(a) = f
  <2>1. f \in Int /\ 1 \in Int /\ 1 <= f /\ f - 1 + 1 = f
    BY <1>1
  <2>2. QED
    BY <1>1, <1>4, <2>1, Cut
<1> HIDE DEF a
<1>7. SeqIs(s) /\ Len(s) = f + Len(form)
  <2>1. SeqIs(s) /\ Len(s) = Len(a) + Len(form)
    BY <1>6, Joined
  <2> HIDE DEF s
  <2>2. QED
    BY <1>6, <2>1
<1> HIDE DEF s, w
<1>8. Len(s) <= lim(th) + 3 /\ func \in Nat /\ func >= 2 /\ func <= Len(s)
  BY <1>1, <1>3, <1>7
<1> HIDE DEF func
<1>9. IsDoing(w, th, s)
  BY <1>1, <1>2, <1>5, <1>7, <1>8, DoingIs DEF d
<1>10. Adjusted(w, th, r)
  <2>1. IsThread(w) /\ Slots(w) /\ Rest6(w, th) /\ AgreeAll(w, th) /\ r.a # "C"
    BY <1>2, <1>9 DEF IsDoing
  <2>2. QED
    BY <1>1, <2>1, AgreeAdjusted
<1>11. GoodZ(x) /\ Th(x) = w /\ x.C = z.C /\ x.err = z.err /\ Last(x.C) = r
  BY <1>1, <1>10, AdjustedGood DEF th, r
<1> HIDE DEF x
<1>12. InExec(r, Len(w.ci), w)
  BY <1>1, <1>9, InExecAgrees DEF IsDoing
<1>13. CanCall(x, func, o, fresh)
  <2>1. Throwing(x)
    BY <1>1, <1>11 DEF Throwing
  <2>2. func <= Len(Th(x).stack)
    BY <1>8, <1>9, <1>11 DEF IsDoing
  <2>3. QED
    BY <1>2, <1>8, <1>11, <1>12, <2>1, <2>2 DEF CanCall
<1>14. GrowsTo(x, y)
  BY <1>13, PrecallOutcome DEF y
<1>15. Outcome(y)
  BY <1>14, GrownOutcome
<1>16. QED
  BY <1>15 DEF y, x, w, d, s, a, f, th, op, func, o, fresh, PutStack
\* OP_ADD with a metamethod.
LEMMA OpAddStarts ==
  ASSUME NEW z, RestZ(z), Last(z.C).a = "exec"
  PROVE  Outcome(luaD_call(On(z, [Doing_(Th(z), "ADD") EXCEPT
                                    !.stack = SubSeq(@, 1, Ci(Th(z)).func) \o Nils(FrameSize) \o <<"f", "x", "x">>]),
                           Rec("tm", z, FALSE), Ci(Th(z)).func + FrameSize + 1, 1))
<1> DEFINE th == Th(z)
           r == Last(z.C)
           n == Len(z.C)
           t == T(z)
           op == "ADD"
           d == Doing_(th, op)
           f == Ci(th).func
           a == SubSeq(d.stack, 1, f)
           b == Nils(FrameSize)
           c == <<"f", "x", "x">>
           e == a \o b
           s == e \o c
           w == PutStack(d, s)
           func == f + FrameSize + 1
           o == 1
           q == Rec("tm", z, FALSE)
           u == Counted(w, q)
           y == luaD_call(On(z, w), q, func, o)
<1>1. /\ GoodZ(z) /\ z.err = "none" /\ IsThread(th) /\ Slots(th) /\ ~errorstatus(th.status) /\ th.status = "OK"
      /\ InExec(r, Len(th.ci), th) /\ r.at \in Nat /\ r.at >= 1
      /\ r.at <= Len(th.ci) /\ Len(th.ci) \in Nat /\ Throwing(z)
      /\ f \in Nat /\ f >= 2 /\ f + FrameSize <= Ci(th).top
      /\ Ci(th).top <= lim(th) /\ Ci(th).top \in Nat /\ lim(th) \in Nat /\ SeqIs(th.stack)
  BY InLuaIs
<1>2. r.a = "exec" /\ op \in {"CALL", "ADD"} /\ o \in {-1, 0, 1, 2}
  OBVIOUS
<1>3. FrameSize \in Nat /\ FrameSize >= 1
  BY Sizes
<1>4. d.stack = th.stack
  BY <1>1 DEF Doing_, OnCi
<1>5. w = PutStack(d, s)
  OBVIOUS
<1>6. SeqIs(b) /\ Len(b) = FrameSize /\ SeqIs(c) /\ Len(c) = 3
  BY <1>3, Fixed
<1>7. q = CallRecord("tm", t, th, FALSE)
  BY DEF Rec, CallRecord
<1>8. Stacks(z.L, z.C, n, r, t, th)
  BY <1>1, StacksIs
<1> HIDE DEF th, r, n, t, op, d, f, b, c, o, q, u, y
<1>9. SeqIs(a) /\ Len(a) = f
  <2>1. f \in Int /\ 1 \in Int /\ 1 <= f /\ f - 1 + 1 = f
    BY <1>1
  <2>2. QED
    BY <1>1, <1>4, <2>1, Cut
<1> HIDE DEF a
<1>10. SeqIs(e) /\ Len(e) = f + FrameSize
  <2>1. SeqIs(e) /\ Len(e) = Len(a) + Len(b)
    BY <1>6, <1>9, Joined
  <2> HIDE DEF e
  <2>2. QED
    BY <1>6, <1>9, <2>1
<1> HIDE DEF e
<1>11. SeqIs(s) /\ Len(s) = f + FrameSize + 3
  <2>1. SeqIs(s) /\ Len(s) = Len(e) + Len(c)
    BY <1>6, <1>10, Joined
  <2> HIDE DEF s
  <2>2. QED
    BY <1>6, <1>10, <2>1
<1> HIDE DEF s, w
<1>12. Len(s) <= lim(th) + 3 /\ func \in Nat /\ func >= 2 /\ func <= Len(s)
  BY <1>1, <1>3, <1>11
<1> HIDE DEF func
<1>13. IsDoing(w, th, s)
  BY <1>1, <1>2, <1>5, <1>11, <1>12, DoingIs DEF d
<1>14. Prepared(w, th, r)
  BY <1>8, <1>13, PreparedAll DEF IsDoing, Rest6
<1>15. InExec(r, Len(w.ci), w)
  BY <1>1, <1>13, InExecAgrees DEF IsDoing
<1>16. n # 1
  <2>1. n >= 2 /\ n \in Nat
    BY <1>1, <1>8 DEF Throwing, n, Stacks
  <2>2. \A k \in Nat : k >= 2 => k # 1
    OBVIOUS
  <2>3. QED
    BY <2>1, <2>2
<1>17. Caller(w, th, r, q, z.C, n)
  <2> DEFINE what == "tm"
             ny == FALSE
  <2>1. what = "tm" /\ q = CallRecord(what, t, th, ny) /\ ny \in BOOLEAN /\ ~ny
    BY <1>7
  <2> HIDE DEF what, ny
  <2>2. what = "tm" /\ ~ny /\ r.a = "exec" /\ InExec(r, Len(w.ci), w)
    BY <1>2, <1>15, <2>1
  <2>3. QED
    BY <1>8, <1>14, <1>16, <2>1, <2>2, CallCaller
<1>18. CallOutcome(u, y)
  <2>1. Caller(w, Th(z), Last(z.C), q, z.C, Len(z.C))
    BY <1>17 DEF th, r, n
  <2>2. func <= Len(w.stack)
    BY <1>12, <1>13 DEF IsDoing
  <2>3. CallOutcome(Counted(w, q), luaD_call(On(z, w), q, func, o))
    BY <1>1, <1>2, <1>12, <2>1, <2>2, CallStarts
  <2>4. QED
    BY <2>3 DEF u, y
<1>19. Outcome(y)
  BY <1>18, OutcomeIs
<1>20. QED
  BY <1>19 DEF y, w, d, s, e, a, b, c, f, th, op, func, o, q, PutStack
-----------------------------------------------------------------------------
(* Other threads than the one that runs.                                   *)

ZT(z, t, u) == [z EXCEPT !.L[t] = u]
LEMMA ThreadSet ==
  ASSUME NEW z, IsZ(z), NEW t, NEW u
  PROVE  IsZ(ZT(z, t, u)) /\ ZT(z, t, u).L = [z.L EXCEPT ![t] = u] /\ ZT(z, t, u).C = z.C /\ ZT(z, t, u).err = z.err
BY DEF IsZ, ZT
\* The thread of another coroutine, in use or not, changes.
MayBe(u, z, t) ==
  /\ IsThread(u) /\ Slots(u)
  /\ IF InUse(z.C, t) THEN Same(u, z.L[t]) ELSE Rested(u)
IsOther(w, z, t, u) ==
  /\ GoodZ(w) /\ Th(w) = Th(z) /\ w.C = z.C /\ w.err = z.err /\ T(w) = T(z) /\ w.L = [z.L EXCEPT ![t] = u]
LEMMA OtherSet ==
  ASSUME NEW z, GoodZ(z), NEW t \in Threads, t # T(z), NEW u, MayBe(u, z, t)
  PROVE  IsOther(ZT(z, t, u), z, t, u)
<1> DEFINE D == z.C
           M == z.L
           n == Len(D)
           s == T(z)
           th == Th(z)
           r == Last(D)
           w == ZT(z, t, u)
           N == [M EXCEPT ![t] = u]
<1>1. Stacks(M, D, n, r, s, th) /\ IsZ(z) /\ M = [x \in Threads |-> M[x]]
  BY StacksIs, ZIs DEF GoodZ
<1>2. IsZ(w) /\ w.L = N /\ w.C = D /\ w.err = z.err
  BY <1>1, ThreadSet
<1>3. s = Last(D).t /\ th = M[s]
  BY DEF T, Th
<1> HIDE DEF w, D, M, n, s, th, r, N
<1>4. /\ Good(M, D) /\ n = Len(D) /\ r = D[n] /\ s = r.t /\ th = M[s] /\ n \in Nat /\ n >= 1 /\ n \in 1..n
      /\ D \in Seq(Record) /\ s \in Threads /\ IsThread(th) /\ Slots(th) /\ th.status = "OK"
      /\ th.nny = Ny(D, s, n) + MainNy(s) /\ th.nCcalls = Calling(D, n) /\ Len(th.ci) \in Nat
      /\ r.at \in Nat /\ r.at >= 1 /\ r.at <= Len(th.ci) /\ Placed(r, th)
      /\ \A i \in 2..Len(th.ci) : ContinuedAt(th, D, s, i)
  BY <1>1 DEF Stacks
<1>5. /\ N = [x \in Threads |-> N[x]] /\ N[t] = u /\ \A x \in Threads : x # t => N[x] = M[x]
  BY <1>1 DEF N
<1>6. t # s
  BY DEF s
<1>7. N[s] = th
  BY <1>4, <1>5, <1>6
<1>8. Beginning(D, D, n)
  BY <1>4, Whole
<1>9. Apartfrom(N, M, D, s)
  <2>1. ASSUME NEW x \in Threads, x # s, x # t
        PROVE  IsThread(N[x]) /\ Slots(N[x]) /\ IF InUse(D, x) THEN Same(N[x], M[x]) ELSE Rested(N[x])
    <3>1. N[x] = M[x] /\ IsThread(M[x]) /\ Slots(M[x])
      BY <1>4, <1>5, <2>1, GoodIs
    <3>2. Same(M[x], M[x])
      BY <3>1, SameIs
    <3>3. ~InUse(D, x) => Rested(M[x])
      BY <1>4, RestedIs
    <3>4. QED
      BY <3>1, <3>2, <3>3
  <2>2. IsThread(N[t]) /\ Slots(N[t]) /\ IF InUse(D, t) THEN Same(N[t], M[t]) ELSE Rested(N[t])
    BY <1>5 DEF MayBe, D, M
  <2>3. QED
    BY <1>5, <2>1, <2>2 DEF Apartfrom
<1>10. Remains(th, M, D, n, D)
  <2>1. \A i \in (r.at + 1)..Len(th.ci) : ContinuedAt(th, D, s, i)
    BY <1>4
  <2>2. Below(th, th, r)
    <3>1. Same(th, th)
      BY <1>4, SameIs
    <3>2. \A i \in 1..r.at : i \in 1..Len(th.ci)
      BY <1>4
    <3>3. QED
      BY <1>4, <3>1, <3>2 DEF Below, Same
  <2>3. r.a = "C" => ~th.ci[r.at].yp
    BY LastC DEF r, th, D
  <2>4. QED
    BY <1>4, <2>1, <2>2, <2>3 DEF Remains
<1>11. Good(N, D)
  BY <1>4, <1>7, <1>8, <1>9, <1>10, RemainsGood
<1>12. T(w) = s /\ Th(w) = th
  <2>1. T(w) = s
    BY <1>2, <1>3 DEF T
  <2>2. QED
    BY <1>2, <1>7, <2>1 DEF Th
<1>13. IsOther(w, z, t, u)
  BY <1>2, <1>11, <1>12 DEF IsOther, GoodZ, D, M, N, s, th
<1>14. QED
  BY <1>13 DEF w
\* A thread in use has called a function.
LEMMA InUseDeep ==
  ASSUME NEW z, GoodZ(z), Last(z.C).a \in {"C", "exec"}, NEW t \in Coroutines, InUse(z.C, t)
  PROVE  z.L[t].status = "OK" /\ Len(z.L[t].ci) >= 2
<1> DEFINE D == z.C
           M == z.L
           n == Len(D)
           s == T(z)
           th == Th(z)
           r == Last(D)
<1>1. Stacks(M, D, n, r, s, th)
  BY StacksIs
<1>2. r.a \in {"C", "exec"} /\ InUse(D, t)
  OBVIOUS
<1> HIDE DEF D, M, n, s, th, r
<1>3. /\ Good(M, D) /\ n = Len(D) /\ r = D[n] /\ s = r.t /\ th = M[s] /\ n \in Nat /\ n >= 1
      /\ D \in Seq(Record) /\ r.at \in Nat /\ r.at <= Len(th.ci) /\ Placed(r, th) /\ Len(th.ci) \in Nat
  BY <1>1 DEF Stacks
<1>4. t \in Threads
  BY DEF Threads
<1>5. M[t].status = "OK"
  BY <1>2, <1>3, <1>4 DEF Good, Idle
<1>6. CASE t = s
  <2>1. r.at >= 2
    BY <1>2, <1>3 DEF Placed
  <2>2. Len(M[t].ci) >= 2
    BY <1>3, <1>6, <2>1
  <2>3. QED
    BY <1>5, <2>2 DEF M
<1>7. CASE t # s
  <2>1. Shape(D) /\ t # D[Len(D)].t
    BY <1>3, <1>7, GoodIs
  <2>2. PICK j \in 1..(Len(D) - 1) : D[j].t = t /\ D[j + 1].a = "resume"
    BY <1>2, <1>3, <2>1, Resumed
  <2>3. j \in 1..Len(D)
    BY <1>3
  <2>4. Linked(D[j], D[j + 1], M[t])
    BY <1>3, <2>2 DEF Good, Links
  <2>5. D[j].a = "C" /\ Placed(D[j], M[t])
    BY <1>3, <2>2, <2>3, <2>4 DEF Linked, Good, Located
  <2>6. D[j].at >= 2 /\ D[j].at <= Len(M[t].ci)
    BY <2>5 DEF Placed
  <2>7. D[j].at \in Nat /\ Len(M[t].ci) \in Nat
    BY <1>3, <1>4, <2>3, GoodIs, ThreadIs
  <2>8. Len(M[t].ci) >= 2
    BY <2>6, <2>7
  <2>9. QED
    BY <1>5, <2>8 DEF M
<1>8. QED
  BY <1>6, <1>7
\* A C function gets an error message from lua_resume.
Given(u, th) ==
  /\ IsThread(u) /\ Slots(u) /\ Rest6(u, th) /\ u.ci = th.ci /\ Len(u.stack) >= 2 /\ Len(u.stack) <= Ci(u).top
LEMMA GiveBack ==
  ASSUME NEW z, Starts(z), NEW u, Given(u, Th(z))
  PROVE  RestZ(Returns(On(z, u), "ERRRUN"))
<1> DEFINE D == z.C
           M == z.L
           n == Len(D)
           t == T(z)
           th == Th(z)
           r == Last(D)
           st == "ERRRUN"
           x == On(z, u)
           y == Returns(x, st)
           E == MarkLast(D, st)
           N == [M EXCEPT ![t] = u]
<1>1. /\ GoodZ(z) /\ z.err = "none" /\ Stacks(M, D, n, r, t, th) /\ IsZ(z) /\ r.a = "C" /\ r.at = Len(th.ci)
      /\ ~Ci(th).yp /\ IsThread(th)
  BY StacksIs, StartsIs DEF GoodZ, Starts
<1>2. IsZ(x) /\ x.L = N /\ x.C = D /\ x.err = z.err
  BY <1>1, OnIs
<1>3. st \in Statuses /\ errorstatus(st)
  BY DEF Statuses, errorstatus
<1>4. M = [s \in Threads |-> M[s]]
  BY <1>1, ZIs
<1> HIDE DEF st, x
<1>5. IsZ(y) /\ y.L = N /\ y.C = E /\ y.err = "none"
  BY <1>1, <1>2, ReturnsIs
<1> HIDE DEF D, M, n, t, th, r, y, E, N
<1>6. /\ Good(M, D) /\ n = Len(D) /\ r = D[n] /\ t = r.t /\ th = M[t] /\ n \in Nat /\ n >= 1 /\ n \in 1..n
      /\ D \in Seq(Record) /\ t \in Threads /\ th.status = "OK"
      /\ th.nny = Ny(D, t, n) + MainNy(t) /\ th.nCcalls = Calling(D, n)
      /\ r.at \in Nat /\ r.at >= 1 /\ Len(th.ci) \in Nat
  BY <1>1 DEF Stacks
<1>7. /\ E \in Seq(Record) /\ Len(E) = n /\ (\A i \in 1..n : i < n => E[i] = D[i])
      /\ Alike(D[n], E[n]) /\ E[n].back /\ E[n].status = st
  <2>1. D[Len(D)].a \in {"C", "docall"} /\ Len(D) >= 1 /\ E = MarkLast(D, st)
    BY <1>1, <1>6 DEF E
  <2>2. QED
    BY <1>3, <1>6, <2>1, Marked
<1>8. Beginning(E, D, n)
  <2>1. \A i \in 1..n : Alike(D[i], E[i])
    <3>1. ASSUME NEW i \in 1..n PROVE Alike(D[i], E[i])
      <4>1. CASE i = n
        BY <1>7, <4>1
      <4>2. CASE i # n
        <5>1. i < n
          BY <1>6, <4>2
        <5>2. E[i] = D[i]
          BY <1>7, <5>1
        <5>3. QED
          BY <5>2 DEF Alike
      <4>3. QED
        BY <4>1, <4>2
    <3>2. QED
      BY <3>1
  <2>2. QED
    BY <1>6, <1>7, <2>1 DEF Beginning
<1>9. IsThread(u) /\ Slots(u) /\ Rest6(u, th) /\ u.ci = th.ci /\ Len(u.stack) >= 2 /\ Len(u.stack) <= Ci(u).top
  BY DEF Given, th
<1>10. Ci(u) = Ci(th) /\ Ci(th) = th.ci[Len(th.ci)]
  BY <1>1, <1>9, LoadedAgrees, ThreadIs
<1>11. Remains(u, M, D, n, E)
  <2>1. Below(u, th, r)
    <3>1. Same(th, th)
      BY <1>1, SameIs
    <3>2. \A i \in 1..r.at : Agree(u.ci[i], th.ci[i])
      BY <1>1, <1>9, <3>1 DEF Same
    <3>3. r.at <= Len(u.ci)
      BY <1>1, <1>6, <1>9
    <3>4. QED
      BY <3>2, <3>3 DEF Below
  <2>2. ~u.ci[r.at].yp
    BY <1>1, <1>9, <1>10
  <2>3. \A i \in (r.at + 1)..Len(u.ci) : ContinuedAt(u, E, t, i)
    BY <1>1, <1>6, <1>9
  <2>4. QED
    BY <1>6, <1>9, <2>1, <2>2, <2>3 DEF Remains, Rest6
<1>12. Good(N, E)
  <2>1. N = Moved(M, D[n].t, u)
    BY <1>6 DEF N, Moved
  <2>2. \A i \in (n + 1)..Len(D) : D[i].t = D[n].t
    BY <1>6
  <2>3. QED
    BY <1>6, <1>8, <1>11, <2>1, <2>2, CutGood
<1>13. Last(E) = E[n] /\ E[n].a = "C" /\ E[n].t = t /\ E[n].at = Len(u.ci)
  BY <1>1, <1>6, <1>7, <1>9 DEF Last, Alike
<1>14. N[t] = u
  BY <1>4, <1>6 DEF N
<1>15. Th(y) = u /\ Last(y.C) = E[n]
  BY <1>5, <1>13, <1>14 DEF Th, T
<1>16. AtRest(E[n], u)
  <2>1. E[n].a = "C" /\ E[n].back /\ E[n].at = Len(u.ci) /\ ~Ci(u).yp /\ Len(u.stack) >= 2
    BY <1>1, <1>7, <1>9, <1>10, <1>13
  <2>2. Len(u.stack) + 0 <= Ci(u).top
    <3>1. \A k \in Nat : k + 0 = k
      OBVIOUS
    <3>2. Len(u.stack) \in Nat
      BY <1>9, ThreadIs
    <3>3. QED
      BY <1>9, <3>1, <3>2
  <2>3. QED
    BY <2>1, <2>2 DEF AtRest
<1>17. RestZ(y)
  BY <1>5, <1>12, <1>15, <1>16 DEF RestZ, GoodZ
<1>18. QED
  BY <1>17 DEF y, x, st
-----------------------------------------------------------------------------
(* lua_resume that fails.                                                  *)

LEMMA ToldTooMany ==
  ASSUME NEW z, Starts(z), NEW msg
  PROVE  RestZ(Returns(On(z, Push(Th(z), msg)), "ERRRUN"))
<1> DEFINE th == Th(z)
           u == Push(th, msg)
           n == Len(th.stack)
<1>1. /\ Ci(th).func <= n /\ n + LUA_MINSTACK <= Ci(th).top /\ Ci(th).top <= lim(th)
      /\ IsThread(th) /\ Slots(th) /\ n \in Nat /\ Ci(th).top \in Nat /\ lim(th) \in Nat
      /\ Ci(th).func \in Nat /\ Ci(th).func >= 2 /\ SeqIs(th.stack)
  BY StartsIs
<1>2. LUA_MINSTACK \in Nat /\ LUA_MINSTACK >= 3
  BY Sizes
<1> DEFINE s == Append(th.stack, msg)
<1>3. SeqIs(s) /\ Len(s) = n + 1
  BY <1>1, Appended
<1>4. u = PutStack(th, s)
  BY DEF Push, PutStack
<1> HIDE DEF u, th, n, s
<1>5. Len(s) <= lim(th) + 3 /\ Len(s) >= 2 /\ Len(s) <= Ci(th).top
  BY <1>1, <1>2, <1>3
<1>6. IsThread(u) /\ Slots(u) /\ u.stack = s /\ u.ci = th.ci /\ Rest6(u, th) /\ Ci(u) = Ci(th)
  BY <1>1, <1>3, <1>4, <1>5, StackChanged
<1>7. Given(u, th)
  BY <1>5, <1>6 DEF Given
<1>8. QED
  BY <1>7, GiveBack DEF u, th
LEMMA ResumeErrorRest ==
  ASSUME NEW z, Starts(z), NEW co, NEW narg \in Nat, narg <= gettop(Th(z)), NEW msg
  PROVE  RestZ(resume_error(z, co, narg, msg))
<1> DEFINE th == Th(z)
           n == Len(th.stack)
           b == SubSeq(th.stack, 1, n - narg)
           s == Append(b, msg)
           u == PutStack(th, s)
           x == On(z, u)
           y == resume_error(z, co, narg, msg)
           f == Ci(th).func
<1>1. /\ f <= n /\ n + LUA_MINSTACK <= Ci(th).top /\ Ci(th).top <= lim(th)
      /\ IsThread(th) /\ Slots(th) /\ n \in Nat /\ Ci(th).top \in Nat /\ lim(th) \in Nat
      /\ f \in Nat /\ f >= 2 /\ SeqIs(th.stack)
  BY StartsIs
<1>2. LUA_MINSTACK \in Nat /\ LUA_MINSTACK >= 3 /\ narg <= n - f
  BY Sizes DEF gettop
<1>3. y = Returns(x, "ERRRUN")
  <2> DEFINE w == [z EXCEPT !.L[T(z)].stack = Append(SubSeq(@, 1, Len(@) - narg), msg)]
  <2>1. w = [z EXCEPT !.L[T(z)] = [z.L[T(z)] EXCEPT !.stack = Append(SubSeq(@, 1, Len(@) - narg), msg)]]
    OBVIOUS
  <2>2. w = x
    BY <2>1 DEF On, Th, PutStack
  <2>3. QED
    BY <2>2 DEF resume_error
<1>4. u = PutStack(th, s)
  OBVIOUS
<1> HIDE DEF th, n, u, x, y, f
<1>5. SeqIs(b) /\ Len(b) = n - narg
  <2>1. n - narg \in Int /\ 1 \in Int /\ 1 <= n - narg /\ n - narg - 1 + 1 = n - narg
    BY <1>1, <1>2
  <2>2. QED
    BY <1>1, <2>1, Cut
<1> HIDE DEF b
<1>6. SeqIs(s) /\ Len(s) = Len(b) + 1
  BY <1>5, Appended
<1> HIDE DEF s
<1>7. Len(s) <= lim(th) + 3 /\ Len(s) >= 2 /\ Len(s) <= Ci(th).top
  BY <1>1, <1>2, <1>5, <1>6
<1>8. IsThread(u) /\ Slots(u) /\ u.stack = s /\ u.ci = th.ci /\ Rest6(u, th) /\ Ci(u) = Ci(th)
  BY <1>1, <1>4, <1>6, <1>7, StackChanged
<1>9. Given(u, Th(z))
  BY <1>7, <1>8 DEF Given, th
<1>10. RestZ(Returns(x, "ERRRUN"))
  BY <1>9, GiveBack DEF x
<1>11. QED
  BY <1>3, <1>10 DEF y
\* auxresume makes room in the frame of the coroutine for the arguments.
IsRoomier(u, co) ==
  /\ IsThread(u) /\ Slots(u) /\ u.stack = co.stack /\ Rest6(u, co) /\ Len(u.ci) = Len(co.ci) /\ lim(u) = lim(co)
  /\ (~errorstatus(co.status) => AgreeAll(u, co) /\ Ci(u).extra = Ci(co).extra)
LEMMA DeadRoomier ==
  ASSUME NEW co, IsThread(co), Slots(co), errorstatus(co.status), NEW n \in Nat, Len(co.stack) + n <= lim(co)
  PROVE  IsRoomier(lua_checkstack(co, n), co)
<1> DEFINE u == lua_checkstack(co, n)
           h == IF Ci(co).top >= Len(co.stack) + n THEN Ci(co).top ELSE Len(co.stack) + n
           f == [Ci(co) EXCEPT !.top = h]
           l == Len(co.ci)
<1>1. /\ IsThread(u) /\ Rest6(u, co) /\ u.stack = co.stack /\ Len(u.ci) = Len(co.ci)
      /\ Ci(u) = f /\ \A i \in 1..(l - 1) : u.ci[i] = co.ci[i]
  BY Roomier
<1>2. l \in Nat /\ l >= 1 /\ Ci(co) = co.ci[l] /\ Ci(co) \in Frame /\ lim(co) \in Nat /\ Len(co.stack) \in Nat
  <2>1. l \in Nat \ {0}
    BY ThreadIs
  <2>2. QED
    BY <2>1, ThreadIs, LimIs
<1>3. f.top = h
  BY <1>2 DEF Frame
<1> HIDE DEF u, f
<1>4. Ci(co).top \in Nat /\ Ci(co).top <= lim(co) + 4
  <2>1. l \in 1..l
    BY <1>2
  <2>2. QED
    BY <1>2, <2>1, FrameIs DEF Slots
<1>5. h <= lim(co) + 4
  BY <1>2, <1>4
<1>6. Ci(u) = u.ci[l]
  BY <1>1, ThreadIs
<1>7. lim(u) = lim(co)
  BY <1>1 DEF lim, Rest6
<1> HIDE DEF h
<1>8. \A i \in 1..l : u.ci[i].top <= lim(co) + 4
  <2>1. ASSUME NEW i \in 1..l PROVE u.ci[i].top <= lim(co) + 4
    <3>1. CASE i = l
      BY <1>1, <1>3, <1>5, <1>6, <3>1
    <3>2. CASE i # l
      <4>1. i \in 1..(l - 1)
        BY <1>2, <3>2
      <4>2. u.ci[i] = co.ci[i]
        BY <1>1, <4>1
      <4>3. QED
        BY <4>2 DEF Slots
    <3>3. QED
      BY <3>1, <3>2
  <2>2. QED
    BY <2>1
<1>9. Len(u.stack) <= lim(u) + 3
  BY <1>1, <1>7 DEF Slots
<1>10. Slots(u)
  BY <1>1, <1>7, <1>8, <1>9 DEF Slots, Rest6
<1>11. IsRoomier(u, co)
  BY <1>1, <1>7, <1>10 DEF IsRoomier
<1>12. QED
  BY <1>11 DEF u
LEMMA LiveRoomier ==
  ASSUME NEW co, IsThread(co), Slots(co), ~errorstatus(co.status), NEW n \in Nat, Len(co.stack) + n <= lim(co)
  PROVE  IsRoomier(lua_checkstack(co, n), co)
<1> DEFINE u == lua_checkstack(co, n)
           h == IF Ci(co).top >= Len(co.stack) + n THEN Ci(co).top ELSE Len(co.stack) + n
           f == [Ci(co) EXCEPT !.top = h]
<1>1. IsThread(u) /\ Slots(u) /\ u.stack = co.stack /\ Rest6(u, co) /\ AgreeAll(u, co) /\ lim(u) = lim(co)
  BY RoomierFits
<1>2. Ci(u) = f
  BY Roomier
<1>3. f.extra = Ci(co).extra
  <2>1. Ci(co) \in Frame
    BY ThreadIs
  <2>2. QED
    BY <2>1 DEF Frame
<1> HIDE DEF u, f
<1>4. IsRoomier(u, co)
  BY <1>1, <1>2, <1>3 DEF IsRoomier, AgreeAll
<1>5. QED
  BY <1>4 DEF u
LEMMA RoomierIs ==
  ASSUME NEW co, IsThread(co), Slots(co), NEW n \in Nat, Room(co, n)
  PROVE  IsRoomier(lua_checkstack(co, n), co) /\ Len(co.stack) + n <= lim(co)
<1>1. Len(co.stack) + n <= lim(co)
  BY RoomIs
<1>2. QED
  BY <1>1, DeadRoomier, LiveRoomier
LEMMA RoomierRested ==
  ASSUME NEW co, IsThread(co), Rested(co), NEW u, IsRoomier(u, co)
  PROVE  Rested(u)
<1> DEFINE l == Len(co.ci)
<1>1. /\ u.stack = co.stack /\ u.status = co.status /\ u.nny = co.nny /\ Len(u.ci) = l /\ IsThread(u)
      /\ l \in Nat /\ l >= 1
  <2>1. l \in Nat \ {0}
    BY ThreadIs
  <2>2. QED
    BY <2>1 DEF IsRoomier, Rest6
<1> HIDE DEF l
<1>2. CASE errorstatus(co.status)
  BY <1>1, <1>2 DEF Rested, Asleep, errorstatus
<1>3. CASE ~errorstatus(co.status)
  <2>1. (\A i \in 1..l : Agree(u.ci[i], co.ci[i])) /\ Ci(u).extra = Ci(co).extra
    BY <1>1, <1>3 DEF IsRoomier, AgreeAll
  <2>2. Ci(u) = u.ci[l] /\ Ci(co) = co.ci[l] /\ l \in 1..l
    BY <1>1, ThreadIs DEF l
  <2>3. Agree(Ci(u), Ci(co))
    BY <2>1, <2>2
  <2>4. Asleep(co) /\ co.nny = 1
    BY DEF Rested
  <2>5. Asleep(u)
    BY <1>1, <2>1, <2>3, <2>4 DEF Asleep, Agree, l
  <2>6. ASSUME NEW i \in 2..l, ~u.ci[i].lua PROVE (u.status = "YIELD" /\ i = l) \/ u.ci[i].k \in Ks
    <3>1. Agree(u.ci[i], co.ci[i]) /\ i \in 2..Len(co.ci)
      BY <2>1 DEF l
    <3>2. ~co.ci[i].lua => (co.status = "YIELD" /\ i = l) \/ co.ci[i].k \in Ks
      BY <1>3, <3>1 DEF Rested, l
    <3>3. QED
      BY <1>1, <2>6, <3>1, <3>2 DEF Agree
  <2>7. QED
    BY <1>1, <2>4, <2>5, <2>6 DEF Rested
<1>4. QED
  BY <1>2, <1>3
LEMMA RoomierSame ==
  ASSUME NEW co, IsThread(co), ~errorstatus(co.status), NEW u, IsRoomier(u, co)
  PROVE  Same(u, co)
BY DEF IsRoomier, Same, AgreeAll, Rest6
LEMMA CoroIs ==
  ASSUME NEW z, GoodZ(z), NEW co \in Coroutines
  PROVE  /\ co \in Threads /\ co # "main" /\ IsThread(z.L[co]) /\ Slots(z.L[co])
         /\ InUse(z.C, T(z)) /\ (~InUse(z.C, co) => co # T(z) /\ Rested(z.L[co]))
         /\ (InUse(z.C, co) => z.L[co].status = "OK")
<1>1. co \in Threads /\ co # "main"
  BY CallsAssumption DEF Threads
<1>2. Good(z.L, z.C)
  BY DEF GoodZ
<1>3. InUse(z.C, T(z))
  <2>1. Len(z.C) \in 1..Len(z.C) /\ T(z) = z.C[Len(z.C)].t
    BY ZIs
  <2>2. QED
    BY <2>1 DEF InUse
<1>4. IsThread(z.L[co]) /\ Slots(z.L[co])
  BY <1>1, <1>2, GoodIs
<1>5. ~InUse(z.C, co) => Rested(z.L[co])
  BY <1>1, <1>2, RestedIs
<1>6. InUse(z.C, co) => z.L[co].status = "OK"
  BY <1>1, <1>2 DEF Good, Idle
<1>7. QED
  BY <1>1, <1>3, <1>4, <1>5, <1>6
LEMMA OtherStarts ==
  ASSUME NEW z, Starts(z), NEW t, NEW u, NEW w, IsOther(w, z, t, u)
  PROVE  Starts(w) /\ gettop(Th(w)) = gettop(Th(z))
BY DEF IsOther, Starts, RestZ
Readied(w, z, co) ==
  /\ Starts(w) /\ w.C = z.C /\ T(w) = T(z) /\ gettop(Th(w)) = gettop(Th(z)) /\ IsRoomier(w.L[co], z.L[co])
LEMMA SelfReadied ==
  ASSUME NEW z, Starts(z), NEW u, IsRoomier(u, Th(z))
  PROVE  Readied(On(z, u), z, T(z))
<1> DEFINE th == Th(z)
           r == Last(z.C)
           w == On(z, u)
           t == T(z)
<1>1. /\ Held(th) /\ r.at = Len(th.ci) /\ ~Ci(th).yp /\ GoodZ(z) /\ z.err = "none"
      /\ Ci(th).func <= Len(th.stack) /\ Len(th.stack) + LUA_MINSTACK <= Ci(th).top
      /\ IsThread(th) /\ Len(th.stack) \in Nat /\ Ci(th).top \in Nat /\ Len(th.ci) >= 2
      /\ Ci(th).func \in Nat
  BY StartsIs
<1>2. r.a = "C" /\ ~r.back /\ LUA_MINSTACK \in Nat
  BY Sizes DEF Starts
<1>3. Len(th.ci) \in Nat /\ Ci(th) = th.ci[Len(th.ci)] /\ ~errorstatus(th.status)
  <2>1. Len(th.ci) \in Nat \ {0}
    BY <1>1, ThreadIs
  <2>2. QED
    BY <1>1, <2>1, ThreadIs DEF Held
<1>4. z.L = [s \in Threads |-> z.L[s]] /\ t \in Threads /\ th = z.L[t]
  BY <1>1, ZIs
<1> HIDE DEF th, r
<1>5. IsThread(u) /\ Slots(u) /\ u.stack = th.stack /\ Rest6(u, th) /\ Len(u.ci) = Len(th.ci) /\ AgreeAll(u, th)
  BY <1>3 DEF IsRoomier, th
<1>6. Agree(Ci(u), Ci(th)) /\ Ci(u) = u.ci[Len(th.ci)] /\ Ci(u) \in Frame
  <2>1. Len(th.ci) \in 1..Len(th.ci)
    BY <1>1, <1>3
  <2>2. Ci(u) = u.ci[Len(th.ci)] /\ Ci(u) \in Frame
    BY <1>5, ThreadIs
  <2>3. QED
    BY <1>3, <1>5, <2>1, <2>2 DEF AgreeAll
<1>7. Adjusted(u, th, r)
  <2>1. Below(u, th, r)
    BY <1>1, <1>3, <1>5 DEF Below, AgreeAll
  <2>2. ~u.ci[r.at].yp
    BY <1>1, <1>6 DEF Agree
  <2>3. \A i \in (r.at + 1)..Len(th.ci) : Agree(u.ci[i], th.ci[i])
    BY <1>1, <1>3
  <2>4. QED
    BY <1>5, <2>1, <2>2, <2>3 DEF Adjusted, Rest6
<1>8. GoodZ(w) /\ Th(w) = u /\ w.C = z.C /\ w.err = z.err /\ T(w) = T(z) /\ Last(w.C) = r
  BY <1>1, <1>7, AdjustedGood DEF th, r
<1>9. w.L[t] = u
  BY <1>8 DEF Th
<1> HIDE DEF w, t
<1>10. AtRest(r, u)
  <2>1. Ci(u).top \in Nat
    BY <1>6, FrameIs
  <2>2. Ci(u).func = Ci(th).func /\ Ci(u).top >= Ci(th).top /\ ~Ci(u).yp
    BY <1>1, <1>6 DEF Agree
  <2>3. Len(u.stack) + LUA_MINSTACK <= Ci(u).top
    BY <1>1, <1>2, <1>5, <2>1, <2>2
  <2>4. errorstatus(r.status) => Len(u.stack) >= 2
    <3>1. AtRest(r, th)
      BY DEF Starts, RestZ, r, th
    <3>2. QED
      BY <1>2, <1>5, <3>1 DEF AtRest
  <2>5. QED
    BY <1>1, <1>2, <1>5, <2>2, <2>3, <2>4 DEF AtRest
<1>11. Starts(w)
  BY <1>1, <1>2, <1>8, <1>10 DEF Starts, RestZ
<1>12. gettop(u) = gettop(th)
  BY <1>5, <1>6 DEF gettop, Agree
<1>13. Readied(w, z, t)
  <2>1. IsRoomier(w.L[t], z.L[t])
    BY <1>4, <1>9 DEF th
  <2>2. QED
    BY <1>8, <1>11, <1>12, <2>1 DEF Readied, th, t
<1>14. QED
  BY <1>13 DEF w, t
LEMMA CoReadied ==
  ASSUME NEW z, Starts(z), NEW co \in Coroutines, NEW n \in Nat, Room(z.L[co], n)
  PROVE  Readied(ZT(z, co, lua_checkstack(z.L[co], n)), z, co)
<1> DEFINE th == z.L[co]
           u == lua_checkstack(th, n)
           w == ZT(z, co, u)
<1>1. GoodZ(z)
  BY StartsIs
<1>2. /\ co \in Threads /\ IsThread(th) /\ Slots(th) /\ (~InUse(z.C, co) => co # T(z) /\ Rested(th))
      /\ (InUse(z.C, co) => th.status = "OK")
  BY <1>1, CoroIs
<1> HIDE DEF th
<1>3. IsRoomier(u, th)
  BY <1>2, RoomierIs DEF th
<1> HIDE DEF u
<1>4. CASE co = T(z)
  <2>1. th = Th(z) /\ w = On(z, u)
    BY <1>4 DEF th, Th, On, ZT
  <2>2. Readied(On(z, u), z, T(z))
    BY <1>3, <2>1, SelfReadied
  <2>3. QED
    BY <1>4, <2>1, <2>2 DEF u, th
<1>5. CASE co # T(z)
  <2>1. MayBe(u, z, co)
    <3>1. InUse(z.C, co) => Same(u, th)
      BY <1>2, <1>3, RoomierSame DEF errorstatus
    <3>2. ~InUse(z.C, co) => Rested(u)
      BY <1>2, <1>3, RoomierRested
    <3>3. IsThread(u) /\ Slots(u)
      BY <1>3 DEF IsRoomier
    <3>4. QED
      BY <3>1, <3>2, <3>3 DEF MayBe, th
  <2>2. IsOther(w, z, co, u)
    BY <1>1, <1>2, <1>5, <2>1, OtherSet
  <2>3. Starts(w) /\ gettop(Th(w)) = gettop(Th(z))
    BY <2>2, OtherStarts
  <2>4. w.L[co] = u
    <3>1. z.L = [s \in Threads |-> z.L[s]]
      BY <1>1, ZIs
    <3>2. w.L = [z.L EXCEPT ![co] = u]
      BY <2>2 DEF IsOther
    <3> HIDE DEF w
    <3>3. QED
      BY <1>2, <3>1, <3>2
  <2> HIDE DEF w
  <2>5. Readied(w, z, co)
    BY <1>3, <2>2, <2>3, <2>4 DEF Readied, IsOther, th
  <2>6. QED
    BY <2>5 DEF w, u, th
<1>6. QED
  BY <1>4, <1>5
\* A coroutine that lua_resume lets run.
Resumable(z, co, n) ==
  /\ Starts(z) /\ n \in Nat /\ n <= gettop(Th(z)) /\ co \in Coroutines /\ ~InUse(z.C, co) /\ co # T(z)
  /\ IsThread(z.L[co]) /\ Slots(z.L[co]) /\ Rested(z.L[co]) /\ z.L[co].status \in {"OK", "YIELD"}
  /\ Len(z.L[co].stack) + n <= lim(z.L[co])
  /\ (z.L[co].status = "OK" => Len(z.L[co].stack) >= 2)
\* The C stack is full.
LEMMA FullFails ==
  ASSUME NEW z, NEW co, NEW n, Resumable(z, co, n), NEW msg
  PROVE  RestZ(resume_error([z EXCEPT !.L[co].nCcalls = Th(z).nCcalls + 1], co, n, msg))
<1> DEFINE c == Th(z).nCcalls + 1
           v == z.L[co]
           u == PutCalls(v, c)
           w == ZT(z, co, u)
<1>1. GoodZ(z) /\ Starts(z) /\ co \in Threads /\ co # T(z) /\ IsThread(v) /\ Slots(v) /\ Rested(v) /\ ~InUse(z.C, co)
  <2>1. GoodZ(z)
    BY StartsIs DEF Resumable
  <2>2. co \in Threads
    BY <2>1, CoroIs DEF Resumable
  <2>3. QED
    BY <2>1, <2>2 DEF Resumable
<1>2. c \in Int
  <2>1. Th(z).nCcalls \in Int
    BY <1>1, ZIs, ThreadIs
  <2>2. QED
    BY <2>1
<1>3. [z EXCEPT !.L[co].nCcalls = Th(z).nCcalls + 1] = w
  BY DEF ZT, PutCalls
<1> HIDE DEF c, v
<1>4. /\ IsThread(u) /\ u.stack = v.stack /\ u.ci = v.ci /\ u.status = v.status /\ u.big = v.big /\ u.nny = v.nny
  <2>1. u = PutCalls(v, c)
    OBVIOUS
  <2> HIDE DEF u
  <2>2. QED
    BY <1>1, <1>2, <2>1, SetCalls
<1> HIDE DEF u
<1>5. Slots(u)
  BY <1>1, <1>4 DEF Slots, lim
<1>6. Rested(u)
  BY <1>1, <1>4 DEF Rested, Asleep, Ci
<1>7. MayBe(u, z, co)
  BY <1>1, <1>4, <1>5, <1>6 DEF MayBe
<1>8. IsOther(w, z, co, u)
  BY <1>1, <1>7, OtherSet
<1> HIDE DEF w
<1>9. Starts(w) /\ gettop(Th(w)) = gettop(Th(z))
  BY <1>1, <1>8, OtherStarts
<1>10. RestZ(resume_error(w, co, n, msg))
  BY <1>9, ResumeErrorRest DEF Resumable
<1>11. QED
  BY <1>3, <1>10
-----------------------------------------------------------------------------
(* lua_resume.                                                             *)

\* The thread of a coroutine that begins or goes on.
Woken(u, c) ==
  /\ IsThread(u) /\ Slots(u) /\ u.status = "OK" /\ u.nny = 0 /\ u.nCcalls = c
  /\ \A i \in 2..Len(u.ci) : ~u.ci[i].lua => u.ci[i].k \in Ks
\* Its resumer has handed over the arguments.
Handed(x, z, n) ==
  /\ GoodZ(x) /\ IsZ(x) /\ x.C = z.C /\ x.err = "none" /\ T(x) = T(z) /\ Last(x.C) = Last(z.C)
  /\ x.L = [z.L EXCEPT ![T(z)] = Th(x)]
  /\ Th(x).ci = Th(z).ci /\ Ci(Th(x)) = Ci(Th(z)) /\ Th(x).nCcalls = Th(z).nCcalls
  /\ Len(Th(x).stack) = Len(Th(z).stack) - n
LEMMA HandedIs ==
  ASSUME NEW z, NEW co, NEW n, Resumable(z, co, n), NEW s, SeqIs(s), Len(s) = Len(Th(z).stack) - n
  PROVE  Handed(On(z, PutStack(Th(z), s)), z, n)
<1> DEFINE th == Th(z)
           l == Len(th.stack)
           v == PutStack(th, s)
           x == On(z, v)
           f == Ci(th).func
<1>1. /\ f <= l /\ Ci(th).top <= lim(th) /\ l + LUA_MINSTACK <= Ci(th).top
      /\ IsThread(th) /\ Slots(th) /\ l \in Nat /\ Ci(th).top \in Nat /\ lim(th) \in Nat
      /\ f \in Nat /\ f >= 2 /\ SeqIs(th.stack) /\ GoodZ(z) /\ z.err = "none"
  <2>1. Starts(z)
    BY DEF Resumable
  <2>2. QED
    BY <2>1, StartsIs
<1>2. n \in Nat /\ n <= l - f /\ LUA_MINSTACK \in Nat
  BY Sizes DEF Resumable, gettop
<1>13. v = PutStack(th, s)
  OBVIOUS
<1>4. SeqIs(s) /\ Len(s) = l - n
  OBVIOUS
<1> HIDE DEF th, l, v, x, f
<1>5. Len(s) <= lim(th) + 3
  BY <1>1, <1>2, <1>4
<1>6. IsThread(v) /\ Slots(v) /\ v.stack = s /\ v.ci = th.ci /\ Rest6(v, th) /\ Ci(v) = Ci(th)
  BY <1>1, <1>4, <1>5, <1>13, StackChanged
<1>7. Restacked(v, Th(z))
  BY <1>6 DEF Restacked, Rest6, th
<1>8. GoodZ(x) /\ Th(x) = v /\ x.C = z.C /\ x.err = z.err /\ T(x) = T(z) /\ Last(x.C) = Last(z.C)
  BY <1>1, <1>7, RestackedGood DEF x
<1>9. IsZ(x) /\ x.L = [z.L EXCEPT ![T(z)] = v]
  BY <1>1, OnIs DEF x, GoodZ
<1>10. Handed(x, z, n)
  BY <1>1, <1>4, <1>6, <1>8, <1>9 DEF Handed, Rest6, th, l
<1>11. QED
  BY <1>10 DEF x, v, th
LEMMA HandedStack ==
  ASSUME NEW z, NEW co, NEW n, Resumable(z, co, n)
  PROVE  LET s == SubSeq(Th(z).stack, 1, Len(Th(z).stack) - n)
         IN SeqIs(s) /\ Len(s) = Len(Th(z).stack) - n
<1> DEFINE th == Th(z)
           l == Len(th.stack)
           f == Ci(th).func
           s == SubSeq(th.stack, 1, l - n)
<1>1. f <= l /\ l \in Nat /\ f \in Nat /\ f >= 2 /\ SeqIs(th.stack)
  <2>1. Starts(z)
    BY DEF Resumable
  <2>2. QED
    BY <2>1, StartsIs
<1>2. n \in Nat /\ n <= l - f
  BY DEF Resumable, gettop
<1> HIDE DEF l, f, th
<1>3. l - n \in Int /\ 1 \in Int /\ 1 <= l - n /\ l - n - 1 + 1 = l - n
  BY <1>1, <1>2
<1>4. SeqIs(s) /\ Len(s) = l - n
  BY <1>1, <1>3, Cut
<1>5. QED
  BY <1>4 DEF s, l, th
ResumeRecord(co, c) == [a |-> "resume", t |-> co, at |-> 1, oldnny |-> 1, nCcalls |-> c]
LEMMA ResumeEnters ==
  ASSUME NEW z, NEW co, NEW n, Resumable(z, co, n), NEW x, Handed(x, z, n),
         NEW u, Woken(u, Th(z).nCcalls + 1), NEW r, r = ResumeRecord(co, Th(z).nCcalls + 1)
  PROVE  Enters(u, x.L, x.C, r)
<1> DEFINE D == x.C
           M == x.L
           m == Len(D)
           q == Last(D)
           t == T(x)
           th == Th(x)
           c == Th(z).nCcalls + 1
           l == Len(Th(z).stack)
<1>1. Stacks(M, D, m, q, t, th) /\ GoodZ(x)
  BY StacksIs DEF Handed
<1>2. Starts(z)
  BY DEF Resumable
<1>3. /\ q.a = "C" /\ ~q.back /\ q.at = Len(th.ci) /\ ~Ci(th).yp /\ th.nCcalls + 1 = c
      /\ Ci(th).func <= l - n /\ l - n + 1 <= Ci(th).top /\ Len(th.stack) = l - n
  <2>1. Last(z.C).at = Len(Th(z).ci) /\ ~Ci(Th(z)).yp /\ l + LUA_MINSTACK <= Ci(Th(z)).top
        /\ l \in Nat /\ Ci(Th(z)).top \in Nat /\ Ci(Th(z)).func \in Nat
    BY <1>2, StartsIs
  <2>2. Last(z.C).a = "C" /\ ~Last(z.C).back
    BY <1>2 DEF Starts
  <2>3. n \in Nat /\ n <= l - Ci(Th(z)).func
    BY DEF Resumable, gettop
  <2>4. q = Last(z.C) /\ th.ci = Th(z).ci /\ Ci(th) = Ci(Th(z)) /\ Len(th.stack) = l - n /\ th.nCcalls = Th(z).nCcalls
    BY DEF Handed
  <2>5. LUA_MINSTACK \in Nat /\ LUA_MINSTACK >= 3
    BY Sizes
  <2> DEFINE f == Ci(Th(z)).func
             p == Ci(Th(z)).top
  <2> HIDE DEF l, f, p
  <2>6. f <= l - n /\ l - n + 1 <= p
    BY <2>1, <2>3, <2>5 DEF f, p
  <2>7. QED
    BY <2>1, <2>2, <2>4, <2>6 DEF f, p
<1>4. ~InUse(D, co) /\ co # t /\ co \in Threads /\ co # "main"
  <2>1. ~InUse(z.C, co) /\ co # T(z) /\ co \in Coroutines
    BY DEF Resumable
  <2>2. co \in Threads /\ co # "main"
    BY <1>1, <2>1, CoroIs
  <2>3. QED
    BY <2>1, <2>2 DEF Handed
<1>5. Woken(u, c)
  OBVIOUS
<1> HIDE DEF D, M, m, q, t, th, c, l
<1>6. /\ Good(M, D) /\ m = Len(D) /\ q = D[m] /\ t = q.t /\ th = M[t] /\ m \in Nat /\ m >= 1 /\ m \in 1..m
      /\ D \in Seq(Record) /\ IsThread(th) /\ th.nCcalls = Calling(D, m) /\ Len(th.ci) \in Nat
  BY <1>1 DEF Stacks
<1>7. c \in Int
  BY <1>3, <1>6, ThreadIs
<1>8. r.a = "resume" /\ r.t = co /\ r.at = 1 /\ r.oldnny = 1 /\ r.nCcalls = c /\ r \in Record
  <2>1. r = ResumeRecord(co, c)
    BY DEF c
  <2>2. r \in [a : {"resume"}, t : Threads, at : Places, oldnny : Int, nCcalls : Int]
    BY <1>4, <1>7, <2>1 DEF ResumeRecord, Places
  <2>3. r \in Record
    BY <2>2 DEF Record
  <2>4. QED
    BY <2>1, <2>3 DEF ResumeRecord
<1>9. Follows(r, D)
  <2>1. \A j \in 1..Len(D) : D[j].t # co
    BY <1>4 DEF InUse
  <2>2. Len(D) # 1
    <3>1. D[1].a = "docall"
      BY <1>6, GoodIs
    <3>2. QED
      BY <1>3, <1>6, <3>1
  <2>3. QED
    BY <1>8, <2>1, <2>2 DEF Follows
<1>10. Linked(q, r, th)
  <2>1. th.ci[q.at] = Ci(th)
    BY <1>3, <1>6, ThreadIs
  <2>2. q.a = "C" /\ ~q.back /\ q.at = Len(th.ci) /\ ~Ci(th).yp
        /\ Ci(th).func <= Len(th.stack) /\ Len(th.stack) + 1 <= Ci(th).top
    BY <1>3
  <2>3. QED
    BY <1>8, <2>1, <2>2 DEF Linked
<1>11. ~IsNy(r) /\ ~Free(r)
  BY <1>8 DEF IsNy, Callers, Free
<1>12. Placed(r, u)
  <2>1. 1 <= Len(u.ci)
    BY <1>5 DEF Woken, IsThread
  <2>2. QED
    BY <1>8, <1>11, <2>1 DEF Placed
<1>13. Saved(r, D, m)
  <2>1. r.nCcalls = Calling(D, m) + 1
    BY <1>3, <1>6, <1>8
  <2>2. QED
    BY <1>8, <1>11, <2>1 DEF Saved
<1>14. Ny(D, co, m) = 0
  BY <1>4, <1>6, NyZero DEF InUse
<1>15. u.nny = Ny(D, r.t, m) + MainNy(r.t) + (IF IsNy(r) THEN 1 ELSE 0)
  BY <1>4, <1>5, <1>8, <1>11, <1>14 DEF Woken, MainNy
<1>16. u.nCcalls = Calling(D, m) + (IF r.a \in Callers \cup {"resume"} THEN 1 ELSE 0)
  <2>1. r.a \in Callers \cup {"resume"}
    BY <1>8
  <2>2. QED
    BY <1>3, <1>5, <1>6, <2>1 DEF Woken
<1>17. ASSUME NEW i \in 2..Len(u.ci) PROVE ContinuedAt(u, Append(D, r), r.t, i)
  <2> DEFINE E == Append(D, r)
  <2>1. Len(E) = m + 1 /\ E[m + 1] = r /\ \A j \in 1..m : E[j] = D[j]
    BY <1>6, <1>8, PushedRecord
  <2> HIDE DEF E
  <2>2. \A k : ~Has(E, "C", co, k)
    <3>1. ASSUME NEW j \in 1..Len(E), E[j].a = "C", E[j].t = co PROVE FALSE
      <4>1. j = m + 1 \/ j \in 1..m
        BY <1>6, <2>1, <3>1
      <4>2. CASE j = m + 1
        BY <1>8, <2>1, <3>1, <4>2
      <4>3. CASE j \in 1..m
        BY <1>4, <1>6, <2>1, <3>1, <4>3 DEF InUse
      <4>4. QED
        BY <4>1, <4>2, <4>3
    <3>2. QED
      BY <3>1 DEF Has
  <2>3. ~u.ci[i].lua => u.ci[i].k \in Ks
    BY <1>5, <1>17 DEF Woken
  <2>4. ContinuedAt(u, E, co, i)
    BY <2>2, <2>3 DEF ContinuedAt
  <2>5. QED
    BY <1>8, <2>4 DEF E
<1>18. IsThread(u) /\ Slots(u) /\ u.status = "OK"
  BY <1>5 DEF Woken
<1>19. Enters(u, M, D, r)
  BY <1>6, <1>8, <1>9, <1>10, <1>12, <1>13, <1>15, <1>16, <1>17, <1>18 DEF Enters
<1>20. QED
  BY <1>19 DEF M, D
\* The coroutine runs, on top of its resumer.
IsResumed(y, u, c, co) ==
  /\ GoodZ(y) /\ y.err = "none" /\ Th(y) = u /\ T(y) = co /\ Last(y.C) = ResumeRecord(co, c) /\ Len(y.C) >= 2
LEMMA ResumedHas ==
  ASSUME NEW z, NEW co, NEW n, Resumable(z, co, n), NEW x, Handed(x, z, n), NEW c, c = Th(z).nCcalls + 1,
         NEW u, Woken(u, c), NEW y, IsZ(y), y.L = [x.L EXCEPT ![co] = u],
         y.C = Append(x.C, ResumeRecord(co, c)), y.err = x.err
  PROVE  IsResumed(y, u, c, co)
<1> DEFINE r == ResumeRecord(co, c)
<1>1. Enters(u, x.L, x.C, r)
  BY ResumeEnters
<1>2. r.t = co
  BY DEF ResumeRecord
<1>3. y.L = [x.L EXCEPT ![r.t] = u] /\ y.C = Append(x.C, r)
  BY <1>2
<1>4. GoodZ(x) /\ x.err = "none"
  BY DEF Handed
<1> HIDE DEF r
<1>5. Good(y.L, y.C)
  BY <1>1, <1>3, <1>4, EntersGood DEF GoodZ
<1>6. x.L = [s \in Threads |-> x.L[s]] /\ x.C \in Seq(Record) /\ Len(x.C) >= 1 /\ Len(x.C) \in Nat
  BY <1>4, ZIs
<1>7. co \in Threads
  <2>1. r \in Record
    BY <1>1 DEF Enters
  <2>2. QED
    BY <1>2, <2>1, RecordIs
<1>8. Last(y.C) = r /\ Len(y.C) = Len(x.C) + 1
  <2>1. r \in Record
    BY <1>1 DEF Enters
  <2>2. QED
    BY <1>3, <1>6, <2>1, PushedRecord
<1>9. y.L[co] = u
  BY <1>6, <1>7
<1>10. T(y) = co /\ Th(y) = u
  BY <1>2, <1>8, <1>9 DEF T, Th
<1>11. Len(y.C) >= 2
  BY <1>6, <1>8
<1>12. QED
  BY <1>4, <1>5, <1>8, <1>10, <1>11 DEF IsResumed, GoodZ, r
Wake(co, s, c) == [co EXCEPT !.stack = s, !.nCcalls = c, !.nny = 0, !.status = "OK"]
IsWake(w, co, s, c) ==
  /\ IsThread(w) /\ Slots(w) /\ w.stack = s /\ w.ci = co.ci /\ w.status = "OK" /\ w.nny = 0 /\ w.nCcalls = c
  /\ lim(w) = lim(co) /\ Ci(w) = Ci(co)
LEMMA WakeIs ==
  ASSUME NEW co, IsThread(co), Slots(co), ~errorstatus(co.status), NEW s, SeqIs(s), Len(s) <= lim(co) + 3,
         NEW c, c \in Int
  PROVE  IsWake(Wake(co, s, c), co, s, c)
<1> DEFINE a == PutStack(co, s)
           b == PutCalls(a, c)
           ny == 0
           d == PutNny(b, ny)
           st == "OK"
           w == PutStatus(d, st)
<1>1. w = Wake(co, s, c)
  BY DEF Wake, PutStack, PutCalls, PutNny, PutStatus
<1>2. a = PutStack(co, s) /\ b = PutCalls(a, c) /\ d = PutNny(b, ny) /\ w = PutStatus(d, st) /\ st \in Statuses
      /\ ny \in Int /\ ~errorstatus(st)
  BY DEF Statuses, errorstatus
<1> HIDE DEF a, b, d, w, st, ny
<1>3. /\ IsThread(a) /\ Slots(a) /\ a.stack = s /\ a.ci = co.ci /\ Rest6(a, co) /\ Ci(a) = Ci(co)
      /\ lim(a) = lim(co)
  BY <1>2, StackChanged
<1>4. IsThread(b) /\ b.nCcalls = c /\ b.stack = a.stack /\ b.ci = a.ci /\ b.big = a.big
  BY <1>2, <1>3, SetCalls
<1>5. IsThread(d) /\ d.nny = ny /\ d.stack = b.stack /\ d.ci = b.ci /\ d.big = b.big /\ d.nCcalls = b.nCcalls
  BY <1>2, <1>4, SetNny
<1>6. /\ IsThread(w) /\ w.status = st /\ w.stack = d.stack /\ w.ci = d.ci /\ w.big = d.big /\ w.nCcalls = d.nCcalls
      /\ w.nny = d.nny
  BY <1>2, <1>5, SetStatus
<1>7. lim(w) = lim(a) /\ Ci(w) = Ci(co)
  BY <1>3, <1>4, <1>5, <1>6 DEF lim, Ci
<1>8. ~errorstatus(a.status)
  BY <1>3 DEF Rest6
<1>9. w.stack = a.stack /\ w.ci = a.ci /\ ~errorstatus(w.status)
  BY <1>2, <1>4, <1>5, <1>6
<1>10. Slots(w)
  BY <1>3, <1>7, <1>8, <1>9 DEF Slots
<1>11. IsWake(w, co, s, c)
  BY <1>3, <1>4, <1>5, <1>6, <1>7, <1>10 DEF IsWake, st, ny
<1>12. QED
  BY <1>1, <1>11
\* The arguments.
LEMMA ArgumentsIs ==
  ASSUME NEW st, SeqIs(st), NEW n \in Nat, n <= Len(st)
  PROVE  LET a == SubSeq(st, Len(st) - n + 1, Len(st)) IN SeqIs(a) /\ Len(a) = n
<1> DEFINE l == Len(st)
           b == l - n + 1
<1>1. l \in Nat
  BY LenIs
<1> HIDE DEF l
<1>2. b \in Int /\ l \in Int /\ (IF b <= l THEN l - b + 1 ELSE 0) = n
  BY <1>1 DEF l
<1> HIDE DEF b
<1>3. SeqIs(SubSeq(st, b, l)) /\ Len(SubSeq(st, b, l)) = n
  BY <1>2, Cut
<1>4. QED
  BY <1>3 DEF b, l
\* The stack of the coroutine with them.
Passed(z, co, n) == z.L[co].stack \o SubSeq(Th(z).stack, Len(Th(z).stack) - n + 1, Len(Th(z).stack))
LEMMA PassedIs ==
  ASSUME NEW z, NEW co, NEW n, Resumable(z, co, n)
  PROVE  /\ SeqIs(Passed(z, co, n)) /\ Len(Passed(z, co, n)) = Len(z.L[co].stack) + n
         /\ Len(Passed(z, co, n)) <= lim(z.L[co]) + 3 /\ Len(z.L[co].stack) \in Nat /\ n \in Nat
         /\ lim(z.L[co]) \in Nat /\ GoodZ(z) /\ z.err = "none"
<1> DEFINE st == Th(z).stack
           a == SubSeq(st, Len(st) - n + 1, Len(st))
           b == z.L[co].stack
           p == Passed(z, co, n)
           f == Ci(Th(z)).func
<1>1. SeqIs(st) /\ Len(st) \in Nat /\ f \in Nat /\ GoodZ(z) /\ z.err = "none"
  <2>1. Starts(z)
    BY DEF Resumable
  <2>2. QED
    BY <2>1, StartsIs
<1>2. n \in Nat /\ n <= Len(st) - f /\ IsThread(z.L[co]) /\ Len(b) + n <= lim(z.L[co])
  BY DEF Resumable, gettop
<1>3. SeqIs(b) /\ Len(b) \in Nat /\ lim(z.L[co]) \in Nat
  BY <1>2, ThreadIs, LimIs
<1>4. p = b \o a
  BY DEF Passed
<1> HIDE DEF b, p, f
<1>5. n <= Len(st)
  BY <1>1, <1>2
<1>6. SeqIs(a) /\ Len(a) = n
  BY <1>1, <1>2, <1>5, ArgumentsIs
<1> HIDE DEF a, st
<1>7. SeqIs(p) /\ Len(p) = Len(b) + Len(a)
  BY <1>3, <1>4, <1>6, Joined
<1>8. Len(p) = Len(b) + n /\ Len(p) <= lim(z.L[co]) + 3
  BY <1>2, <1>3, <1>6, <1>7
<1>9. QED
  BY <1>1, <1>2, <1>3, <1>7, <1>8 DEF b, p
\* A coroutine begins.
LEMMA BeginWakes ==
  ASSUME NEW z, NEW co, NEW n, Resumable(z, co, n), z.L[co].status = "OK", NEW c, c \in Int,
         NEW u, u = Wake(z.L[co], Passed(z, co, n), c)
  PROVE  /\ Woken(u, c) /\ Len(u.ci) = 1 /\ Len(u.stack) = Len(z.L[co].stack) + n /\ Len(z.L[co].stack) >= 2
<1> DEFINE th == z.L[co]
           s == Passed(z, co, n)
<1>1. IsThread(th) /\ Slots(th) /\ Rested(th) /\ Len(th.stack) >= 2 /\ ~errorstatus(th.status)
  BY DEF Resumable, errorstatus
<1>2. SeqIs(s) /\ Len(s) = Len(th.stack) + n /\ Len(s) <= lim(th) + 3
  BY PassedIs
<1> HIDE DEF s
<1>3. IsWake(u, th, s, c)
  <2> HIDE DEF th
  <2>1. IsWake(Wake(th, s, c), th, s, c)
    BY <1>1, <1>2, WakeIs
  <2>2. QED
    BY <2>1 DEF th, s
<1>4. Len(th.ci) = 1
  BY <1>1 DEF Rested, Asleep
<1>5. Len(u.ci) = 1
  BY <1>3, <1>4 DEF IsWake
<1>6. Woken(u, c)
  BY <1>3, <1>5 DEF Woken, IsWake
<1>7. QED
  BY <1>1, <1>2, <1>3, <1>5, <1>6 DEF IsWake
LEMMA BeginOutcome ==
  ASSUME NEW y, NEW u, NEW c, NEW co, IsResumed(y, u, c, co), Len(u.ci) = 1, NEW func, func \in Nat, func >= 2,
         func <= Len(u.stack)
  PROVE  Outcome(luaD_precall(y, func, -1, TRUE))
<1> DEFINE m == -1
           r == Last(y.C)
           f == TRUE
<1>1. GoodZ(y) /\ y.err = "none" /\ Th(y) = u /\ r = ResumeRecord(co, c) /\ Len(y.C) >= 2
  BY DEF IsResumed
<1>2. r.a = "resume" /\ r.at = 1
  BY <1>1 DEF ResumeRecord
<1>3. m \in {-1, 0, 1, 2} /\ f \in BOOLEAN /\ f
  OBVIOUS
<1> HIDE DEF m, r, f
<1>4. CanCall(y, func, m, f)
  BY <1>1, <1>2, <1>3 DEF CanCall, Throwing, r
<1>5. GrowsTo(y, luaD_precall(y, func, m, f))
  BY <1>4, PrecallOutcome
<1>6. Outcome(luaD_precall(y, func, m, f))
  BY <1>5, GrownOutcome
<1>7. QED
  BY <1>6 DEF m, f
\* A coroutine goes on after a yield.
Yielder(th) == OnCi(th, [Ci(th) EXCEPT !.func = Ci(th).extra])
LEMMA WokenPopped ==
  ASSUME NEW th, IsThread(th), Slots(th), Rested(th), th.status = "YIELD", NEW s, SeqIs(s), Len(s) <= lim(th) + 3,
         NEW c, c \in Int, NEW args, SeqIs(args), Len(th.stack) + Len(args) <= lim(th),
         NEW u, u = luaD_poscall(Yielder(Wake(th, s, c)), args)
  PROVE  Woken(u, c) /\ Len(u.stack) <= lim(u) /\ Len(u.stack) >= 1
<1> DEFINE w == Wake(th, s, c)
           f == [Ci(w) EXCEPT !.func = Ci(w).extra]
           v == OnCi(w, f)
           l == Len(th.ci)
<1>1. ~errorstatus(th.status) /\ Asleep(th) /\ l >= 2 /\ ~Ci(th).lua /\ ~Ci(th).yp /\ Ci(th).extra = Ci(th).func
      /\ Ci(th).func <= Len(th.stack)
      /\ \A i \in 2..l : ~th.ci[i].lua => i = l \/ th.ci[i].k \in Ks
  BY DEF Rested, Asleep, errorstatus
<1>2. IsWake(w, th, s, c)
  BY <1>1, WakeIs
<1>3. v = Yielder(w)
  BY DEF Yielder
<1> HIDE DEF w
<1>4. IsThread(w) /\ Slots(w) /\ w.ci = th.ci /\ w.status = "OK" /\ w.nny = 0 /\ w.nCcalls = c /\ lim(w) = lim(th)
      /\ Ci(w) = Ci(th) /\ ~errorstatus(w.status)
  BY <1>2 DEF IsWake, errorstatus
<1>5. /\ Ci(w).top <= lim(w) /\ FrameFits(Len(w.ci), Ci(w)) /\ Ci(w) \in Frame /\ Ci(w).func \in Nat /\ l \in Nat
  BY <1>4, TopFrame
<1>6. f \in Frame /\ f.func = Ci(w).func /\ f.top = Ci(w).top /\ f.lua = Ci(w).lua /\ f.yp = Ci(w).yp /\ f.k = Ci(w).k
      /\ f.extra = Ci(w).extra
  <2>1. Ci(w).extra = Ci(w).func
    BY <1>1, <1>4
  <2>2. QED
    BY <1>5, <2>1 DEF Frame
<1> HIDE DEF f
<1>7. FrameFits(Len(w.ci), f) /\ f.top <= lim(w)
  BY <1>5, <1>6 DEF FrameFits
<1>8. /\ IsThread(v) /\ Slots(v) /\ v.stack = w.stack /\ Rest6(v, w) /\ Len(v.ci) = Len(w.ci)
      /\ Ci(v) = f /\ lim(v) = lim(w) /\ \A i \in 1..(Len(w.ci) - 1) : v.ci[i] = w.ci[i]
  BY <1>4, <1>6, <1>7, FrameChanged
<1> HIDE DEF v, l
<1>9. Len(v.ci) >= 2 /\ ~errorstatus(v.status) /\ Len(v.ci) = l
  BY <1>1, <1>4, <1>8 DEF Rest6, l
<1>10. Ci(v).func - 1 + Len(args) <= lim(v)
  <2> DEFINE g == Ci(v).func
             k == Len(args)
             n == Len(th.stack)
             m == lim(th)
  <2>1. g \in Nat /\ k \in Nat /\ n \in Nat /\ m \in Nat /\ g <= n /\ n + k <= m /\ lim(v) = m
    BY <1>1, <1>4, <1>5, <1>6, <1>8, LenIs, ThreadIs, LimIs
  <2> HIDE DEF g, k, n, m
  <2>2. g - 1 + k <= m
    BY <2>1
  <2>3. QED
    BY <2>1, <2>2 DEF g, k, m
<1>11. IsPopped(luaD_poscall(v, args), v)
  BY <1>8, <1>9, <1>10, PoscallFits
<1>12. u = luaD_poscall(v, args)
  BY <1>3 DEF w
<1>13. IsPopped(u, v)
  BY <1>11, <1>12
<1>14. /\ IsThread(u) /\ Slots(u) /\ Rest6(u, v) /\ Len(u.ci) = l - 1 /\ (\A i \in 1..(l - 1) : u.ci[i] = v.ci[i])
       /\ Len(u.stack) <= lim(u) /\ Len(u.stack) >= 1
  BY <1>9, <1>13 DEF IsPopped
<1>15. ASSUME NEW i \in 2..Len(u.ci), ~u.ci[i].lua PROVE u.ci[i].k \in Ks
  <2>1. i \in 1..(l - 1) /\ i \in 2..l /\ i # l /\ i \in 1..(Len(w.ci) - 1)
    BY <1>5, <1>8, <1>9, <1>14
  <2>2. u.ci[i] = th.ci[i]
    BY <1>4, <1>8, <1>14, <2>1
  <2>3. QED
    BY <1>1, <1>15, <2>1, <2>2 DEF l
<1>16. u.status = "OK" /\ u.nny = 0 /\ u.nCcalls = c
  BY <1>4, <1>8, <1>14 DEF Rest6
<1>17. QED
  BY <1>14, <1>15, <1>16 DEF Woken
LEMMA GoesOn ==
  ASSUME NEW y, NEW u, NEW c, NEW co, IsResumed(y, u, c, co), Len(u.stack) <= lim(u), Len(u.stack) >= 1
  PROVE  RestZ(unroll(Stacked(y, [a |-> "unroll", t |-> co, at |-> 1, status |-> "YIELD"])))
<1> DEFINE st == "YIELD"
           r == [a |-> "unroll", t |-> co, at |-> 1, status |-> st]
           w == Stacked(y, r)
<1>1. GoodZ(y) /\ y.err = "none" /\ Th(y) = u /\ T(y) = co /\ Last(y.C) = ResumeRecord(co, c) /\ IsZ(y) /\ Good(y.L, y.C)
  BY DEF IsResumed, GoodZ
<1>2. y.C[Len(y.C)].a = "resume" /\ y.C[Len(y.C)].t = co /\ y.C \in Seq(Record) /\ u = y.L[co]
  <2>1. Last(y.C) = y.C[Len(y.C)] /\ y.C \in Seq(Record)
    BY <1>1, ZIs
  <2>2. QED
    BY <1>1, <2>1 DEF ResumeRecord, Th, T
<1>3. st \in Statuses /\ st = "YIELD"
  BY DEF Statuses
<1> HIDE DEF st
<1>4. r.a = "unroll" /\ r.t = co /\ r.status = st /\ r = [a |-> "unroll", t |-> co, at |-> 1, status |-> st]
  OBVIOUS
<1> HIDE DEF r
<1>5. Good(y.L, Append(y.C, r)) /\ r \in Record
  BY <1>1, <1>2, <1>3, <1>4, UnrollEnters
<1>6. IsZ(w) /\ w.L = y.L /\ w.C = Append(y.C, r) /\ w.err = y.err
  BY <1>1, StackedIs
<1>7. Last(w.C) = r
  BY <1>2, <1>5, <1>6, PushedRecord
<1> HIDE DEF w
<1>8. GoodZ(w) /\ w.err = "none" /\ Th(w) = u
  BY <1>1, <1>2, <1>4, <1>5, <1>6, <1>7 DEF GoodZ, Th, T
<1>9. Ret(r, u)
  <2>1. r.a = "unroll" /\ r.status = "YIELD" /\ r.a \notin Callers
    BY <1>3, <1>4 DEF Callers
  <2>2. QED
    BY <2>1 DEF Ret
<1>10. RetZ(w)
  BY <1>7, <1>8, <1>9 DEF RetZ
<1>11. RestZ(unroll(w))
  BY <1>4, <1>7, <1>10, UnrollRest
<1>12. QED
  BY <1>11 DEF w, r, st
\* The state in which the coroutine runs, with thread u.
Awoken(z, co, n, u) ==
  LET r == [a |-> "resume", t |-> co, at |-> 1, oldnny |-> z.L[co].nny, nCcalls |-> Th(z).nCcalls + 1]
      moved == [z EXCEPT !.C = Append(@, r), !.L[T(z)].stack = SubSeq(@, 1, Len(@) - n)]
  IN [moved EXCEPT !.L[co] = u]
LEMMA AwokenIs ==
  ASSUME NEW z, NEW co, NEW n, Resumable(z, co, n), NEW u, Woken(u, Th(z).nCcalls + 1)
  PROVE  IsResumed(Awoken(z, co, n, u), u, Th(z).nCcalls + 1, co)
<1> DEFINE c == Th(z).nCcalls + 1
           s == SubSeq(Th(z).stack, 1, Len(Th(z).stack) - n)
           x == On(z, PutStack(Th(z), s))
           r == [a |-> "resume", t |-> co, at |-> 1, oldnny |-> z.L[co].nny, nCcalls |-> Th(z).nCcalls + 1]
           w == [z EXCEPT !.C = Append(@, r), !.L[T(z)].stack = SubSeq(@, 1, Len(@) - n)]
           y == Awoken(z, co, n, u)
<1>1. Rested(z.L[co]) /\ Starts(z)
  BY DEF Resumable
<1>2. IsZ(z) /\ z.err = "none"
  BY <1>1, StartsIs DEF GoodZ
<1>3. r = ResumeRecord(co, c)
  BY <1>1 DEF Rested, ResumeRecord
<1>4. x.L = [z.L EXCEPT ![T(z)] = PutStack(Th(z), s)] /\ x.C = z.C /\ x.err = z.err
  BY <1>2, OnIs
<1>5. Handed(x, z, n)
  <2>1. SeqIs(s) /\ Len(s) = Len(Th(z).stack) - n
    BY HandedStack
  <2> HIDE DEF s
  <2>2. QED
    BY <2>1, HandedIs
<1>6. y = [w EXCEPT !.L[co] = u]
  BY DEF Awoken
<1>7. w.L = x.L /\ w.C = Append(z.C, r) /\ w.err = z.err /\ IsZ(w)
  <2> DEFINE E == Append(z.C, r)
             z1 == ZC(z, E)
             N == [z.L EXCEPT ![T(z)] = PutStack(Th(z), s)]
             v == ZL(z1, N)
  <2>1. w = [z1 EXCEPT !.L[T(z)].stack = SubSeq(@, 1, Len(@) - n)]
    BY DEF ZC
  <2> HIDE DEF E, r
  <2>2. IsZ(z1) /\ z1.L = z.L /\ z1.C = E /\ z1.err = z.err
    BY <1>2, ZFields
  <2> HIDE DEF z1
  <2>3. [z1 EXCEPT !.L[T(z)].stack = SubSeq(@, 1, Len(@) - n)] = v
    BY <2>2 DEF ZL, PutStack, Th
  <2>4. IsZ(v) /\ v.L = N /\ v.C = E /\ v.err = z.err
    BY <2>2, ZFields
  <2> HIDE DEF v, w
  <2>5. w = v
    BY <2>1, <2>3
  <2>6. QED
    BY <1>4, <2>4, <2>5 DEF E
<1> HIDE DEF w, r, x
<1>8. IsZ(y) /\ y.L = [x.L EXCEPT ![co] = u] /\ y.C = Append(x.C, ResumeRecord(co, c)) /\ y.err = x.err
  <2>0. IsZ(w)
    BY <1>7
  <2>1. IsZ(ZT(w, co, u)) /\ ZT(w, co, u).L = [w.L EXCEPT ![co] = u] /\ ZT(w, co, u).C = w.C
        /\ ZT(w, co, u).err = w.err
    BY <2>0 DEF IsZ, ZT
  <2>2. y = ZT(w, co, u)
    BY <1>6 DEF ZT
  <2>3. QED
    BY <1>3, <1>4, <1>7, <2>1, <2>2
<1>9. c = Th(z).nCcalls + 1 /\ Woken(u, c)
  OBVIOUS
<1> HIDE DEF c, y
<1>10. IsResumed(y, u, c, co)
  BY <1>5, <1>8, <1>9, ResumedHas
<1>11. QED
  BY <1>10 DEF c, y
LEMMA BeginsOutcome ==
  ASSUME NEW z, NEW co, NEW n, Resumable(z, co, n), z.L[co].status = "OK"
  PROVE  Outcome(resume(z, co, Th(z), n))
<1> DEFINE c == Th(z).nCcalls + 1
           u == Wake(z.L[co], Passed(z, co, n), c)
           y == Awoken(z, co, n, u)
           func == Len(u.stack) - n
<1>1. resume(z, co, Th(z), n) = luaD_precall(y, func, -1, TRUE)
  BY DEF resume, Awoken, Wake, Passed
<1>2. c \in Int
  <2>1. GoodZ(z)
    BY StartsIs DEF Resumable
  <2>2. Th(z).nCcalls \in Int
    BY <2>1, ZIs, ThreadIs
  <2>3. QED
    BY <2>2
<1>3. c = Th(z).nCcalls + 1
  OBVIOUS
<1>4. u = Wake(z.L[co], Passed(z, co, n), c)
  OBVIOUS
<1> HIDE DEF c, u
<1>5. Woken(u, c) /\ Len(u.ci) = 1 /\ Len(u.stack) = Len(z.L[co].stack) + n /\ Len(z.L[co].stack) >= 2
  <2> DEFINE w == Wake(z.L[co], Passed(z, co, n), c)
  <2>1. Woken(w, c) /\ Len(w.ci) = 1 /\ Len(w.stack) = Len(z.L[co].stack) + n /\ Len(z.L[co].stack) >= 2
    BY <1>2, BeginWakes
  <2>2. QED
    BY <1>4, <2>1
<1>6. IsResumed(y, u, c, co)
  BY <1>3, <1>5, AwokenIs
<1>7. func \in Nat /\ func >= 2 /\ func <= Len(u.stack)
  <2>1. Len(z.L[co].stack) \in Nat /\ n \in Nat
    BY PassedIs
  <2>2. QED
    BY <1>5, <2>1
<1> HIDE DEF y, func
<1>8. Outcome(luaD_precall(y, func, -1, TRUE))
  BY <1>5, <1>6, <1>7, BeginOutcome
<1>9. QED
  BY <1>1, <1>8
LEMMA GoesOnOutcome ==
  ASSUME NEW z, NEW co, NEW n, Resumable(z, co, n), z.L[co].status = "YIELD"
  PROVE  Outcome(resume(z, co, Th(z), n))
<1> DEFINE c == Th(z).nCcalls + 1
           p == Passed(z, co, n)
           th == Wake(z.L[co], p, c)
           args == SubSeq(p, Len(p) - n + 1, Len(p))
           u == luaD_poscall(Yielder(th), args)
           y == Awoken(z, co, n, u)
           w == unroll(Stacked(y, [a |-> "unroll", t |-> co, at |-> 1, status |-> "YIELD"]))
<1>1. c \in Int
  <2>1. GoodZ(z)
    BY StartsIs DEF Resumable
  <2>2. Th(z).nCcalls \in Int
    BY <2>1, ZIs, ThreadIs
  <2>3. QED
    BY <2>2
<1>2. /\ SeqIs(p) /\ Len(p) = Len(z.L[co].stack) + n /\ Len(p) <= lim(z.L[co]) + 3 /\ Len(z.L[co].stack) \in Nat
      /\ n \in Nat /\ lim(z.L[co]) \in Nat
  BY PassedIs
<1>3. IsThread(z.L[co]) /\ Slots(z.L[co]) /\ Rested(z.L[co]) /\ Len(z.L[co].stack) + n <= lim(z.L[co])
      /\ ~errorstatus(z.L[co].status)
  BY DEF Resumable, errorstatus
<1>4. th.stack = p
  <2> HIDE DEF p, c
  <2>1. IsWake(th, z.L[co], p, c)
    BY <1>1, <1>2, <1>3, WakeIs
  <2>2. QED
    BY <2>1 DEF IsWake
<1>5. resume(z, co, Th(z), n) = w
  <2> DEFINE a1 == SubSeq(th.stack, Len(th.stack) - n + 1, Len(th.stack))
             u1 == luaD_poscall(Yielder(th), a1)
  <2>1. z.L[co].status # "OK"
    OBVIOUS
  <2>2. resume(z, co, Th(z), n)
        = unroll(Stacked(Awoken(z, co, n, u1), [a |-> "unroll", t |-> co, at |-> 1, status |-> "YIELD"]))
    BY <2>1 DEF resume, Awoken, Wake, Passed, Yielder
  <2>3. a1 = args
    <3> HIDE DEF th, p
    <3>1. QED
      BY <1>4
  <2>4. u1 = u
    <3> HIDE DEF a1, args, th
    <3>1. QED
      BY <2>3
  <2>5. QED
    <3> HIDE DEF u1, u
    <3>1. QED
      BY <2>2, <2>4
<1> HIDE DEF p
<1>6. SeqIs(args) /\ Len(args) = n
  <2>1. n <= Len(p)
    BY <1>2
  <2>2. QED
    BY <1>2, <2>1, ArgumentsIs
<1>7. u = luaD_poscall(Yielder(Wake(z.L[co], p, c)), args)
  OBVIOUS
<1>8. c = Th(z).nCcalls + 1
  OBVIOUS
<1> HIDE DEF c, args, u, th
<1>9. Len(z.L[co].stack) + Len(args) <= lim(z.L[co])
  BY <1>3, <1>6
<1>10. Woken(u, c) /\ Len(u.stack) <= lim(u) /\ Len(u.stack) >= 1
  BY <1>1, <1>2, <1>3, <1>6, <1>7, <1>9, WokenPopped
<1>11. IsResumed(y, u, c, co)
  BY <1>8, <1>10, AwokenIs
<1> HIDE DEF y
<1>12. RestZ(w)
  BY <1>10, <1>11, GoesOn
<1>13. QED
  BY <1>5, <1>12 DEF Outcome
LEMMA ResumeOutcome ==
  ASSUME NEW z, NEW co, NEW n, Resumable(z, co, n)
  PROVE  Outcome(resume(z, co, Th(z), n))
<1>1. z.L[co].status \in {"OK", "YIELD"}
  BY DEF Resumable
<1>2. QED
  BY <1>1, BeginsOutcome, GoesOnOutcome
LEMMA LuaResumeOutcome ==
  ASSUME NEW z, Starts(z), NEW co \in Coroutines, NEW n \in Nat, n <= gettop(Th(z)),
         Len(z.L[co].stack) + n <= lim(z.L[co]),
         ~InUse(z.C, co) /\ z.L[co].status = "OK" => Len(z.L[co].stack) >= 2
  PROVE  Outcome(lua_resume(z, co, n))
<1> DEFINE th == z.L[co]
           m1 == "cannot resume non-suspended coroutine"
           m2 == "cannot resume dead coroutine"
           m3 == "C stack overflow"
           y == resume_error([z EXCEPT !.L[co].nCcalls = Th(z).nCcalls + 1], co, n, m3)
           w == resume(z, co, Th(z), n)
           o == lua_resume(z, co, n)
<1>1. \/ th.status = "OK" /\ Len(th.ci) > 1 /\ o = resume_error(z, co, n, m1)
      \/ th.status \notin {"OK", "YIELD"} /\ o = resume_error(z, co, n, m2)
      \/ ~(th.status = "OK" /\ Len(th.ci) > 1) /\ th.status \in {"OK", "YIELD"} /\ (o = y \/ o = w)
  BY DEF lua_resume
<1> HIDE DEF m1, m2, m3, o
<1>2. RestZ(resume_error(z, co, n, m1)) /\ RestZ(resume_error(z, co, n, m2))
  BY ResumeErrorRest
<1>3. ASSUME ~(th.status = "OK" /\ Len(th.ci) > 1), th.status \in {"OK", "YIELD"}
      PROVE  Resumable(z, co, n)
  <2>1. GoodZ(z) /\ Last(z.C).a = "C"
    BY StartsIs DEF Starts
  <2>2. co \in Threads /\ IsThread(th) /\ Slots(th)
        /\ (~InUse(z.C, co) => co # T(z) /\ Rested(z.L[co]))
    BY <2>1, CoroIs
  <2>3. ~InUse(z.C, co)
    <3>1. Len(th.ci) \in Nat
      BY <2>2, ThreadIs
    <3>2. InUse(z.C, co) => th.status = "OK" /\ Len(th.ci) >= 2
      BY <2>1, InUseDeep
    <3>3. Len(th.ci) >= 2 => Len(th.ci) > 1
      BY <3>1
    <3>4. QED
      BY <1>3, <3>2, <3>3
  <2>4. QED
    BY <1>3, <2>2, <2>3 DEF Resumable
<1>4. Resumable(z, co, n) => RestZ(y) /\ Outcome(w)
  BY FullFails, ResumeOutcome
<1> HIDE DEF y, w
<1>5. Outcome(o)
  BY <1>1, <1>2, <1>3, <1>4 DEF Outcome
<1>6. QED
  BY <1>5 DEF o
LEMMA AuxresumeOutcome ==
  ASSUME NEW z, Starts(z), NEW co \in Coroutines, NEW n \in Nat, n <= gettop(Th(z))
  PROVE  Outcome(auxresume(z, co, n))
<1> DEFINE th == z.L[co]
           m1 == "too many arguments to resume"
           m2 == "cannot resume dead coroutine"
           y1 == Returns(On(z, Push(Th(z), m1)), "ERRRUN")
           y2 == Returns(On(z, Push(Th(z), m2)), "ERRRUN")
           w == ZT(z, co, lua_checkstack(th, n))
           o == auxresume(z, co, n)
           v == lua_resume(w, co, n)
<1>1. \/ o = y1 \/ o = y2
      \/ Room(th, n) /\ ~(th.status = "OK" /\ gettop(th) = 0) /\ o = v
  BY DEF auxresume, ZT
<1> HIDE DEF m1, m2
<1>2. RestZ(y1) /\ RestZ(y2)
  BY ToldTooMany
<1> HIDE DEF y1, y2, o
<1>3. GoodZ(z)
  BY StartsIs
<1>4. /\ IsThread(th) /\ Slots(th) /\ (~InUse(z.C, co) => Rested(th))
  BY <1>3, CoroIs
<1>5. ASSUME Room(th, n), ~(th.status = "OK" /\ gettop(th) = 0)
      PROVE  Outcome(v)
  <2>1. Readied(w, z, co)
    BY <1>5, CoReadied
  <2>2. Len(th.stack) + n <= lim(th)
    BY <1>4, <1>5, RoomierIs
  <2> HIDE DEF w
  <2>3. Starts(w) /\ w.C = z.C /\ gettop(Th(w)) = gettop(Th(z)) /\ IsRoomier(w.L[co], th)
    BY <2>1 DEF Readied
  <2>4. w.L[co].stack = th.stack /\ w.L[co].status = th.status /\ lim(w.L[co]) = lim(th)
    BY <2>3 DEF IsRoomier, Rest6
  <2>5. ~InUse(z.C, co) /\ th.status = "OK" => Len(th.stack) >= 2
    <3> SUFFICES ASSUME ~InUse(z.C, co), th.status = "OK" PROVE Len(th.stack) >= 2
      OBVIOUS
    <3>1. Len(th.ci) = 1 /\ Len(th.stack) >= 1
      BY <1>4 DEF Rested, Asleep
    <3>2. FrameFits(1, th.ci[1]) /\ Ci(th) = th.ci[1]
      <4>1. ~errorstatus(th.status)
        BY DEF errorstatus
      <4>2. FrameFits(Len(th.ci), Ci(th)) /\ Ci(th) = th.ci[Len(th.ci)]
        BY <1>4, <4>1, TopFrame, LastC
      <4>3. QED
        BY <3>1, <4>2
    <3>3. Ci(th).func = 1
      BY <3>2 DEF FrameFits
    <3>4. Len(th.stack) - 1 # 0 /\ Len(th.stack) \in Nat
      <4>1. Len(th.stack) \in Nat
        BY <1>4, ThreadIs, LenIs
      <4>2. QED
        BY <1>5, <3>3, <4>1 DEF gettop
    <3> DEFINE k == Len(th.stack)
    <3>5. k \in Nat /\ k - 1 # 0 /\ k >= 1
      BY <3>1, <3>4
    <3> HIDE DEF k
    <3>6. k >= 2
      BY <3>5
    <3>7. QED
      BY <3>6 DEF k
  <2>6. /\ n <= gettop(Th(w)) /\ Len(w.L[co].stack) + n <= lim(w.L[co])
        /\ (~InUse(w.C, co) /\ w.L[co].status = "OK" => Len(w.L[co].stack) >= 2)
    BY <2>2, <2>3, <2>4, <2>5
  <2>7. QED
    BY <2>3, <2>6, LuaResumeOutcome
<1> HIDE DEF v
<1>6. Outcome(o)
  BY <1>1, <1>2, <1>5 DEF Outcome
<1>7. QED
  BY <1>6 DEF o
-----------------------------------------------------------------------------
(* The other operations of the program.                                    *)

\* wrap passes an error on.
LEMMA PassesOn ==
  ASSUME NEW z, RestZ(z), Last(z.C).a = "C", Last(z.C).back, errorstatus(Last(z.C).status)
  PROVE  Outcome(luaG_errormsg(z))
<1> DEFINE th == Th(z)
           y == luaG_errormsg(z)
<1>1. Held(th) /\ GoodZ(z) /\ z.err = "none" /\ AtRest(Last(z.C), th)
  BY RestHeld DEF RestZ
<1>2. Len(th.stack) >= 2 /\ Len(th.stack) <= Ci(th).top
  <2>1. Len(th.stack) \in Nat
    BY <1>1, ThreadIs, LenIs DEF Held
  <2>2. Len(th.stack) + 0 <= Ci(th).top /\ Len(th.stack) >= 2
    BY <1>1 DEF AtRest
  <2>3. Len(th.stack) + 0 = Len(th.stack)
    BY <2>1
  <2>4. QED
    BY <2>2, <2>3
<1>3. Ci(th).top <= lim(th) /\ Ci(th).top \in Nat /\ lim(th) \in Nat /\ Len(th.stack) \in Nat
  BY <1>1, TopFrame DEF Held
<1>4. Len(th.stack) <= lim(th) + 2
  <2> DEFINE n == Len(th.stack)
             t == Ci(th).top
             m == lim(th)
  <2>1. n \in Nat /\ t \in Nat /\ m \in Nat /\ n <= t /\ t <= m
    BY <1>2, <1>3
  <2> HIDE DEF n, t, m
  <2>2. n <= m + 2
    BY <2>1
  <2>3. QED
    BY <2>2 DEF n, m
<1>5. Throwing(z)
  <2>1. Good(z.L, z.C)
    BY <1>1 DEF GoodZ
  <2>2. z.C[1].a = "docall" /\ Len(z.C) \in Nat /\ Len(z.C) >= 1
    BY <2>1, GoodIs
  <2>3. Last(z.C) = z.C[Len(z.C)]
    BY <1>1, ZIs
  <2>4. Len(z.C) # 1
    BY <2>2, <2>3
  <2>5. Len(z.C) >= 2
    <3>1. \A k \in Nat : k >= 1 /\ k # 1 => k >= 2
      OBVIOUS
    <3>2. QED
      BY <2>2, <2>4, <3>1
  <2>6. QED
    BY <1>1, <2>5 DEF Throwing
<1> HIDE DEF th, y
<1>6. ErrOutcome(th, y)
  BY <1>2, <1>4, <1>5, ErrormsgOutcome DEF th, y
<1>7. Outcome(y)
  BY <1>6, OutcomeIs
<1>8. QED
  BY <1>7 DEF y
\* A new line for the program.
LEMMA DocallAgain ==
  ASSUME NEW z, RestZ(z), Last(z.C).a = "docall"
  PROVE  RestZ([On(z, [Th(z) EXCEPT !.stack = <<"nil">>])
                  EXCEPT !.C = <<[a |-> "docall", t |-> "main", at |-> 1, back |-> FALSE, status |-> "OK"]>>])
<1> DEFINE th == Th(z)
           nil == "nil"
           s == <<nil>>
           u == PutStack(th, s)
           x == On(z, u)
           r == [a |-> "docall", t |-> "main", at |-> 1, back |-> FALSE, status |-> "OK"]
           E == <<r>>
           w == ZC(x, E)
           D == z.C
<1>1. GoodZ(z) /\ z.err = "none" /\ Len(th.ci) = 1
  BY DEF RestZ, AtRest
<1>2. Good(z.L, D) /\ IsZ(z)
  BY <1>1 DEF GoodZ
<1>3. Last(D) = D[Len(D)] /\ T(z) = D[Len(D)].t /\ IsThread(th) /\ Slots(th) /\ th.status = "OK"
      /\ th.nny = Ny(D, T(z), Len(D)) + MainNy(T(z)) /\ th.nCcalls = Calling(D, Len(D)) /\ th = z.L[T(z)]
      /\ D \in Seq(Record) /\ Len(D) \in Nat /\ Placed(D[Len(D)], th)
  BY <1>1, ZIs
<1>4. Len(D) = 1 /\ D[1].a = "docall" /\ D[1].t = "main" /\ D[1].at = 1
  <2>1. Base(D) /\ Len(D) >= 1
    BY <1>2, GoodIs DEF Shape
  <2>2. ~(Len(D) >= 2)
    BY <1>3, <2>1 DEF Base
  <2>3. Len(D) = 1
    <3>1. \A k \in Nat : k >= 1 /\ ~(k >= 2) => k = 1
      OBVIOUS
    <3>2. Len(D) \in Nat
      BY <1>3
    <3> HIDE DEF D
    <3>3. QED
      BY <2>1, <2>2, <3>1, <3>2
  <2>4. QED
    BY <1>3, <2>1, <2>3 DEF Base, Placed
<1>5. r \in Record /\ r.a = "docall" /\ r.t = "main" /\ r.at = 1 /\ ~r.back
  BY DEF Record, Threads, Statuses, Places
<1> HIDE DEF r
<1>6. E \in Seq(Record) /\ Len(E) = 1 /\ E[1] = r /\ Last(E) = r
  BY <1>5 DEF Last
<1> HIDE DEF E
<1>7. Beginning(E, D, 1)
  BY <1>4, <1>5, <1>6 DEF Beginning, Alike
<1>8. SeqIs(s) /\ Len(s) = 1
  <2> HIDE DEF nil
  <2>1. s \in Seq({nil}) /\ Len(s) = 1
    OBVIOUS
  <2>2. QED
    BY <2>1 DEF SeqIs
<1>9. u = PutStack(th, s)
  OBVIOUS
<1> HIDE DEF s
<1>10. Len(s) <= lim(th) + 3
  BY <1>3, <1>8, LimIs
<1>11. ~errorstatus(th.status)
  BY <1>3 DEF errorstatus
<1> HIDE DEF u
<1>12. IsThread(u) /\ Slots(u) /\ u.stack = s /\ u.ci = th.ci /\ Rest6(u, th)
  <2> HIDE DEF th
  <2>1. IsThread(th) /\ Slots(th)
    BY <1>3
  <2>2. SeqIs(s)
    BY <1>8
  <2>3. QED
    BY <1>9, <1>10, <2>1, <2>2, StackChanged
<1>13. Remains(u, z.L, D, 1, E)
  <2>0. u.ci = th.ci /\ Len(th.ci) = 1 /\ D[1].at = 1 /\ IsThread(th)
    BY <1>1, <1>3, <1>4, <1>12
  <2>1. Below(u, th, D[1])
    <3> HIDE DEF th, D
    <3>1. \A i \in 1..1 : th.ci[i].top \in Nat
      <4>1. th.ci[1] \in Frame
        BY <2>0, ThreadIs
      <4>2. QED
        BY <4>1, FrameIs
    <3>2. QED
      BY <2>0, <3>1 DEF Below, Agree
  <2>2. \A i \in (D[1].at + 1)..Len(u.ci) : ContinuedAt(u, E, D[1].t, i)
    <3>1. (D[1].at + 1)..Len(u.ci) = {}
      <4> HIDE DEF th, D
      <4>1. QED
        BY <2>0
    <3>2. QED
      BY <3>1
  <2> HIDE DEF th
  <2>3. u.status = "OK" /\ u.nny = Ny(D, D[1].t, 1) + MainNy(D[1].t) /\ u.nCcalls = Calling(D, 1)
        /\ th = z.L[D[1].t] /\ D[1].a # "C"
    BY <1>3, <1>4, <1>12 DEF Rest6
  <2>4. QED
    BY <1>12, <2>1, <2>2, <2>3 DEF Remains
<1>14. x.L = Moved(z.L, D[1].t, u) /\ IsZ(x) /\ x.err = "none"
  BY <1>1, <1>2, <1>3, <1>4, OnIs DEF Moved
<1> HIDE DEF x
<1>15. Good(x.L, E)
  <2>1. \A i \in 2..Len(D) : D[i].t = D[1].t
    BY <1>4
  <2>2. QED
    BY <1>2, <1>7, <1>13, <1>14, <2>1, CutGood
<1>16. IsZ(w) /\ w.L = x.L /\ w.C = E /\ w.err = "none"
  BY <1>14, ZFields
<1> HIDE DEF w
<1>17. Th(w) = u
  <2>1. T(w) = "main"
    BY <1>5, <1>6, <1>16 DEF T
  <2>2. w.L["main"] = u
    BY <1>2, <1>3, <1>4, <1>14, <1>16, GoodIs DEF Moved, GoodZ, Good, Typed
  <2>3. QED
    BY <2>1, <2>2 DEF Th
<1>18. AtRest(r, u)
  BY <1>1, <1>5, <1>12 DEF AtRest
<1>19. RestZ(w)
  BY <1>6, <1>15, <1>16, <1>17, <1>18 DEF RestZ, GoodZ
<1>20. QED
  BY <1>19 DEF w, E, r, x, u, s, PutStack, ZC
LEMMA OtherRest ==
  ASSUME NEW z, RestZ(z), NEW t \in Threads, t # T(z), NEW u, MayBe(u, z, t)
  PROVE  RestZ(ZT(z, t, u))
<1> DEFINE w == ZT(z, t, u)
<1>1. GoodZ(z) /\ z.err = "none" /\ AtRest(Last(z.C), Th(z))
  BY DEF RestZ
<1>2. IsOther(w, z, t, u)
  BY <1>1, OtherSet
<1> HIDE DEF w
<1>3. RestZ(w)
  BY <1>1, <1>2 DEF IsOther, RestZ
<1>4. QED
  BY <1>3 DEF w
\* A new coroutine, or the program's thread.
IsNewThread(u, n) ==
  /\ IsThread(u) /\ Slots(u) /\ Rested(u) /\ Len(u.ci) = 1 /\ Len(u.stack) = n + 1 /\ u.nCcalls = 0 /\ u.status = "OK"
LEMMA NewThreadIs ==
  ASSUME NEW body, SeqIs(body), Len(body) <= 3
  PROVE  IsNewThread(NewThread(body), Len(body))
<1> DEFINE u == NewThread(body)
           nil == "nil"
           a == <<nil>>
           s == a \o body
           f == [func |-> 1, top |-> 1 + LUA_MINSTACK, nres |-> 0, lua |-> FALSE, fresh |-> FALSE,
                 op |-> "none", yp |-> FALSE, k |-> "none", extra |-> 0, olderr |-> 0]
           c == <<f>>
<1>1. u = [status |-> "OK", stack |-> s, nny |-> 1, nCcalls |-> 0, errfunc |-> 0, big |-> FALSE, ci |-> c]
  BY DEF NewThread
<1>2. SeqIs(s) /\ Len(s) = Len(body) + 1 /\ Len(body) \in Nat
  <2> HIDE DEF nil
  <2>1. SeqIs(a) /\ Len(a) = 1
    BY Fixed
  <2>2. Len(body) \in Nat
    BY LenIs
  <2>3. SeqIs(a \o body) /\ Len(a \o body) = Len(a) + Len(body)
    <3> HIDE DEF a
    <3>1. SeqIs(a)
      BY <2>1
    <3>2. QED
      BY <3>1, Joined
  <2> HIDE DEF a
  <2>4. QED
    BY <2>1, <2>2, <2>3
<1>3. f \in Frame /\ f.func = 1 /\ f.top = 1 + LUA_MINSTACK /\ ~f.lua /\ ~f.yp
  BY Sizes DEF Frame
<1> HIDE DEF s, f
<1>4. c \in Seq(Frame) /\ Len(c) = 1 /\ c[1] = f
  BY <1>3
<1> HIDE DEF c
<1>5. u.status = "OK" /\ u.stack = s /\ u.nny = 1 /\ u.nCcalls = 0 /\ u.big = FALSE /\ u.ci = c
  BY <1>1
<1>6. IsThread(u)
  <2>1. PICK V : s \in Seq(V)
    BY <1>2 DEF SeqIs
  <2>2. u \in ThreadOver(V)
    BY <1>1, <1>4, <2>1 DEF ThreadOver, Statuses
  <2>3. Len(u.ci) >= 1
    <3> HIDE DEF u
    <3>1. QED
      BY <1>4, <1>5
  <2> HIDE DEF u
  <2>4. QED
    BY <2>2, <2>3 DEF IsThread
<1> HIDE DEF u
<1>7. lim(u) \in Nat /\ 1 + LUA_MINSTACK <= lim(u) /\ LUA_MINSTACK >= 3 /\ LUA_MINSTACK \in Nat /\ ~errorstatus(u.status)
  <2>1. lim(u) \in Nat /\ lim(u) >= LUAI_MAXSTACK - EXTRA_STACK /\ LUAI_MAXSTACK - EXTRA_STACK >= 1 + LUA_MINSTACK
    BY <1>6, LimIs
  <2>2. QED
    BY <1>5, <2>1, Sizes DEF errorstatus
<1>8. Slots(u)
  <2>1. Len(u.stack) <= lim(u) + 3
    BY <1>2, <1>5, <1>7
  <2>2. FrameFits(1, f) /\ f.top <= lim(u)
    BY <1>3, <1>7 DEF FrameFits
  <2>3. \A i \in 1..Len(u.ci) : i = 1 /\ u.ci[i] = f
    BY <1>4, <1>5
  <2>4. QED
    BY <1>7, <2>1, <2>2, <2>3 DEF Slots
<1>9. Rested(u)
  <2>1. Len(u.ci) = 1 /\ Len(u.stack) >= 1 /\ 2..Len(u.ci) = {}
    BY <1>2, <1>4, <1>5
  <2>2. QED
    BY <1>5, <2>1 DEF Rested, Asleep
<1>10. IsNewThread(u, Len(body))
  BY <1>2, <1>4, <1>5, <1>6, <1>8, <1>9 DEF IsNewThread
<1>11. QED
  BY <1>10 DEF u
LEMMA CocreateRest ==
  ASSUME NEW z, RestZ(z), Last(z.C).a = "exec", NEW co \in Coroutines,
         errorstatus(z.L[co].status) \/ (z.L[co].status = "OK" /\ Len(z.L[co].ci) = 1)
  PROVE  RestZ(ZT(z, co, NewThread(<<"f">>)))
<1> DEFINE fn == "f"
           body == <<fn>>
           u == NewThread(body)
<1>1. GoodZ(z)
  BY DEF RestZ
<1>2. ~InUse(z.C, co)
  <2> SUFFICES ASSUME InUse(z.C, co) PROVE FALSE
    OBVIOUS
  <2>1. z.L[co].status = "OK" /\ Len(z.L[co].ci) >= 2
    BY <1>1, InUseDeep
  <2>2. ~errorstatus(z.L[co].status)
    BY <2>1 DEF errorstatus
  <2>3. Len(z.L[co].ci) >= 2 /\ Len(z.L[co].ci) = 1
    BY <2>1, <2>2
  <2>4. QED
    BY <2>3
<1>3. co \in Threads /\ co # T(z)
  BY <1>1, <1>2, CoroIs
<1>4. SeqIs(body) /\ Len(body) = 1
  <2> HIDE DEF fn
  <2>1. QED
    BY Fixed
<1> HIDE DEF body
<1>5. IsNewThread(u, Len(body))
  <2>1. SeqIs(body) /\ Len(body) <= 3
    BY <1>4
  <2>2. QED
    BY <2>1, NewThreadIs
<1> HIDE DEF u
<1>6. MayBe(u, z, co)
  BY <1>2, <1>5 DEF MayBe, IsNewThread
<1>7. RestZ(ZT(z, co, u))
  BY <1>3, <1>6, OtherRest
<1>8. QED
  BY <1>7 DEF u, body
IsShrunk(w, th) ==
  /\ IsThread(w) /\ Slots(w) /\ w.stack = th.stack /\ w.ci = th.ci /\ w.status = th.status
  /\ w.nny = th.nny /\ w.nCcalls = th.nCcalls
LEMMA ShrunkIs ==
  ASSUME NEW th, IsThread(th), Slots(th)
  PROVE  IsShrunk(luaD_shrinkstack(th), th)
<1> DEFINE w == luaD_shrinkstack(th)
           n == lim(th) + 4
           m == LUAI_MAXSTACK - EXTRA_STACK
<1>1. lim(th) \in Nat /\ n \in Nat
  BY LimIs
<1>2. Within(th, n)
  BY Bounds
<1> HIDE DEF n
<1>3. /\ IsThread(w) /\ w.stack = th.stack /\ w.ci = th.ci /\ w.status = th.status
      /\ w.nny = th.nny /\ w.nCcalls = th.nCcalls
      /\ w.big = th.big \/ (~w.big /\ Within(th, m))
  BY <1>1, <1>2, Shrunk
<1> HIDE DEF w
<1>4. CASE w.big = th.big
  <2>1. lim(w) = lim(th)
    BY <1>4 DEF lim
  <2>2. Slots(w)
    BY <1>3, <2>1 DEF Slots
  <2>3. IsShrunk(w, th)
    BY <1>3, <2>2 DEF IsShrunk
  <2>4. QED
    BY <2>3 DEF w
<1>5. CASE ~w.big /\ Within(th, m)
  <2>1. lim(w) = m /\ m \in Nat
    BY <1>3, <1>5, LimIs
  <2> HIDE DEF m
  <2>2. Len(w.stack) <= m /\ \A i \in 1..Len(w.ci) : w.ci[i].top <= m /\ w.ci[i].top \in Nat
    <3>1. \A i \in 1..Len(th.ci) : th.ci[i].top \in Nat
      BY ThreadIs, FrameIs
    <3>2. QED
      BY <1>3, <1>5, <3>1 DEF Within
  <2>3. Len(w.stack) \in Nat
    BY <1>3, ThreadIs
  <2>4. Len(w.stack) <= lim(w) + 3 /\ \A i \in 1..Len(w.ci) : w.ci[i].top <= lim(w) /\ w.ci[i].top <= lim(w) + 4
    BY <2>1, <2>2, <2>3
  <2>5. Slots(w)
    BY <1>3, <2>4 DEF Slots
  <2>6. IsShrunk(w, th)
    BY <1>3, <2>5 DEF IsShrunk
  <2>7. QED
    BY <2>6 DEF w
<1>6. QED
  BY <1>3, <1>4, <1>5
LEMMA TraverseRest ==
  ASSUME NEW z, RestZ(z), Last(z.C).a = "exec", NEW t \in Threads
  PROVE  RestZ(ZT(z, t, luaD_shrinkstack(z.L[t])))
<1> DEFINE th == z.L[t]
           u == luaD_shrinkstack(th)
<1>1. GoodZ(z) /\ z.err = "none" /\ AtRest(Last(z.C), Th(z))
  BY DEF RestZ
<1>2. IsThread(th) /\ Slots(th)
  BY <1>1, GoodIs DEF GoodZ
<1>3. IsShrunk(u, th)
  BY <1>2, ShrunkIs
<1>4. \A i \in 1..Len(th.ci) : Agree(u.ci[i], th.ci[i])
  <2> HIDE DEF th, u
  <2>1. \A i \in 1..Len(th.ci) : th.ci[i].top \in Nat
    BY <1>2, ThreadIs, FrameIs
  <2>2. QED
    BY <1>3, <2>1 DEF Agree, IsShrunk
<1> HIDE DEF u
<1>5. CASE t = T(z)
  <2> DEFINE r == Last(z.C)
             w == On(z, u)
  <2>1. th = Th(z) /\ th.status = "OK" /\ Placed(r, th) /\ r.at \in Nat /\ r.at >= 1 /\ r.at <= Len(th.ci)
        /\ Len(th.ci) \in Nat /\ r.a = "exec"
    <3>1. Th(z) = z.L[T(z)] /\ Th(z).status = "OK" /\ Placed(r, Th(z)) /\ r \in Record
      BY <1>1, ZIs
    <3>2. QED
      BY <1>2, <1>5, <3>1, RecordIs, ThreadIs DEF Placed
  <2> HIDE DEF th, r
  <2>2. Adjusted(u, th, r)
    BY <1>3, <1>4, <2>1 DEF Adjusted, IsShrunk, Below
  <2>3. GoodZ(w) /\ Th(w) = u /\ w.C = z.C /\ w.err = z.err /\ T(w) = T(z) /\ Last(w.C) = Last(z.C)
    BY <1>1, <2>1, <2>2, AdjustedGood DEF r
  <2> HIDE DEF w
  <2>4. AtRest(r, u)
    <3>1. InExec(r, Len(th.ci), th)
      BY <1>1, <2>1 DEF AtRest, r
    <3>2. InExec(r, Len(u.ci), u)
      BY <1>3, <3>1 DEF InExec, IsShrunk
    <3>3. QED
      BY <2>1, <3>2 DEF AtRest
  <2>5. RestZ(w)
    BY <1>1, <2>3, <2>4 DEF RestZ, r
  <2>6. QED
    BY <1>5, <2>5 DEF w, On, ZT, u, th
<1>6. CASE t # T(z)
  <2>1. Same(u, th)
    <3> HIDE DEF th
    <3>1. QED
      BY <1>3, <1>4 DEF Same, IsShrunk
  <2>2. ~InUse(z.C, t) => Rested(u)
    <3> SUFFICES ASSUME ~InUse(z.C, t) PROVE Rested(u)
      OBVIOUS
    <3>1. Rested(th)
      BY <1>1, RestedIs DEF GoodZ
    <3> HIDE DEF th
    <3>2. QED
      BY <1>3, <3>1 DEF Rested, Asleep, IsShrunk, Ci
  <2>3. MayBe(u, z, t)
    BY <1>3, <2>1, <2>2 DEF MayBe, IsShrunk
  <2>4. RestZ(ZT(z, t, u))
    BY <1>6, <2>3, OtherRest
  <2>5. QED
    BY <2>4 DEF u
<1>7. QED
  BY <1>5, <1>6
-----------------------------------------------------------------------------
(* The steps.                                                              *)

Fit(M, D) == Good(M, D) /\ AtRest(Last(D), M[Last(D).t])
LEMMA RestFits ==
  ASSUME NEW z, RestZ(z)
  PROVE  Fit(z.L, z.C)
BY DEF RestZ, GoodZ, Fit, Th, T
Settled(M, D, z) == M = raised(raised(z)).L /\ D = raised(raised(z)).C
LEMMA Stepped ==
  ASSUME NEW z, Outcome(z), NEW M, NEW D, Settled(M, D, z)
  PROVE  Fit(M, D)
<1> DEFINE y == raised(raised(z))
<1>1. RestZ(y)
  BY StepRest
<1>2. M = y.L /\ D = y.C
  BY DEF Settled
<1> HIDE DEF y
<1>3. QED
  BY <1>1, <1>2, RestFits
LEMMA RestOutcome == ASSUME NEW z, RestZ(z) PROVE Outcome(z)
BY DEF Outcome
LEMMA ZRest ==
  ASSUME CallsInv
  PROVE  RestZ(Z) /\ Z.L = L /\ Z.C = C /\ Th(Z) = th0 /\ T(Z) = Last(C).t
<1>1. IsZ(Z) /\ Z.L = L /\ Z.C = C /\ Z.err = "none"
  BY DEF IsZ, Z
<1>2. T(Z) = Last(C).t /\ Th(Z) = th0
  BY <1>1 DEF T, Th, th0
<1>3. QED
  BY <1>1, <1>2 DEF CallsInv, RestZ, GoodZ, th0
LEMMA ToInv == Fit(L', C') => CallsInv'
BY DEF Fit, CallsInv
LEMMA SettledStep ==
  ASSUME NEW STATE z, Step(z)
  PROVE  Settled(L', C', z)
BY DEF Step, Settled
LEMMA StartsInC ==
  ASSUME CallsInv, NEW f, InC(f)
  PROVE  Starts(Z) /\ gettop(th0) \in Nat
<1>1. Starts(Z)
  BY ZRest DEF Starts, InC
<1>2. Ci(Th(Z)).func <= Len(Th(Z).stack) /\ Len(Th(Z).stack) \in Nat /\ Ci(Th(Z)).func \in Nat
  BY <1>1, StartsIs
<1>3. gettop(Th(Z)) \in Nat
  BY <1>2 DEF gettop
<1>4. QED
  BY <1>1, <1>3, ZRest
LEMMA DocallStep == CallsInv /\ Docall => CallsInv'
<1> SUFFICES ASSUME CallsInv, Docall PROVE CallsInv'
  OBVIOUS
<1> DEFINE y == luaD_pcall(Z, [th0 EXCEPT !.stack = <<"nil", "msgh", "f">>], 3, 2, 0)
<1>1. Outcome(luaD_pcall(Z, [Th(Z) EXCEPT !.stack = <<"nil", "msgh", "f">>], 3, 2, 0))
  BY ZRest, DocallStarts DEF Docall
<1>2. Outcome(y)
  BY <1>1, ZRest
<1>3. Settled(L', C', y)
  BY SettledStep DEF Docall
<1> HIDE DEF y
<1>4. QED
  BY <1>2, <1>3, Stepped, ToInv
LEMMA DocallEndsStep == CallsInv /\ DocallEnds => CallsInv'
<1> SUFFICES ASSUME CallsInv, DocallEnds PROVE CallsInv'
  OBVIOUS
<1> DEFINE y == [On(Z, [th0 EXCEPT !.stack = <<"nil">>])
                   EXCEPT !.C = <<[a |-> "docall", t |-> "main", at |-> 1, back |-> FALSE, status |-> "OK"]>>]
           x == [On(Z, [Th(Z) EXCEPT !.stack = <<"nil">>])
                   EXCEPT !.C = <<[a |-> "docall", t |-> "main", at |-> 1, back |-> FALSE, status |-> "OK"]>>]
<1>1. RestZ(x)
  BY ZRest, DocallAgain DEF DocallEnds
<1>2. x = y
  BY ZRest
<1>3. Settled(L', C', y)
  BY SettledStep DEF DocallEnds
<1> HIDE DEF x, y
<1>4. QED
  BY <1>1, <1>2, <1>3, RestOutcome, Stepped, ToInv
LEMMA OpCallStep == CallsInv /\ OpCall => CallsInv'
<1> SUFFICES ASSUME CallsInv, OpCall PROVE CallsInv'
  OBVIOUS
<1>1. PICK form \in Forms[Last(C).t] :
        Step(luaD_precall(On(Z, [Doing("CALL") EXCEPT !.stack = SubSeq(@, 1, func0) \o form]), func0 + 1, 2, FALSE))
  BY DEF OpCall
<1> DEFINE y == luaD_precall(On(Z, [Doing("CALL") EXCEPT !.stack = SubSeq(@, 1, func0) \o form]), func0 + 1, 2, FALSE)
           x == luaD_precall(On(Z, [Doing_(Th(Z), "CALL") EXCEPT !.stack = SubSeq(@, 1, Ci(Th(Z)).func) \o form]),
                             Ci(Th(Z)).func + 1, 2, FALSE)
<1>2. RestZ(Z) /\ Last(Z.C).a = "exec" /\ Th(Z) = th0
  BY ZRest DEF OpCall, InLua
<1>3. SeqIs(form) /\ Len(form) >= 1 /\ Len(form) <= FrameSize
  <2>1. Last(C).t \in Threads
    BY <1>2, ZRest, ZIs DEF RestZ
  <2>2. form \in Seq(STRING) /\ Len(form) \in 1..FrameSize
    BY <2>1, CallsAssumption
  <2>3. QED
    BY <2>2, Sizes DEF SeqIs
<1>4. Outcome(x)
  BY <1>2, <1>3, OpCallStarts
<1>5. x = y
  BY <1>2 DEF Doing, Doing_, func0
<1>6. Settled(L', C', y)
  BY <1>1, SettledStep
<1> HIDE DEF x, y
<1>7. QED
  BY <1>4, <1>5, <1>6, Stepped, ToInv
LEMMA OpAddStep == CallsInv /\ OpAdd => CallsInv'
<1> SUFFICES ASSUME CallsInv, OpAdd PROVE CallsInv'
  OBVIOUS
<1> DEFINE y == luaD_call(On(Z, [Doing("ADD") EXCEPT
                                   !.stack = SubSeq(@, 1, func0) \o Nils(FrameSize) \o <<"f", "x", "x">>]),
                          Rec("tm", Z, FALSE), func0 + FrameSize + 1, 1)
           x == luaD_call(On(Z, [Doing_(Th(Z), "ADD") EXCEPT
                                   !.stack = SubSeq(@, 1, Ci(Th(Z)).func) \o Nils(FrameSize) \o <<"f", "x", "x">>]),
                          Rec("tm", Z, FALSE), Ci(Th(Z)).func + FrameSize + 1, 1)
<1>1. RestZ(Z) /\ Last(Z.C).a = "exec" /\ Th(Z) = th0
  BY ZRest DEF OpAdd, InLua
<1>2. Outcome(x)
  BY <1>1, OpAddStarts
<1>3. x = y
  BY <1>1 DEF Doing, Doing_, func0
<1>4. Settled(L', C', y)
  BY SettledStep DEF OpAdd
<1> HIDE DEF x, y
<1>5. QED
  BY <1>2, <1>3, <1>4, Stepped, ToInv
LEMMA OpReturnStep == CallsInv /\ OpReturn => CallsInv'
<1> SUFFICES ASSUME CallsInv, OpReturn PROVE CallsInv'
  OBVIOUS
<1> DEFINE v == th0.stack[func0 + 1]
           y == Continue(IF Ci(th0).fresh THEN Unstacked(On(Z, luaD_poscall(th0, <<v>>)))
                         ELSE On(Z, luaD_poscall(th0, <<v>>)))
           x == Continue(IF Ci(Th(Z)).fresh THEN Unstacked(On(Z, luaD_poscall(Th(Z), <<v>>)))
                         ELSE On(Z, luaD_poscall(Th(Z), <<v>>)))
<1>1. Settled(L', C', y)
  BY SettledStep DEF OpReturn
<1> HIDE DEF v
<1>2. RestZ(Z) /\ Last(Z.C).a = "exec" /\ Th(Z) = th0
  BY ZRest DEF OpReturn, InLua
<1>3. RestZ(x)
  BY <1>2, LuaReturnsRest
<1>4. x = y
  BY <1>2
<1> HIDE DEF x, y
<1>5. QED
  BY <1>1, <1>3, <1>4, RestOutcome, Stepped, ToInv
LEMMA CocreateStep == CallsInv /\ luaB_cocreate => CallsInv'
<1> SUFFICES ASSUME CallsInv, luaB_cocreate PROVE CallsInv'
  OBVIOUS
<1>1. PICK co \in Coroutines :
        /\ \/ errorstatus(L[co].status)
           \/ L[co].status = "OK" /\ Len(L[co].ci) = 1 /\ gettop(L[co]) = 0
        /\ L' = [L EXCEPT ![co] = NewThread(<<"f">>)]
  BY DEF luaB_cocreate
<1> DEFINE w == ZT(Z, co, NewThread(<<"f">>))
<1>2. RestZ(Z) /\ Last(Z.C).a = "exec" /\ Z.L = L /\ Z.C = C /\ C' = C
  BY ZRest DEF luaB_cocreate, InLua
<1>3. RestZ(w)
  BY <1>1, <1>2, CocreateRest
<1>4. w.L = L' /\ w.C = C'
  <2>1. IsZ(Z)
    BY <1>2 DEF RestZ, GoodZ
  <2>2. w.L = [Z.L EXCEPT ![co] = NewThread(<<"f">>)] /\ w.C = Z.C
    BY <2>1, ThreadSet
  <2>3. QED
    BY <1>1, <1>2, <2>2
<1> HIDE DEF w
<1>5. Fit(w.L, w.C)
  BY <1>3, RestFits
<1>6. QED
  BY <1>4, <1>5, ToInv
LEMMA TraverseStep == CallsInv /\ traversethread => CallsInv'
<1> SUFFICES ASSUME CallsInv, traversethread PROVE CallsInv'
  OBVIOUS
<1>1. PICK t \in DOMAIN L : L[t].big /\ L' = [L EXCEPT ![t] = luaD_shrinkstack(@)]
  BY DEF traversethread
<1> DEFINE w == ZT(Z, t, luaD_shrinkstack(Z.L[t]))
<1>2. RestZ(Z) /\ Last(Z.C).a = "exec" /\ Z.L = L /\ Z.C = C /\ C' = C
  BY ZRest DEF traversethread, InLua
<1>3. t \in Threads
  BY <1>1 DEF CallsInv, Good, Typed
<1>4. RestZ(w)
  BY <1>2, <1>3, TraverseRest
<1>5. w.L = L' /\ w.C = C'
  <2>1. IsZ(Z)
    BY <1>2 DEF RestZ, GoodZ
  <2>2. w.L = [Z.L EXCEPT ![t] = luaD_shrinkstack(Z.L[t])] /\ w.C = Z.C
    BY <2>1, ThreadSet
  <2>3. QED
    BY <1>1, <1>2, <2>2
<1> HIDE DEF w
<1>6. Fit(w.L, w.C)
  BY <1>4, RestFits
<1>7. QED
  BY <1>5, <1>6, ToInv
LEMMA PcallStep == CallsInv /\ luaB_pcall => CallsInv'
<1> SUFFICES ASSUME CallsInv, luaB_pcall PROVE CallsInv'
  OBVIOUS
<1> DEFINE y == lua_pcallk(Z, [th0 EXCEPT !.stack = InsertAt(@, func0 + 1, "true")], func0 + 2, 0, "pcall")
           x == lua_pcallk(Z, [Th(Z) EXCEPT !.stack = InsertAt(@, Ci(Th(Z)).func + 1, "true")],
                           Ci(Th(Z)).func + 2, 0, "pcall")
<1>1. Starts(Z) /\ Th(Z) = th0
  BY ZRest, StartsInC DEF luaB_pcall
<1>2. Outcome(x)
  BY <1>1, PcallStarts DEF luaB_pcall
<1>3. x = y
  BY <1>1 DEF func0
<1>4. Settled(L', C', y)
  BY SettledStep DEF luaB_pcall
<1> HIDE DEF x, y
<1>5. QED
  BY <1>2, <1>3, <1>4, Stepped, ToInv
LEMMA XpcallStep == CallsInv /\ luaB_xpcall => CallsInv'
<1> SUFFICES ASSUME CallsInv, luaB_xpcall PROVE CallsInv'
  OBVIOUS
<1> DEFINE h == th0.stack[func0 + 1]
           y == lua_pcallk(Z, [th0 EXCEPT !.stack = InsertAt(InsertAt(@, func0 + 3, "true"), func0 + 4, h)],
                           func0 + 4, func0 + 2, "xpcall")
           x == lua_pcallk(Z, [Th(Z) EXCEPT !.stack = InsertAt(InsertAt(@, Ci(Th(Z)).func + 3, "true"),
                                                               Ci(Th(Z)).func + 4, h)],
                           Ci(Th(Z)).func + 4, Ci(Th(Z)).func + 2, "xpcall")
<1>1. Settled(L', C', y)
  BY SettledStep DEF luaB_xpcall
<1> HIDE DEF h
<1>2. Starts(Z) /\ Th(Z) = th0 /\ gettop(Th(Z)) > 1
  BY ZRest, StartsInC DEF luaB_xpcall
<1>3. Outcome(x)
  BY <1>2, XpcallStarts
<1>4. x = y
  BY <1>2 DEF func0
<1> HIDE DEF x, y
<1>5. QED
  BY <1>1, <1>3, <1>4, Stepped, ToInv
\* A C function returns.
LEMMA ReturnStep ==
  ASSUME CallsInv, Last(C).a = "C", NEW STATE vals, ValuesFit(vals, th0), Step(CReturns(Z, vals))
  PROVE  CallsInv'
<1> DEFINE y == CReturns(Z, vals)
<1>1. RestZ(Z) /\ Last(Z.C).a = "C" /\ Th(Z) = th0
  BY ZRest
<1>2. RestZ(y)
  <2>1. ValuesFit(vals, Th(Z))
    BY <1>1
  <2>2. QED
    BY <1>1, <2>1, CReturnsRest
<1>3. Settled(L', C', y)
  BY SettledStep
<1> HIDE DEF y
<1>4. QED
  BY <1>2, <1>3, RestOutcome, Stepped, ToInv
LEMMA HeldInC == CallsInv /\ Last(C).a = "C" => Held(th0)
BY ZRest, RestHeld
LEMMA PcallReturnsStep == CallsInv /\ pcallReturns => CallsInv'
<1> SUFFICES ASSUME CallsInv, pcallReturns PROVE CallsInv'
  OBVIOUS
<1>1. Last(C).a = "C" /\ Held(th0)
  BY HeldInC DEF pcallReturns, ToC
<1>2. CASE Step(CReturns(Z, finishpcall(th0, Last(C).status, 0)))
  <2>1. ValuesFit(finishpcall(th0, Last(C).status, 0), th0)
    BY <1>1, PcallFits
  <2>2. QED
    BY <1>1, <1>2, <2>1, ReturnStep
<1>3. CASE Step(CReturns(Z, finishpcall(th0, Last(C).status, 2)))
  <2>1. ValuesFit(finishpcall(th0, Last(C).status, 2), th0)
    BY <1>1, PcallFits
  <2>2. QED
    BY <1>1, <1>3, <2>1, ReturnStep
<1>4. QED
  BY <1>2, <1>3 DEF pcallReturns
LEMMA DofileStep == CallsInv /\ luaB_dofile => CallsInv'
<1> SUFFICES ASSUME CallsInv, luaB_dofile PROVE CallsInv'
  OBVIOUS
<1> DEFINE y == lua_callk(On(Z, Push(settop1(th0), "f")), func0 + 2, -1, "dofile")
           x == lua_callk(On(Z, Push(settop1(Th(Z)), "f")), Ci(Th(Z)).func + 2, -1, "dofile")
<1>1. Starts(Z) /\ Th(Z) = th0
  BY ZRest, StartsInC DEF luaB_dofile
<1>2. Outcome(x)
  BY <1>1, DofileStarts
<1>3. x = y
  BY <1>1 DEF func0
<1>4. Settled(L', C', y)
  BY SettledStep DEF luaB_dofile
<1> HIDE DEF x, y
<1>5. QED
  BY <1>2, <1>3, <1>4, Stepped, ToInv
LEMMA DofileReturnsStep == CallsInv /\ dofileReturns => CallsInv'
<1> SUFFICES ASSUME CallsInv, dofileReturns PROVE CallsInv'
  OBVIOUS
<1>1. Last(C).a = "C" /\ Held(th0)
  BY HeldInC DEF dofileReturns, ToC
<1>2. ValuesFit(dofilecont(th0), th0)
  BY <1>1, FromFits DEF dofilecont
<1>3. QED
  BY <1>1, <1>2, ReturnStep DEF dofileReturns
LEMMA ApplyStep == CallsInv /\ apply => CallsInv'
<1> SUFFICES ASSUME CallsInv, apply PROVE CallsInv'
  OBVIOUS
<1> DEFINE y == lua_callk(Z, func0 + 1, 1, "none")
<1>1. Starts(Z) /\ Th(Z) = th0 /\ gettop(Th(Z)) > 0
  BY ZRest, StartsInC DEF apply
<1>2. Outcome(lua_callk(Z, Ci(Th(Z)).func + 1, 1, "none"))
  BY <1>1, ApplyStarts
<1>3. Outcome(y)
  BY <1>1, <1>2 DEF func0
<1>4. Settled(L', C', y)
  BY SettledStep DEF apply
<1> HIDE DEF y
<1>5. QED
  BY <1>3, <1>4, Stepped, ToInv
LEMMA ApplyReturnsStep == CallsInv /\ applyReturns => CallsInv'
<1> SUFFICES ASSUME CallsInv, applyReturns PROVE CallsInv'
  OBVIOUS
<1>1. Last(C).a = "C" /\ Held(th0)
  BY HeldInC DEF applyReturns, ToC
<1>2. ValuesFit(From(th0, 1), th0)
  BY <1>1, FromFits
<1>3. QED
  BY <1>1, <1>2, ReturnStep DEF applyReturns
LEMMA ErrorStep == CallsInv /\ luaB_error => CallsInv'
<1> SUFFICES ASSUME CallsInv, luaB_error PROVE CallsInv'
  OBVIOUS
<1> DEFINE y == luaG_errormsg(On(Z, settop1(th0)))
<1>1. Starts(Z) /\ Th(Z) = th0
  BY ZRest, StartsInC DEF luaB_error
<1>2. Outcome(luaG_errormsg(On(Z, settop1(Th(Z)))))
  BY <1>1, ErrorStarts
<1>3. Outcome(y)
  BY <1>1, <1>2
<1>4. Settled(L', C', y)
  BY SettledStep DEF luaB_error
<1> HIDE DEF y
<1>5. QED
  BY <1>3, <1>4, Stepped, ToInv
LEMMA MsghandlerStep == CallsInv /\ msghandler => CallsInv'
<1> SUFFICES ASSUME CallsInv, msghandler PROVE CallsInv'
  OBVIOUS
<1>1. Last(C).a = "C" /\ Held(th0)
  BY HeldInC DEF msghandler, InC
<1>2. ValuesFit(<<Last(th0.stack)>>, th0)
  BY <1>1, OneFits
<1>3. QED
  BY <1>1, <1>2, ReturnStep DEF msghandler
LEMMA YieldStep == CallsInv /\ luaB_yield => CallsInv'
<1> SUFFICES ASSUME CallsInv, luaB_yield PROVE CallsInv'
  OBVIOUS
<1> DEFINE y == lua_yieldk(Z, gettop(th0))
<1>1. Starts(Z) /\ Th(Z) = th0
  BY ZRest, StartsInC DEF luaB_yield
<1>2. Outcome(lua_yieldk(Z, gettop(Th(Z))))
  BY <1>1, YieldStarts
<1>3. Outcome(y)
  BY <1>1, <1>2
<1>4. Settled(L', C', y)
  BY SettledStep DEF luaB_yield
<1> HIDE DEF y
<1>5. QED
  BY <1>3, <1>4, Stepped, ToInv
\* auxresume.
LEMMA AuxresumeStep ==
  ASSUME CallsInv, NEW f, InC(f), NEW STATE co, co \in Coroutines, NEW STATE n, n \in Nat, n <= gettop(th0),
         Step(auxresume(Z, co, n))
  PROVE  CallsInv'
<1> DEFINE y == auxresume(Z, co, n)
<1>1. Starts(Z) /\ Th(Z) = th0
  BY ZRest, StartsInC
<1>2. n <= gettop(Th(Z))
  BY <1>1
<1>3. Outcome(y)
  BY <1>1, <1>2, AuxresumeOutcome
<1>4. Settled(L', C', y)
  BY SettledStep
<1> HIDE DEF y
<1>5. QED
  BY <1>3, <1>4, Stepped, ToInv
LEMMA CoresumeStep == CallsInv /\ luaB_coresume => CallsInv'
<1> SUFFICES ASSUME CallsInv, luaB_coresume PROVE CallsInv'
  OBVIOUS
<1> DEFINE f == "resume"
           co == th0.stack[func0 + 1]
           n == gettop(th0) - 1
<1>1. InC(f) /\ gettop(th0) > 0 /\ co \in Coroutines /\ Step(auxresume(Z, co, n))
  BY DEF luaB_coresume
<1> HIDE DEF f
<1>2. n \in Nat /\ n <= gettop(th0)
  <2>1. gettop(th0) \in Nat
    BY <1>1, StartsInC
  <2>2. QED
    BY <1>1, <2>1
<1> HIDE DEF co, n
<1>3. QED
  BY <1>1, <1>2, AuxresumeStep
LEMMA AuxwrapStep == CallsInv /\ luaB_auxwrap => CallsInv'
<1> SUFFICES ASSUME CallsInv, luaB_auxwrap PROVE CallsInv'
  OBVIOUS
<1>1. PICK w \in DOMAIN WrapOf : InC(w) /\ Step(auxresume(Z, WrapOf[w], gettop(th0)))
  BY DEF luaB_auxwrap
<1> DEFINE n == gettop(th0)
<1>2. WrapOf[w] \in Coroutines
  BY CallsAssumption
<1>3. n \in Nat /\ n <= gettop(th0)
  <2>1. gettop(th0) \in Nat
    BY <1>1, StartsInC
  <2>2. QED
    BY <2>1
<1>4. Step(auxresume(Z, WrapOf[w], n))
  BY <1>1
<1> HIDE DEF n
<1>5. QED
  BY <1>1, <1>2, <1>3, <1>4, AuxresumeStep
LEMMA CoresumeReturnsStep == CallsInv /\ coresumeReturns => CallsInv'
<1> SUFFICES ASSUME CallsInv, coresumeReturns PROVE CallsInv'
  OBVIOUS
<1> DEFINE f == "false"
           t == "true"
           a == <<f, Last(th0.stack)>>
           b == <<t>> \o From(th0, 2)
           v == IF errorstatus(Last(C).status) THEN a ELSE b
<1>1. Last(C).a = "C" /\ Held(th0) /\ Step(CReturns(Z, v))
  BY HeldInC DEF coresumeReturns, ToC
<1> HIDE DEF f, t
<1>2. ValuesFit(a, th0) /\ ValuesFit(b, th0)
  BY <1>1, PairFits, TruthFits
<1> HIDE DEF a, b
<1>3. ValuesFit(v, th0)
  BY <1>2
<1> HIDE DEF v
<1>4. QED
  BY <1>1, <1>3, ReturnStep
LEMMA AuxwrapReturnsStep == CallsInv /\ auxwrapReturns => CallsInv'
<1> SUFFICES ASSUME CallsInv, auxwrapReturns PROVE CallsInv'
  OBVIOUS
<1>1. PICK w \in DOMAIN WrapOf :
        ToC(w) /\ Step(IF errorstatus(Last(C).status) THEN luaG_errormsg(Z) ELSE CReturns(Z, From(th0, 1)))
  BY DEF auxwrapReturns
<1>2. Last(C).a = "C" /\ Last(C).back /\ Held(th0)
  BY <1>1, HeldInC DEF ToC
<1>3. CASE errorstatus(Last(C).status)
  <2> DEFINE y == luaG_errormsg(Z)
  <2>1. Step(y)
    BY <1>1, <1>3
  <2>2. Outcome(y)
    BY <1>2, <1>3, ZRest, PassesOn
  <2>3. Settled(L', C', y)
    BY <2>1, SettledStep
  <2> HIDE DEF y
  <2>4. QED
    BY <2>2, <2>3, Stepped, ToInv
<1>4. CASE ~errorstatus(Last(C).status)
  <2>1. ValuesFit(From(th0, 1), th0)
    BY <1>2, FromFits
  <2>2. Step(CReturns(Z, From(th0, 1)))
    BY <1>1, <1>4
  <2>3. QED
    BY <1>2, <2>1, <2>2, ReturnStep
<1>5. QED
  BY <1>3, <1>4
LEMMA UnrollStep == CallsInv /\ Unroll => CallsInv'
<1> SUFFICES ASSUME CallsInv, Unroll PROVE CallsInv'
  OBVIOUS
<1> DEFINE y == finishCcall(Z, Last(C).status)
<1>1. RestZ(Z) /\ Z.C = C /\ Last(Z.C).a = "unroll"
  BY ZRest DEF Unroll
<1>2. RestZ(finishCcall(Z, Last(Z.C).status))
  BY <1>1, FinishCcallRest
<1>3. RestZ(y)
  BY <1>1, <1>2
<1>4. Settled(L', C', y)
  BY SettledStep DEF Unroll
<1> HIDE DEF y
<1>5. QED
  BY <1>3, <1>4, RestOutcome, Stepped, ToInv
LEMMA StepInv == CallsInv /\ [Next]_vars => CallsInv'
<1>1. CallsInv /\ UNCHANGED vars => CallsInv'
  BY DEF vars, CallsInv
<1>2. CallsInv /\ Next => CallsInv'
  BY DocallStep, DocallEndsStep, OpCallStep, OpAddStep, OpReturnStep, CocreateStep, TraverseStep,
     PcallStep, XpcallStep, PcallReturnsStep, DofileStep, DofileReturnsStep, ApplyStep, ApplyReturnsStep,
     ErrorStep, MsghandlerStep, YieldStep, CoresumeStep, CoresumeReturnsStep, AuxwrapStep,
     AuxwrapReturnsStep, UnrollStep DEF Next
<1>3. QED
  BY <1>1, <1>2
LEMMA NothingCounted ==
  ASSUME NEW D, Len(D) = 1, D[1].a = "docall"
  PROVE  (\A t : Ny(D, t, 1) = 0) /\ Calling(D, 1) = 0
<1>1. \A t : {i \in 1..1 : D[i].t = t /\ IsNy(D[i])} = {}
  BY DEF IsNy, Callers
<1>2. {i \in 1..1 : D[i].a \in Callers \cup {"resume"}} = {}
  BY DEF Callers
<1>3. Cardinality({}) = 0
  BY FS_EmptySet
<1>4. QED
  BY <1>1, <1>2, <1>3 DEF Ny, Calling
LEMMA InitFits ==
  ASSUME NEW M, M = [t \in Threads |-> M[t]], NEW D, D \in Seq(Record), Len(D) = 1,
         D[1].a = "docall", D[1].t = "main", D[1].at = 1, ~D[1].back,
         \A t \in Threads : IsNewThread(M[t], 0) \/ IsNewThread(M[t], 1)
  PROVE  Fit(M, D)
<1>1. \A t \in Threads : /\ IsThread(M[t]) /\ Slots(M[t]) /\ Rested(M[t]) /\ Len(M[t].ci) = 1
                         /\ M[t].nCcalls = 0 /\ M[t].status = "OK"
  BY DEF IsNewThread
<1>2. "main" \in Threads
  BY DEF Threads
<1>3. Typed(M, D) /\ Fits(M)
  BY <1>1 DEF Typed, Fits
<1>4. Shape(D)
  BY DEF Shape, Base, Together, Apart, Order
<1>5. Links(M, D)
  BY DEF Links
<1>6. \A j \in 1..Len(D) : j = 1
  OBVIOUS
<1>7. Located(M, D)
  <2>1. Placed(D[1], M[D[1].t])
    BY <1>1, <1>2 DEF Placed, Free
  <2>2. Saved(D[1], D, 1 - 1)
    BY DEF Saved, Free
  <2>3. QED
    BY <1>6, <2>1, <2>2 DEF Located
<1>8. Continued(M, D)
  <2>1. \A t \in Threads : 2..Len(M[t].ci) = {}
    <3> TAKE t \in Threads
    <3>1. Len(M[t].ci) = 1
      BY <1>1
    <3>2. 2..1 = {}
      OBVIOUS
    <3>3. QED
      BY <3>1, <3>2
  <2>2. QED
    BY <2>1 DEF Continued
<1>9. \A t : InUse(D, t) <=> t = "main"
  BY DEF InUse
<1>10. Counts(M, D)
  <2>1. \A t \in Threads : M[t].nny = 1
    BY <1>1 DEF Rested
  <2>2. (\A t : Ny(D, t, Len(D)) = 0) /\ Calling(D, 1) = 0
    BY NothingCounted
  <2>3. \A t \in Threads : M[t].nny = Ny(D, t, Len(D)) + IF t = "main" \/ ~InUse(D, t) THEN 1 ELSE 0
    <3> TAKE t \in Threads
    <3>1. t = "main" \/ ~InUse(D, t)
      BY <1>9
    <3> DEFINE n == Ny(D, t, Len(D))
    <3>2. n = 0 /\ M[t].nny = 1
      BY <2>1, <2>2
    <3> HIDE DEF n
    <3>3. M[t].nny = n + IF t = "main" \/ ~InUse(D, t) THEN 1 ELSE 0
      BY <3>1, <3>2
    <3>4. QED
      BY <3>3 DEF n
  <2>4. M[D[1].t].nCcalls = Calling(D, 1)
    BY <1>1, <1>2, <2>2
  <2>5. QED
    BY <1>6, <2>3, <2>4 DEF Counts
<1>11. Idle(M, D)
  BY <1>1 DEF Idle, Rested
<1>12. Good(M, D)
  BY <1>3, <1>4, <1>5, <1>7, <1>8, <1>10, <1>11 DEF Good
<1>13. Last(D) = D[1]
  BY DEF Last
<1>14. AtRest(D[1], M["main"])
  BY <1>1, <1>2 DEF AtRest
<1>15. QED
  BY <1>12, <1>13, <1>14 DEF Fit
LEMMA InitInv == Init => CallsInv
<1> SUFFICES ASSUME Init PROVE CallsInv
  OBVIOUS
<1> DEFINE fn == "f"
           a == <<fn>>
           b == <<>>
           r == [a |-> "docall", t |-> "main", at |-> 1, back |-> FALSE, status |-> "OK"]
<1>1. L = [t \in Threads |-> NewThread(IF t = "main" THEN b ELSE a)] /\ C = <<r>>
  BY DEF Init
<1>2. r \in Record /\ r.a = "docall" /\ r.t = "main" /\ r.at = 1 /\ ~r.back
  BY DEF Record, Threads, Statuses, Places
<1> HIDE DEF r
<1>3. C \in Seq(Record) /\ Len(C) = 1 /\ C[1] = r
  BY <1>1, <1>2
<1>4. SeqIs(a) /\ Len(a) = 1
  <2> HIDE DEF fn
  <2>1. QED
    BY Fixed
<1>5. SeqIs(b) /\ Len(b) = 0
  <2>1. b \in Seq({}) /\ Len(b) = 0
    OBVIOUS
  <2>2. QED
    BY <2>1 DEF SeqIs
<1> HIDE DEF a, b
<1>6. IsNewThread(NewThread(a), 1) /\ IsNewThread(NewThread(b), 0)
  <2>1. SeqIs(a) /\ Len(a) <= 3 /\ SeqIs(b) /\ Len(b) <= 3
    BY <1>4, <1>5
  <2>2. IsNewThread(NewThread(a), Len(a)) /\ IsNewThread(NewThread(b), Len(b))
    BY <2>1, NewThreadIs
  <2>3. QED
    BY <1>4, <1>5, <2>2
<1>7. \A t \in Threads : L[t] = NewThread(b) \/ L[t] = NewThread(a)
  BY <1>1
<1>8. \A t \in Threads : IsNewThread(L[t], 0) \/ IsNewThread(L[t], 1)
  BY <1>6, <1>7
<1>9. L = [t \in Threads |-> L[t]]
  BY <1>1
<1>10. Fit(L, C)
  BY <1>2, <1>3, <1>8, <1>9, InitFits
<1>11. QED
  BY <1>10 DEF Fit, CallsInv

\* Threads, their frames and the C stack stay in step: every call that waits in the C
\* stack has its CallInfo, every thread its frames one above the other, and the counters
\* are those of the calls that wait, whatever longjmp or yield has left (ldo.c).
THEOREM CallsInvariant == Spec => []CallsInv
<1>1. QED
  BY InitInv, StepInv, PTL DEF Spec

-----------------------------------------------------------------------------
(* The slots.                                                              *)

LEMMA SlotsFit == CallsInv => StackFits
<1> SUFFICES ASSUME CallsInv PROVE StackFits
  OBVIOUS
<1>1. DOMAIN L = Threads /\ \A t \in Threads : IsThread(L[t]) /\ Slots(L[t])
  BY DEF CallsInv, Good, Typed, Fits
<1>2. ASSUME NEW t \in DOMAIN L
      PROVE  LET size == LUAI_MAXSTACK + IF L[t].big THEN ErrorSpace ELSE 0
             IN /\ Len(L[t].stack) <= size
                /\ ~errorstatus(L[t].status) => \A i \in DOMAIN L[t].ci : L[t].ci[i].top <= size - EXTRA_STACK
  <2> DEFINE th == L[t]
             x == IF th.big THEN ErrorSpace ELSE 0
             size == LUAI_MAXSTACK + x
  <2>1. IsThread(th) /\ Slots(th)
    BY <1>1
  <2>2. lim(th) = size - EXTRA_STACK
    <3> HIDE DEF th
    <3>1. th.big \in BOOLEAN
      BY <2>1, ThreadIs
    <3>2. QED
      BY <3>1, Sizes DEF lim
  <2>3. x \in Nat
    BY Sizes
  <2> HIDE DEF x
  <2>4. size \in Nat /\ lim(th) + 3 <= size
    BY <2>2, <2>3, Sizes
  <2>5. DOMAIN th.ci = 1..Len(th.ci) /\ Len(th.stack) \in Nat
    BY <2>1, ThreadIs
  <2> HIDE DEF th
  <2>6. Len(th.stack) <= lim(th) + 3
    BY <2>1 DEF Slots
  <2>7. Len(th.stack) <= size
    <3>1. lim(th) \in Nat
      BY <2>1, LimIs
    <3> HIDE DEF size
    <3>2. QED
      BY <2>4, <2>5, <2>6, <3>1
  <2>8. ~errorstatus(th.status) => \A i \in 1..Len(th.ci) : th.ci[i].top <= lim(th)
    BY <2>1 DEF Slots
  <2>9. ~errorstatus(th.status) => \A i \in DOMAIN th.ci : th.ci[i].top <= size - EXTRA_STACK
    BY <2>2, <2>5, <2>8
  <2>10. QED
    BY <2>7, <2>9 DEF size, x, th
<1>3. ASSUME Last(C).a = "C" PROVE Len(th0.stack) <= Ci(th0).top
  <2> DEFINE th == th0
             x == IF Last(C).back THEN 0 ELSE LUA_MINSTACK
             n == Len(th.stack)
             m == Ci(th).top
  <2>1. n + x <= m
    BY <1>3 DEF CallsInv, AtRest, th0
  <2>2. Held(th)
    BY <1>3, HeldInC
  <2>3. x \in Nat /\ n \in Nat /\ m \in Nat
    BY <2>2, Sizes, TopFrame DEF Held
  <2> HIDE DEF n, x, m
  <2>4. n <= m
    BY <2>1, <2>3
  <2>5. QED
    BY <2>4 DEF n, m
<1>4. ASSUME Last(C).a = "unroll", errorstatus(Last(C).status) PROVE Len(th0.stack) <= Ci(th0).top
  <2>1. Last(C).status # "YIELD"
    BY <1>4 DEF errorstatus
  <2>2. QED
    BY <1>4, <2>1 DEF CallsInv, AtRest, th0
<1>5. QED
  BY <1>2, <1>3, <1>4 DEF StackFits

\* No stack is written above its end, every frame leaves the last EXTRA_STACK slots free,
\* and a C function that is called, or continued after an error, has no more values than
\* its frame may hold (luaD_growstack, api_incr_top).
THEOREM StackIsLargeEnough == Spec => []StackFits
<1>1. QED
  BY CallsInvariant, SlotsFit, PTL
-----------------------------------------------------------------------------
(* The counters.                                                           *)

LEMMA ActiveIs ==
  ASSUME CallsInv, NEW t
  PROVE  Active(t) <=> InUse(C, t)
<1>1. DOMAIN C = 1..Len(C)
  BY DEF CallsInv, Good, Typed
<1>2. QED
  BY <1>1 DEF Active, InUse
\* The last record of a thread that is in use.
LEMMA LastOfIs ==
  ASSUME CallsInv, NEW t \in Threads, Active(t)
  PROVE  /\ LastOf(t) \in 1..Len(C) /\ C[LastOf(t)].t = t
         /\ (LastOf(t) = Len(C) \/ C[LastOf(t) + 1].a = "resume")
<1> DEFINE n == Len(C)
           S == {j \in DOMAIN C : C[j].t = t}
<1>1. n \in Nat /\ n >= 1 /\ DOMAIN C = 1..n /\ Shape(C) /\ InUse(C, t)
  <2>1. Good(L, C)
    BY DEF CallsInv
  <2>2. InUse(C, t)
    BY ActiveIs
  <2>3. C \in Seq(Record) /\ Len(C) \in Nat /\ Len(C) >= 1 /\ Shape(C)
    BY <2>1, GoodIs
  <2>4. QED
    BY <2>2, <2>3
<1>2. S \subseteq 1..n /\ S # {}
  BY <1>1 DEF InUse
<1>3. LastOf(t) = Max(S)
  BY DEF LastOf
<1> HIDE DEF S
<1>4. Max(S) \in S /\ \A x \in S : x <= Max(S)
  <2>1. S \in SUBSET (0..n)
    BY <1>1, <1>2
  <2> HIDE DEF n
  <2>2. QED
    BY <1>1, <1>2, <2>1, MaxIs
<1> DEFINE m == Max(S)
<1> HIDE DEF m
<1>5. m \in 1..n /\ C[m].t = t /\ \A x \in 1..n : C[x].t = t => x <= m
  BY <1>1, <1>2, <1>4 DEF m, S
<1>6. m = n \/ C[m + 1].a = "resume"
  <2>1. CASE C[n].t = t
    <3>1. n \in 1..n /\ n \in Nat
      BY <1>1
    <3> HIDE DEF n
    <3>2. n <= m /\ m \in 1..n
      BY <1>5, <2>1, <3>1
    <3>3. QED
      BY <3>1, <3>2
  <2>2. CASE C[n].t # t
    <3>1. PICK j \in 1..(Len(C) - 1) : /\ C[j].t = t /\ C[j + 1].a = "resume"
                                       /\ \A i \in (j + 1)..Len(C) : C[i].t # t
      <4>1. t # C[Len(C)].t
        BY <2>2
      <4> HIDE DEF n
      <4>2. C \in Seq(Record)
        BY DEF CallsInv, Good, Typed
      <4>3. QED
        BY <1>1, <4>1, <4>2, Resumed
    <3>0. j \in 1..n /\ C[j].t = t
      BY <1>1, <3>1
    <3>2. j <= m
      BY <1>5, <3>0
    <3>3. ~(m > j)
      <4>1. m > j => m \in (j + 1)..Len(C)
        <5> HIDE DEF n
        <5>1. j \in Int /\ m \in 1..n
          BY <1>1, <1>5, <3>0
        <5>2. QED
          BY <1>1, <5>1 DEF n
      <4>2. QED
        BY <1>5, <3>1, <4>1
    <3>4. m = j
      BY <1>1, <1>5, <3>2, <3>3
    <3>5. QED
      BY <3>1, <3>4
  <2>3. QED
    BY <2>1, <2>2
<1>7. QED
  BY <1>3, <1>5, <1>6 DEF m
LEMMA CallsCounted ==
  ASSUME CallsInv, NEW t \in Threads, Active(t)
  PROVE  L[t].nCcalls = Cardinality({j \in Indices({"call", "pcall", "ypcall", "tm", "errormsg", "resume"}) : j <= LastOf(t)})
<1> DEFINE m == LastOf(t)
           R == {"call", "pcall", "ypcall", "tm", "errormsg", "resume"}
<1>1. m \in 1..Len(C) /\ C[m].t = t /\ (m = Len(C) \/ C[m + 1].a = "resume")
  BY LastOfIs
<1>2. DOMAIN C = 1..Len(C) /\ Len(C) \in Nat
  BY DEF CallsInv, Good, Typed
<1>3. R = Callers \cup {"resume"}
  BY DEF Callers
<1> HIDE DEF m, R
<1>4. L[t].nCcalls = Calling(C, m)
  <2>1. Counts(L, C)
    BY DEF CallsInv, Good
  <2>2. QED
    BY <1>1, <2>1 DEF Counts
<1>5. {j \in Indices(R) : j <= m} = {i \in 1..m : C[i].a \in Callers \cup {"resume"}}
  <2>1. \A j : j \in Indices(R) /\ j <= m <=> j \in 1..m /\ C[j].a \in R
    <3> DEFINE n == Len(C)
    <3>1. \A j : j \in Indices(R) <=> j \in 1..n /\ C[j].a \in R
      BY <1>2 DEF Indices
    <3>2. m \in 1..n /\ n \in Nat
      BY <1>1, <1>2
    <3> HIDE DEF n
    <3>3. \A j : j \in 1..n /\ j <= m <=> j \in 1..m
      BY <3>2
    <3>4. QED
      BY <3>1, <3>3
  <2>2. QED
    BY <1>3, <2>1
<1>6. Cardinality({j \in Indices(R) : j <= m}) = Calling(C, m)
  BY <1>5 DEF Calling
<1>7. QED
  BY <1>4, <1>6 DEF R, m
LEMMA NnyCounted ==
  ASSUME CallsInv, NEW t \in Threads
  PROVE  L[t].nny = Cardinality(NotYieldable(t)) + IF t = "main" \/ ~Active(t) THEN 1 ELSE 0
<1> DEFINE R == {"call", "pcall", "tm", "errormsg"}
           n == Len(C)
<1>1. DOMAIN C = 1..n /\ Counts(L, C)
  BY DEF CallsInv, Good, Typed
<1>2. ASSUME NEW j \in 1..n
      PROVE  C[j].a \in R /\ C[j].ny <=> IsNy(C[j])
  <2>1. Placed(C[j], L[C[j].t])
    BY DEF CallsInv, Good, Located
  <2>2. C[j].a = "ypcall" => ~C[j].ny
    BY <2>1 DEF Placed
  <2>3. QED
    BY <2>2 DEF IsNy, Callers
<1>3. NotYieldable(t) = {i \in 1..n : C[i].t = t /\ IsNy(C[i])}
  <2>1. NotYieldable(t) = {j \in Indices(R) : C[j].t = t /\ C[j].ny}
    BY DEF NotYieldable
  <2> HIDE DEF R, n
  <2>2. \A j : j \in Indices(R) <=> j \in 1..n /\ C[j].a \in R
    BY <1>1 DEF Indices
  <2>3. QED
    BY <1>2, <2>1, <2>2
<1>4. Cardinality(NotYieldable(t)) = Ny(C, t, n)
  BY <1>3 DEF Ny
<1>5. L[t].nny = Ny(C, t, n) + IF t = "main" \/ ~InUse(C, t) THEN 1 ELSE 0
  BY <1>1 DEF Counts
<1>6. Active(t) <=> InUse(C, t)
  BY ActiveIs
<1> HIDE DEF n
<1>7. QED
  BY <1>4, <1>5, <1>6
LEMMA JumpsToSelf ==
  ASSUME CallsInv, Indices({"pcall", "resume"}) # {}
  PROVE  C[Max(Indices({"pcall", "resume"}))].t = Last(C).t
<1>1. Good(L, C)
  BY DEF CallsInv
<1>2. C \in Seq(Record) /\ Len(C) \in Nat /\ Len(C) >= 1 /\ Shape(C) /\ C[1].a = "docall" /\ DOMAIN C = 1..Len(C)
      /\ Last(C) = C[Len(C)]
  BY <1>1, GoodIs DEF Last
<1>3. Len(C) >= 2
  <2>1. PICK j \in DOMAIN C : C[j].a \in {"pcall", "resume"}
    BY DEF Indices
  <2>2. j # 1 /\ j \in Nat /\ j >= 1 /\ j <= Len(C)
    BY <1>2, <2>1
  <2>3. QED
    BY <1>2, <2>2
<1>4. C[Max({i \in DOMAIN C : C[i].a \in {"pcall", "resume"}})].t = C[Len(C)].t
  BY <1>2, <1>3, Catcher
<1>5. QED
  BY <1>2, <1>4 DEF Indices
LEMMA ContinuesRight ==
  ASSUME CallsInv, Last(C).a = "unroll"
  PROVE  /\ th0.nny = 0 /\ Ci(th0).k # "none"
         /\ Ci(th0).yp \/ Last(C).status = "YIELD"
<1> DEFINE n == Len(C)
           t == C[n].t
<1>1. Good(L, C) /\ AtRest(Last(C), th0)
  BY DEF CallsInv, th0
<1>2. C \in Seq(Record) /\ n \in Nat /\ n >= 1 /\ Shape(C) /\ C[1].a = "docall" /\ C[1].t = "main"
      /\ Last(C) = C[n] /\ th0 = L[t] /\ C[n] \in Record /\ t \in Threads
  BY <1>1, GoodIs DEF Last, th0
<1>3. Ci(th0).k \in Ks /\ (Ci(th0).yp \/ Last(C).status = "YIELD")
  BY <1>1 DEF AtRest
<1>4. n >= 2
  <2>1. n # 1
    BY <1>2
  <2> HIDE DEF n
  <2>2. QED
    BY <1>2, <2>1
<1>5. C[n - 1].a = "resume"
  <2>1. n - 1 \in 1..(Len(C) - 1) /\ (n - 1) + 1 = n
    BY <1>2, <1>4
  <2>2. Linked(C[n - 1], C[(n - 1) + 1], L[C[n - 1].t])
    BY <1>1, <2>1 DEF Good, Links
  <2>3. Linked(C[n - 1], C[n], L[C[n - 1].t])
    BY <2>1, <2>2
  <2> HIDE DEF n
  <2>4. QED
    BY <1>2, <2>3 DEF Linked
<1>6. \A i \in 1..(n - 2) : C[i].t # t
  <2> TAKE i \in 1..(n - 2)
  <2>1. i \in 1..Len(C) /\ n - 1 \in 1..Len(C) /\ n \in 1..Len(C) /\ i < n - 1 /\ n - 1 <= n
    BY <1>2, <1>4
  <2>2. Apart(C)
    BY <1>2 DEF Shape
  <2>3. QED
    BY <1>5, <2>1, <2>2 DEF Apart
<1>7. t # "main"
  <2>1. n # 2
    <3>1. Base(C)
      BY <1>2 DEF Shape
    <3>2. n = 2 => C[2].a = "pcall"
      BY <1>4, <3>1 DEF Base
    <3>3. QED
      BY <1>2, <3>2
  <2>2. n \in Nat /\ n >= 2
    BY <1>2, <1>4
  <2>3. C[1].t = "main"
    BY <1>2
  <2> HIDE DEF n, t
  <2>4. 1 \in 1..(n - 2)
    BY <2>1, <2>2
  <2>5. QED
    BY <1>6, <2>3, <2>4
<1>8. \A i \in 1..n : C[i].t = t => ~IsNy(C[i])
  <2>1. \A i \in 1..n : i \in 1..(n - 2) \/ i = n - 1 \/ i = n
    BY <1>2
  <2> HIDE DEF n
  <2>2. QED
    BY <1>2, <1>5, <1>6, <2>1 DEF IsNy, Callers
<1>9. Ny(C, t, n) = 0
  <2> HIDE DEF n, t
  <2>1. QED
    BY <1>2, <1>8, NyZero
<1>10. InUse(C, t)
  BY <1>2 DEF InUse
<1>11. L[t].nny = 0
  <2>1. L[t].nny = Ny(C, t, n) + IF t = "main" \/ ~InUse(C, t) THEN 1 ELSE 0
    BY <1>1, <1>2 DEF Good, Counts
  <2> HIDE DEF n, t
  <2>2. QED
    BY <1>7, <1>9, <1>10, <2>1
<1>12. QED
  BY <1>2, <1>3, <1>11 DEF Ks
LEMMA BookkeepingFits == CallsInv => BookkeepingRight
<1> SUFFICES ASSUME CallsInv PROVE BookkeepingRight
  OBVIOUS
<1>1. DOMAIN L = Threads
  BY DEF CallsInv, Good, Typed
<1>2. QED
  BY <1>1, CallsCounted, NnyCounted, JumpsToSelf, ContinuesRight DEF BookkeepingRight

\* nCcalls and nny agree with the calls that are active, a longjmp ends in the thread that
\* runs, and only a function with a continuation is continued, after an error only a
\* protected call (luaD_call, luaD_callnoyield, recover, finishCcall).
THEOREM BookkeepingIsRight == Spec => []BookkeepingRight
<1>1. QED
  BY CallsInvariant, BookkeepingFits, PTL
=============================================================================
