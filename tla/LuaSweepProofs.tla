--------------------------- MODULE LuaSweepProofs ---------------------------
(***************************************************************************)
(* Theorems about LuaSweep, for any number of objects.  Lists are taken as *)
(* a pair: nx, what each link points to, and aft, the objects after each   *)
(* link.  Ordered says that the two agree and that there are no cycles and *)
(* no shared tails; what the collector does to lists keeps it.             *)
(***************************************************************************)
EXTENDS LuaSweep, FiniteSetTheorems, TLAPS

\* What holds of 0 and of the next number with each number holds up to N.
LEMMA Upto ==
  ASSUME NEW N \in Nat, NEW S, 0 \in S, \A k \in 0..(N - 1) : k \in S => k + 1 \in S
  PROVE  \A k \in 0..N : k \in S
<1> DEFINE D == {i \in 0..N : \A j \in 0..i : j \in S}
           c == Cardinality(D)
<1>1. ASSUME NEW i \in 0..(N + 1) PROVE Cardinality(0..(i - 1)) = i /\ IsFiniteSet(0..(i - 1))
  BY FS_Interval
<1>2. IsFiniteSet(D) /\ c \in Nat /\ c <= N + 1
  <2>1. D \in SUBSET (0..N) /\ N + 1 \in 0..(N + 1) /\ 0..N = 0..((N + 1) - 1)
    OBVIOUS
  <2>2. IsFiniteSet(0..N) /\ Cardinality(0..N) = N + 1
    BY <1>1, <2>1
  <2>3. IsFiniteSet(D) /\ c <= Cardinality(0..N)
    BY <2>1, <2>2, FS_Subset
  <2>4. QED
    BY <2>2, <2>3, FS_CardinalityType
<1>3. ASSUME NEW i \in D PROVE i + 1 <= c
  <2>1. 0..i \in SUBSET D /\ i + 1 \in 0..(N + 1) /\ 0..i = 0..((i + 1) - 1)
    OBVIOUS
  <2>2. Cardinality(0..i) = i + 1 /\ Cardinality(0..i) <= c
    BY <1>1, <1>2, <2>1, FS_Subset
  <2>3. QED
    BY <2>2
<1>4. ASSUME NEW i \in 0..N, i \notin D PROVE c <= i
  <2>1. D \in SUBSET (0..(i - 1)) /\ i \in 0..(N + 1)
    BY <1>4
  <2>2. Cardinality(0..(i - 1)) = i /\ c <= Cardinality(0..(i - 1))
    BY <1>1, <2>1, FS_Subset
  <2>3. QED
    BY <2>2
<1>5. 0 \in D
  OBVIOUS
<1> HIDE DEF c
<1>6. ASSUME c <= N PROVE FALSE
  <2>1. c \in 0..N /\ c - 1 \in 0..(N - 1)
    BY <1>2, <1>3, <1>5, <1>6
  <2>2. c - 1 \in D /\ c \notin D
    BY <1>2, <1>3, <1>4, <2>1
  <2>3. \A j \in 0..(c - 1) : j \in S
    BY <2>1, <2>2
  <2>4. c \in S
    BY <2>1, <2>3
  <2>5. QED
    BY <2>1, <2>2, <2>3, <2>4
<1>7. N \in D
  BY <1>2, <1>4, <1>6
<1>8. QED
  BY <1>7

\* A bounded set of numbers has a least one.
LEMMA Least ==
  ASSUME NEW N \in Nat, NEW T, NEW n \in T, n \in 0..N
  PROVE  \E x \in T : x \in 0..N /\ \A y \in 0..(x - 1) : y \notin T
<1> DEFINE S == {i \in 0..N : \A y \in 0..i : y \notin T}
<1>1. SUFFICES ASSUME \A x \in T : x \in 0..N => \E y \in 0..(x - 1) : y \in T PROVE FALSE
  OBVIOUS
<1>2. 0 \in S
  BY <1>1
<1>3. ASSUME NEW k \in 0..(N - 1), k \in S PROVE k + 1 \in S
  BY <1>1, <1>3
<1> HIDE DEF S
<1>4. n \in S
  BY <1>2, <1>3, Upto
<1>5. QED
  BY <1>4 DEF S

\* The k-th object after link p, as the specification's After(p), for any nx.
Nth(nx, p) ==
  LET nth[k \in 0..Cardinality(Objs)] ==
        IF k = 0 THEN nx[p]
        ELSE IF nth[k - 1] = Null THEN Null ELSE nx[nth[k - 1]]
  IN nth

\* One step along the links.
Step(nx, p, f, k) == IF k = 0 THEN nx[p] ELSE IF f[k - 1] = Null THEN Null ELSE nx[f[k - 1]]

\* There are finitely many objects.
LEMMA CountType == Cardinality(Objs) \in Nat
BY ObjsAssumption, FS_CardinalityType

\* The recursive function Nth is what its definition says.
LEMMA NthIs ==
  ASSUME NEW nx, NEW p
  PROVE  Nth(nx, p) = [k \in 0..Cardinality(Objs) |-> Step(nx, p, Nth(nx, p), k)]
<1> DEFINE N == Cardinality(Objs)
           S == {n \in 0..N : \E f : f = [k \in 0..n |-> Step(nx, p, f, k)]}
<1>1. N \in Nat
  BY CountType
<1>2. 0 \in S
  <2> DEFINE f == [k \in 0..0 |-> nx[p]]
  <2>1. f = [k \in 0..0 |-> Step(nx, p, f, k)]
    BY DEF Step
  <2>2. QED
    BY <1>1, <2>1
<1>3. ASSUME NEW n \in 0..(N - 1), n \in S PROVE n + 1 \in S
  <2>1. PICK f : f = [k \in 0..n |-> Step(nx, p, f, k)]
    BY <1>3
  <2> DEFINE g == [k \in 0..(n + 1) |-> IF k <= n THEN f[k] ELSE Step(nx, p, f, n + 1)]
  <2>2. ASSUME NEW k \in 0..(n + 1) PROVE g[k] = Step(nx, p, g, k)
    BY <2>1 DEF Step
  <2>3. g = [k \in 0..(n + 1) |-> Step(nx, p, g, k)]
    BY <2>2
  <2>4. n + 1 \in 0..N
    BY <1>1
  <2>5. \E h : h = [k \in 0..(n + 1) |-> Step(nx, p, h, k)]
    BY <2>3
  <2>6. QED
    BY <2>4, <2>5
<1>4. N \in S
  <2>1. \A k \in 0..N : k \in S
    <3> HIDE DEF S, N
    <3> QED
    BY <1>1, <1>2, <1>3, Upto
  <2>2. QED
    BY <1>1, <2>1
<1>5. \E f : f = [k \in 0..N |-> Step(nx, p, f, k)]
  BY <1>4
<1>6. QED
  BY <1>5 DEF Nth, Step

-----------------------------------------------------------------------------
(* Lists: nx is what links point to, and aft the objects after each link.  *)

\* aft are the objects after each link in nx: three lists, none of which ends in a
\* cycle or in another one; what is on no list has nothing after it.
Ordered(nx, aft) ==
  /\ nx \in [Links -> Objs \cup {Null}] /\ aft \in [Links -> SUBSET Objs]
  /\ \A l \in Links : nx[l] = Null => aft[l] = {}
  /\ \A l \in Links : nx[l] # Null => aft[l] = {nx[l]} \cup aft[nx[l]]
  /\ \A o \in Objs : o \notin aft[o]
  /\ \A l \in Links : \A o \in aft[l] : aft[o] \subseteq aft[l]
  /\ \A l \in Links : \A x, y \in aft[l] : x = y \/ x \in aft[y] \/ y \in aft[x]
  /\ \A h, g \in Headers : h # g => aft[h] \cap aft[g] = {}
  /\ \A o \in Objs : (\A h \in Headers : o \notin aft[h]) => aft[o] = {}

\* Headers, objects and the null pointer are different things.
LEMMA LinkFacts ==
  /\ Headers \subseteq Links /\ Objs \subseteq Links /\ Null \notin Links
  /\ \A l \in Links : l \in Objs <=> l \notin Headers
  /\ "allgc" \in Headers /\ "finobj" \in Headers /\ "tobefnz" \in Headers
BY ObjsAssumption, NullAssumption DEF Links, Headers

\* Following the links from l one meets the objects after l in their order, then Null.
LEMMA Reach ==
  ASSUME NEW nx, NEW aft, Ordered(nx, aft), NEW l \in Links, NEW N, N = Cardinality(Objs),
         NEW f, f = Nth(nx, l)
  PROVE  /\ \A k \in 0..N : f[k] = Null \/ f[k] \in aft[l]
         /\ \A i, j \in 0..N : i < j /\ f[j] # Null => f[i] # Null /\ f[j] \in aft[f[i]]
         /\ f[N] = Null
         /\ \A o \in aft[l] : \E k \in 0..N : f[k] = o
<1>1. N \in Nat /\ f = [k \in 0..N |-> Step(nx, l, f, k)]
  BY CountType, NthIs
<1>2. f[0] = nx[l] /\ \A k \in 0..(N - 1) : f[k + 1] = IF f[k] = Null THEN Null ELSE nx[f[k]]
  BY <1>1 DEF Step
<1>3. \A m \in Links : aft[m] \subseteq Objs /\ (nx[m] = Null \/ nx[m] \in aft[m])
  BY DEF Ordered
<1>0. \A m \in Links : \A o \in aft[m] : o \in Links /\ o \in Objs /\ o # Null /\ aft[o] \subseteq aft[m]
  <2>1. \A m \in Links : \A o \in aft[m] : aft[o] \subseteq aft[m]
    BY DEF Ordered
  <2>2. QED
    BY <1>3, <2>1, LinkFacts
<1>4. ASSUME NEW k \in 0..N PROVE f[k] = Null \/ f[k] \in aft[l]
  <2> DEFINE S == {i \in 0..N : f[i] = Null \/ f[i] \in aft[l]}
  <2>1. 0 \in S
    BY <1>1, <1>2, <1>3
  <2>2. ASSUME NEW i \in 0..(N - 1), i \in S PROVE i + 1 \in S
    <3>1. i + 1 \in 0..N
      BY <1>1
    <3>2. f[i] = Null \/ (f[i] \in Links /\ f[i] \in aft[l] /\ aft[f[i]] \subseteq aft[l])
      <4>1. f[i] = Null \/ f[i] \in aft[l]
        BY <2>2
      <4>2. QED
        BY <1>0, <4>1
    <3>3. f[i + 1] = Null \/ f[i + 1] \in aft[l]
      <4>1. f[i + 1] = IF f[i] = Null THEN Null ELSE nx[f[i]]
        BY <1>2
      <4>2. QED
        BY <1>3, <3>2, <4>1
    <3>4. QED
      BY <3>1, <3>3
  <2> HIDE DEF S
  <2>3. k \in S
    BY <1>1, <2>1, <2>2, Upto
  <2>4. QED
    BY <2>3 DEF S
<1>5. ASSUME NEW i \in 0..N, NEW j \in 0..N, i < j, f[j] # Null
      PROVE  f[i] # Null /\ f[j] \in aft[f[i]]
  <2> DEFINE S == {k \in 0..N : i < k /\ f[k] # Null => f[i] # Null /\ f[k] \in aft[f[i]]}
  <2>1. 0 \in S
    BY <1>1
  <2>2. ASSUME NEW k \in 0..(N - 1), k \in S PROVE k + 1 \in S
    <3>1. SUFFICES ASSUME i < k + 1, f[k + 1] # Null PROVE f[i] # Null /\ f[k + 1] \in aft[f[i]]
      BY <1>1
    <3>2. k \in 0..N /\ f[k] # Null /\ f[k + 1] = nx[f[k]] /\ f[k] \in Objs /\ f[k] \in Links
      <4>1. k \in 0..N
        BY <1>1
      <4>2. f[k] # Null /\ f[k + 1] = nx[f[k]]
        BY <1>2, <3>1
      <4>3. QED
        BY <1>0, <1>4, <4>1, <4>2
    <3>3. f[k + 1] \in aft[f[k]]
      BY <1>3, <3>1, <3>2
    <3>4. i = k \/ i < k
      BY <3>1
    <3>5. ASSUME i < k PROVE f[i] # Null /\ f[k + 1] \in aft[f[i]]
      <4>1. f[i] # Null /\ f[k] \in aft[f[i]]
        BY <2>2, <3>2, <3>5
      <4>2. f[i] \in Links
        BY <1>3, <1>4, <4>1, LinkFacts
      <4>3. QED
        BY <3>3, <4>1, <4>2 DEF Ordered
    <3>6. QED
      BY <3>2, <3>3, <3>4, <3>5
  <2> HIDE DEF S
  <2>3. j \in S
    BY <1>1, <2>1, <2>2, Upto
  <2>4. QED
    BY <1>5, <2>3 DEF S
<1>6. f[N] = Null
  <2>1. SUFFICES ASSUME f[N] # Null PROVE FALSE
    OBVIOUS
  <2>2. \A i \in 0..N : f[i] \in Objs
    <3>1. \A i \in 0..N : f[i] # Null
      BY <1>1, <1>5, <2>1
    <3>2. QED
      BY <1>3, <1>4, <3>1
  <2>3. f \in [0..N -> Objs]
    BY <1>1, <2>2
  <2>4. IsFiniteSet(0..N) /\ Cardinality(0..N) = N + 1
    BY <1>1, FS_Interval
  <2>5. PICK i, j \in 0..N : i # j /\ f[i] = f[j]
    <3>1. Cardinality(Objs) < Cardinality(0..N) /\ IsFiniteSet(Objs)
      BY <1>1, <2>4, ObjsAssumption
    <3>2. \E i, j \in 0..N : i # j /\ f[i] = f[j]
      BY ONLY <2>3, <2>4, <3>1, FS_PigeonHole
    <3>3. QED
      BY <3>2
  <2>6. \A m \in Objs : m \notin aft[m]
    BY DEF Ordered
  <2>7. i < j \/ j < i
    BY <2>5
  <2>8. QED
    BY <1>5, <2>2, <2>5, <2>6, <2>7, LinkFacts
<1>7. ASSUME NEW o \in aft[l] PROVE \E k \in 0..N : f[k] = o
  <2>1. SUFFICES ASSUME \A k \in 0..N : f[k] # o PROVE FALSE
    OBVIOUS
  <2> DEFINE S == {k \in 0..N : f[k] # Null /\ o \in aft[f[k]]}
  <2>2. \A m \in Links : o \in aft[m] => nx[m] # Null /\ (o = nx[m] \/ o \in aft[nx[m]])
    BY DEF Ordered
  <2>3. 0 \in S
    BY <1>1, <1>2, <2>1, <2>2
  <2>4. ASSUME NEW k \in 0..(N - 1), k \in S PROVE k + 1 \in S
    <3>1. k \in 0..N /\ k + 1 \in 0..N /\ f[k] \in Links
      BY <1>1, <1>3, <1>4, <2>4, LinkFacts
    <3>2. f[k + 1] = nx[f[k]]
      BY <1>2, <2>4
    <3>3. QED
      BY <2>1, <2>2, <2>4, <3>1, <3>2
  <2> HIDE DEF S
  <2>5. N \in S
    BY <1>1, <2>3, <2>4, Upto
  <2>6. QED
    BY <1>6, <2>5 DEF S
<1>8. QED
  BY <1>4, <1>5, <1>6, <1>7

\* The first object of S after l, or Null, and the objects that are passed on the way.
Steps(nx, l, S) ==
  CHOOSE k \in 0..Cardinality(Objs) :
    Nth(nx, l)[k] \in S \cup {Null} /\ \A j \in 0..(k - 1) : Nth(nx, l)[j] \notin S \cup {Null}
First(nx, l, S)  == Nth(nx, l)[Steps(nx, l, S)]
Passed(nx, l, S) == {Nth(nx, l)[k] : k \in 0..(Steps(nx, l, S) - 1)}

\* The first object of S after l, and those passed on the way to it.
LEMMA FirstIs ==
  ASSUME NEW nx, NEW aft, Ordered(nx, aft), NEW l \in Links, NEW S
  PROVE  /\ First(nx, l, S) = Null => aft[l] \cap S = {} /\ Passed(nx, l, S) = aft[l]
         /\ First(nx, l, S) # Null => /\ First(nx, l, S) \in S /\ First(nx, l, S) \in aft[l]
                                      /\ \A o \in aft[l] : o \in Passed(nx, l, S) <=> First(nx, l, S) \in aft[o]
         /\ Passed(nx, l, S) \subseteq aft[l] /\ Passed(nx, l, S) \cap S = {}
<1>1. PICK N, f, k : N = Cardinality(Objs) /\ f = Nth(nx, l) /\ k = Steps(nx, l, S)
  OBVIOUS
<1>2. /\ \A i \in 0..N : f[i] = Null \/ f[i] \in aft[l]
      /\ \A i, j \in 0..N : i < j /\ f[j] # Null => f[i] # Null /\ f[j] \in aft[f[i]]
      /\ f[N] = Null
      /\ \A o \in aft[l] : \E i \in 0..N : f[i] = o
  BY <1>1, Reach
<1>3. N \in Nat
  BY <1>1, CountType
<1>4. k \in 0..N /\ f[k] \in S \cup {Null} /\ \A j \in 0..(k - 1) : f[j] \notin S \cup {Null}
  <2> DEFINE T == {i \in 0..N : f[i] \in S \cup {Null}}
  <2>1. N \in T
    BY <1>2, <1>3
  <2>2. PICK x \in T : x \in 0..N /\ \A y \in 0..(x - 1) : y \notin T
    <3> HIDE DEF T
    <3>1. N \in 0..N
      BY <1>3
    <3>2. QED
      BY <1>3, <2>1, <3>1, Least
  <2>3. f[x] \in S \cup {Null} /\ \A y \in 0..(x - 1) : f[y] \notin S \cup {Null}
    BY <1>3, <2>2
  <2>4. k = CHOOSE i \in 0..N : f[i] \in S \cup {Null} /\ \A j \in 0..(i - 1) : f[j] \notin S \cup {Null}
    BY <1>1 DEF Steps
  <2>5. QED
    BY <2>2, <2>3, <2>4
<1>5. First(nx, l, S) = f[k] /\ Passed(nx, l, S) = {f[i] : i \in 0..(k - 1)}
  BY <1>1 DEF First, Passed
<1>6. \A o \in aft[l] : o # Null /\ o \in Objs /\ o \notin aft[o] /\ \A x \in aft[o] : o \notin aft[x]
  <2>1. \A o \in aft[l] : o \in Objs
    BY DEF Ordered
  <2>2. \A o \in Objs : o \in Links /\ o \notin aft[o] /\ o # Null
    BY LinkFacts DEF Ordered
  <2>3. \A o \in Objs : \A x \in aft[o] : aft[x] \subseteq aft[o]
    BY <2>2 DEF Ordered
  <2>4. QED
    BY <2>1, <2>2, <2>3
<1>7. ASSUME NEW i \in 0..(k - 1) PROVE i \in 0..N /\ f[i] \in aft[l] /\ f[i] \notin S
  BY <1>2, <1>3, <1>4
<1>8. CASE f[k] = Null
  <2>1. ASSUME NEW o \in aft[l] PROVE \E i \in 0..(k - 1) : f[i] = o
    <3>1. PICK i \in 0..N : f[i] = o
      BY <1>2
    <3>2. i # k /\ ~(k < i)
      BY <1>2, <1>4, <1>6, <1>8, <3>1
    <3>3. QED
      BY <1>4, <3>1, <3>2
  <2>2. QED
    BY <1>5, <1>7, <1>8, <2>1
<1>9. CASE f[k] # Null
  <2>1. f[k] \in S /\ f[k] \in aft[l]
    BY <1>2, <1>4, <1>9
  <2>2. ASSUME NEW i \in 0..(k - 1) PROVE f[k] \in aft[f[i]]
    BY <1>2, <1>4, <1>7, <1>9
  <2>3. ASSUME NEW o \in aft[l], f[k] \in aft[o] PROVE \E i \in 0..(k - 1) : f[i] = o
    <3>1. PICK i \in 0..N : f[i] = o
      BY <1>2
    <3>2. i # k
      BY <1>6, <2>3, <3>1
    <3>3. ~(k < i)
      BY <1>2, <1>4, <1>6, <2>1, <2>3, <3>1
    <3>4. QED
      BY <1>4, <3>1, <3>2, <3>3
  <2>4. QED
    BY <1>5, <1>7, <1>9, <2>1, <2>2, <2>3
<1>10. QED
  BY <1>8, <1>9

-----------------------------------------------------------------------------
(* What is done to lists.                                                  *)

\* An object that is on no list becomes the first of list h.
Pushed(nx, h, o) == [nx EXCEPT ![o] = nx[h], ![h] = o]
PushedAft(aft, h, o) ==
  [l \in Links |-> IF l = h THEN aft[h] \cup {o} ELSE IF l = o THEN aft[h] ELSE aft[l]]

\* Linking it in keeps the lists.
LEMMA PushOrdered ==
  ASSUME NEW nx, NEW aft, Ordered(nx, aft), NEW h \in Headers, NEW o \in Objs,
         \A g \in Headers : o \notin aft[g]
  PROVE  Ordered(Pushed(nx, h, o), PushedAft(aft, h, o))
<1>1. PICK nx2, aft2 : nx2 = Pushed(nx, h, o) /\ aft2 = PushedAft(aft, h, o)
  OBVIOUS
<1>2. /\ nx \in [Links -> Objs \cup {Null}] /\ aft \in [Links -> SUBSET Objs]
      /\ h \in Links /\ o \in Links /\ h # o /\ h \notin Objs
  BY LinkFacts DEF Ordered
<1>3. /\ nx2 \in [Links -> Objs \cup {Null}] /\ aft2 \in [Links -> SUBSET Objs]
      /\ nx2[o] = nx[h] /\ nx2[h] = o /\ aft2[h] = aft[h] \cup {o} /\ aft2[o] = aft[h]
      /\ \A l \in Links : l # h /\ l # o => nx2[l] = nx[l] /\ aft2[l] = aft[l]
  BY <1>1, <1>2 DEF Pushed, PushedAft
<1>4. \A l \in Links : l # o => o \notin aft[l]
  <2>1. ASSUME NEW x \in Objs, o \in aft[x] PROVE FALSE
    <3>1. PICK g \in Headers : x \in aft[g]
      BY <2>1 DEF Ordered
    <3>2. aft[x] \subseteq aft[g]
      BY <3>1, LinkFacts DEF Ordered
    <3>3. QED
      BY <2>1, <3>2
  <2>2. QED
    BY <2>1, LinkFacts
<1>5. aft[o] = {} /\ nx[o] = Null
  <2>1. aft[o] = {}
    BY DEF Ordered
  <2>2. QED
    BY <1>2, <2>1 DEF Ordered
<1>6. /\ \A l \in Links : nx[l] = Null => aft[l] = {}
      /\ \A l \in Links : nx[l] # Null => aft[l] = {nx[l]} \cup aft[nx[l]]
      /\ \A x \in Objs : x \notin aft[x]
      /\ \A l \in Links : \A x \in aft[l] : aft[x] \subseteq aft[l]
      /\ \A l \in Links : \A x, y \in aft[l] : x = y \/ x \in aft[y] \/ y \in aft[x]
      /\ \A g, k \in Headers : g # k => aft[g] \cap aft[k] = {}
      /\ \A x \in Objs : (\A g \in Headers : x \notin aft[g]) => aft[x] = {}
  BY DEF Ordered
<1>7. \A l \in Links : nx2[l] = Null => aft2[l] = {}
  BY <1>2, <1>3, <1>6, LinkFacts
<1>8. \A l \in Links : nx2[l] # Null => aft2[l] = {nx2[l]} \cup aft2[nx2[l]]
  <2>1. \A l \in Links : nx[l] # o /\ nx[l] # h
    BY <1>2, <1>4, <1>5, <1>6, LinkFacts
  <2>2. QED
    BY <1>2, <1>3, <1>6, <2>1, LinkFacts
<1>9. \A x \in Objs : x \notin aft2[x]
  BY <1>2, <1>3, <1>4, <1>6, LinkFacts
<1>10. \A l \in Links : \A x \in aft2[l] : x \in Objs /\ x \in Links /\ x # h /\ (x # o => aft2[x] = aft[x])
  BY <1>2, <1>3, LinkFacts
<1>11. \A l \in Links : \A x \in aft2[l] : aft2[x] \subseteq aft2[l]
  BY <1>2, <1>3, <1>4, <1>6, <1>10
<1>12. \A l \in Links : \A x, y \in aft2[l] : x = y \/ x \in aft2[y] \/ y \in aft2[x]
  <2>1. \A l \in Links : l # h => o \notin aft2[l]
    BY <1>2, <1>3, <1>4
  <2>2. \A x, y \in aft[h] : x = y \/ x \in aft2[y] \/ y \in aft2[x]
    BY <1>2, <1>4, <1>6, <1>3, LinkFacts
  <2>3. QED
    BY <1>2, <1>3, <1>6, <1>10, <2>1, <2>2
<1>13. \A g, k \in Headers : g # k => aft2[g] \cap aft2[k] = {}
  BY <1>2, <1>3, <1>4, <1>6, LinkFacts
<1>14. \A x \in Objs : (\A g \in Headers : x \notin aft2[g]) => aft2[x] = {}
  BY <1>2, <1>3, <1>6, LinkFacts
<1>15. QED
  BY <1>1, <1>3, <1>7, <1>8, <1>9, <1>11, <1>12, <1>13, <1>14 DEF Ordered

\* The objects of G leave their lists.
Without(aft, G) == [l \in Links |-> IF l \in G THEN {} ELSE aft[l] \ G]

\* Lists from which the objects of G were taken, the others keeping their order, are lists.
LEMMA FilterOrdered ==
  ASSUME NEW nx, NEW aft, Ordered(nx, aft), NEW G \in SUBSET Objs,
         NEW nx2 \in [Links -> Objs \cup {Null}],
         \A l \in Links : l \in G => nx2[l] = Null,
         \A l \in Links : l \notin G /\ nx2[l] = Null => aft[l] \ G = {},
         \A l \in Links : l \notin G /\ nx2[l] # Null =>
            nx2[l] \in aft[l] \ G /\ aft[l] \ G = {nx2[l]} \cup (aft[nx2[l]] \ G)
  PROVE  Ordered(nx2, Without(aft, G))
<1>1. PICK aft2 : aft2 = Without(aft, G)
  OBVIOUS
<1>2. /\ aft \in [Links -> SUBSET Objs]
      /\ \A x \in Objs : x \notin aft[x]
      /\ \A l \in Links : \A x \in aft[l] : aft[x] \subseteq aft[l]
      /\ \A l \in Links : \A x, y \in aft[l] : x = y \/ x \in aft[y] \/ y \in aft[x]
      /\ \A g, k \in Headers : g # k => aft[g] \cap aft[k] = {}
      /\ \A x \in Objs : (\A g \in Headers : x \notin aft[g]) => aft[x] = {}
  BY DEF Ordered
<1>3. /\ aft2 \in [Links -> SUBSET Objs]
      /\ \A l \in Links : l \in G => aft2[l] = {}
      /\ \A l \in Links : l \notin G => aft2[l] = aft[l] \ G
  BY <1>1, <1>2 DEF Without
<1>4. \A l \in Links : \A x \in aft2[l] : l \notin G /\ x \in aft[l] /\ x \notin G /\ x \in Objs /\ x \in Links
  BY <1>2, <1>3, LinkFacts
<1>5. \A l \in Links : nx2[l] = Null => aft2[l] = {}
  BY <1>3
<1>6. \A l \in Links : nx2[l] # Null => aft2[l] = {nx2[l]} \cup aft2[nx2[l]]
  <2>1. \A l \in Links : nx2[l] # Null => l \notin G /\ nx2[l] \in Links /\ nx2[l] \notin G
    BY LinkFacts
  <2>2. QED
    BY <1>3, <2>1
<1>7. \A x \in Objs : x \notin aft2[x]
  BY <1>2, <1>3, LinkFacts
<1>8. \A l \in Links : \A x \in aft2[l] : aft2[x] \subseteq aft2[l]
  BY <1>2, <1>3, <1>4
<1>9. \A l \in Links : \A x, y \in aft2[l] : x = y \/ x \in aft2[y] \/ y \in aft2[x]
  BY <1>2, <1>3, <1>4
<1>10. \A g, k \in Headers : g # k => aft2[g] \cap aft2[k] = {}
  BY <1>2, <1>4, LinkFacts
<1>11. \A x \in Objs : (\A g \in Headers : x \notin aft2[g]) => aft2[x] = {}
  <2>1. ASSUME NEW x \in Objs, \A g \in Headers : x \notin aft2[g], x \notin G PROVE aft[x] = {}
    BY <1>2, <1>3, <2>1, LinkFacts
  <2>2. QED
    BY <1>3, <2>1, LinkFacts
<1>12. Ordered(nx2, aft2)
  BY <1>3, <1>5, <1>6, <1>7, <1>8, <1>9, <1>10, <1>11 DEF Ordered
<1>13. QED
  BY <1>1, <1>12

\* An object is met through one link only.
LEMMA OneLink ==
  ASSUME NEW nx, NEW aft, Ordered(nx, aft), NEW o \in Objs,
         NEW l \in Links, NEW m \in Links, nx[l] = o, nx[m] = o
  PROVE  l = m
<1>1. o \in aft[l] /\ o \in aft[m] /\ o # Null
  BY LinkFacts DEF Ordered
<1>2. /\ \A k \in Links : nx[k] = o => aft[k] = {o} \cup aft[o]
      /\ o \notin aft[o]
      /\ \A x, y \in Objs : x \in aft[y] => aft[x] \subseteq aft[y]
  BY <1>1, LinkFacts DEF Ordered
<1>3. ASSUME NEW x \in Objs, NEW k \in Links, nx[x] = o, nx[k] = o, x \in aft[k] PROVE FALSE
  <2>1. x \in aft[o] \/ x = o
    BY <1>2, <1>3
  <2>2. o \in aft[o]
    BY <1>2, <1>3, <2>1, LinkFacts
  <2>3. QED
    BY <1>2, <2>2
<1>4. ASSUME NEW x \in Objs, NEW k \in Links, nx[x] = o, nx[k] = o PROVE \E h \in Headers : x \in aft[h] /\ o \in aft[h]
  <2>1. aft[x] # {}
    BY <1>2, <1>4, LinkFacts
  <2>2. PICK h \in Headers : x \in aft[h]
    BY <2>1 DEF Ordered
  <2>3. aft[x] \subseteq aft[h]
    BY <2>2, LinkFacts DEF Ordered
  <2>4. QED
    BY <1>2, <1>4, <2>2, <2>3, LinkFacts
<1>5. ASSUME NEW x \in Objs, NEW k \in Links, nx[x] = o, nx[k] = o PROVE x = k
  <2>1. PICK h \in Headers : x \in aft[h] /\ o \in aft[h]
    BY <1>4, <1>5
  <2>2. CASE k \in Headers
    <3>1. h = k
      BY <1>2, <1>5, <2>1, <2>2 DEF Ordered
    <3>2. QED
      BY <1>3, <1>5, <2>1, <3>1
  <2>3. CASE k \in Objs
    <3>1. PICK g \in Headers : k \in aft[g] /\ o \in aft[g]
      BY <1>4, <1>5, <2>3
    <3>2. g = h
      BY <2>1, <3>1 DEF Ordered
    <3>3. x = k \/ x \in aft[k] \/ k \in aft[x]
      BY <2>1, <3>1, <3>2, LinkFacts DEF Ordered
    <3>4. QED
      BY <1>3, <1>5, <2>3, <3>3, LinkFacts
  <2>4. QED
    BY <2>2, <2>3, LinkFacts
<1>6. CASE l \in Headers /\ m \in Headers
  BY <1>1, <1>6 DEF Ordered
<1>7. QED
  BY <1>5, <1>6, LinkFacts

\* What is on a list is met through a link of that list.
LEMMA SomeLink ==
  ASSUME NEW nx, NEW aft, Ordered(nx, aft), NEW l \in Links, NEW o \in aft[l]
  PROVE  \E m \in {l} \cup aft[l] : m \in Links /\ nx[m] = o
<1>1. PICK N, f : N = Cardinality(Objs) /\ f = Nth(nx, l)
  OBVIOUS
<1>2. /\ \A i \in 0..N : f[i] = Null \/ f[i] \in aft[l]
      /\ \A x \in aft[l] : \E i \in 0..N : f[i] = x
  BY <1>1, Reach
<1>3. N \in Nat /\ f = [k \in 0..N |-> Step(nx, l, f, k)]
  BY <1>1, CountType, NthIs
<1>4. PICK i \in 0..N : f[i] = o
  BY <1>2
<1>5. o # Null /\ \A x \in aft[l] : x \in Links
  BY LinkFacts DEF Ordered
<1>6. CASE i = 0
  BY <1>3, <1>4, <1>6 DEF Step
<1>7. CASE i # 0
  <2>1. i - 1 \in 0..N /\ f[i - 1] # Null /\ nx[f[i - 1]] = o
    BY <1>3, <1>4, <1>5, <1>7 DEF Step
  <2>2. QED
    BY <1>2, <1>5, <2>1
<1>8. QED
  BY <1>6, <1>7

\* Unlinking the object after p.
LEMMA UnlinkOrdered ==
  ASSUME NEW nx, NEW aft, Ordered(nx, aft), NEW p \in Links, NEW o \in Objs, nx[p] = o
  PROVE  Ordered([nx EXCEPT ![p] = nx[o], ![o] = Null], Without(aft, {o}))
<1>1. PICK nx2 : nx2 = [nx EXCEPT ![p] = nx[o], ![o] = Null]
  OBVIOUS
<1>2. /\ nx \in [Links -> Objs \cup {Null}] /\ o \in Links /\ o # Null
      /\ \A l \in Links : nx[l] = Null => aft[l] = {}
      /\ \A l \in Links : nx[l] # Null => aft[l] = {nx[l]} \cup aft[nx[l]]
      /\ \A x \in Objs : x \notin aft[x]
      /\ aft[p] = {o} \cup aft[o] /\ o # p
  BY LinkFacts DEF Ordered
<1>3. /\ nx2 \in [Links -> Objs \cup {Null}] /\ nx2[p] = nx[o] /\ nx2[o] = Null
      /\ \A l \in Links : l # p /\ l # o => nx2[l] = nx[l]
  BY <1>1, <1>2
<1>4. \A l \in Links : l # p => nx[l] # o
  BY OneLink
<1>5. \A l \in Links : l # o /\ nx2[l] = Null => aft[l] \ {o} = {}
  BY <1>2, <1>3
<1>6. ASSUME NEW l \in Links, l # o, nx2[l] # Null
      PROVE  nx2[l] \in aft[l] \ {o} /\ aft[l] \ {o} = {nx2[l]} \cup (aft[nx2[l]] \ {o})
  <2>1. CASE l = p
    <3>1. aft[o] = {nx[o]} \cup aft[nx[o]] /\ o \notin aft[o] /\ nx2[l] = nx[o] /\ aft[l] = {o} \cup aft[o]
      BY <1>2, <1>3, <1>6, <2>1
    <3>2. QED
      BY <3>1
  <2>2. CASE l # p
    <3>1. nx2[l] = nx[l] /\ nx[l] # o
      BY <1>3, <1>4, <1>6, <2>2
    <3>2. aft[l] = {nx[l]} \cup aft[nx[l]]
      BY <1>2, <1>6, <3>1
    <3>3. QED
      BY <3>1, <3>2
  <2>3. QED
    BY <2>1, <2>2
<1>7. Ordered(nx2, Without(aft, {o}))
  BY <1>3, <1>5, <1>6, FilterOrdered
<1>8. QED
  BY <1>1, <1>7

\* The object that link p points to becomes the first of list h.
MovedNext(nx, p, h, o) == [nx EXCEPT ![p] = nx[o], ![o] = nx[h], ![h] = o]

\* Unlinking an object and linking it in elsewhere (udata2finalize, luaC_checkfinalizer).
LEMMA MoveOrdered ==
  ASSUME NEW nx, NEW aft, Ordered(nx, aft), NEW p \in Links, NEW h \in Headers,
         NEW o \in Objs, nx[p] = o, o \notin aft[h]
  PROVE  Ordered(MovedNext(nx, p, h, o), PushedAft(Without(aft, {o}), h, o))
<1>1. PICK nx2, aft2 : nx2 = [nx EXCEPT ![p] = nx[o], ![o] = Null] /\ aft2 = Without(aft, {o})
  OBVIOUS
<1>2. Ordered(nx2, aft2)
  BY <1>1, UnlinkOrdered
<1>3. \A g \in Headers : o \notin aft2[g]
  BY <1>1, LinkFacts DEF Without
<1>4. Ordered(Pushed(nx2, h, o), PushedAft(aft2, h, o))
  BY <1>2, <1>3, PushOrdered
<1>5. Pushed(nx2, h, o) = MovedNext(nx, p, h, o)
  <2>1. p # h /\ o # h /\ h \in Links /\ o \in Links
    BY LinkFacts DEF Ordered
  <2>2. nx \in [Links -> Objs \cup {Null}]
    BY DEF Ordered
  <2>3. o # p
    BY LinkFacts DEF Ordered
  <2>4. QED
    BY <1>1, <2>1, <2>2, <2>3 DEF Pushed, MovedNext
<1>6. QED
  BY <1>1, <1>4, <1>5

\* The first object of S after l is followed by the others.
LEMMA FirstSplits ==
  ASSUME NEW nx, NEW aft, Ordered(nx, aft), NEW l \in Links, NEW S, First(nx, l, S) # Null
  PROVE  aft[l] \cap S = {First(nx, l, S)} \cup (aft[First(nx, l, S)] \cap S)
<1>1. PICK x : x = First(nx, l, S)
  OBVIOUS
<1>2. x \in S /\ x \in aft[l] /\ \A o \in aft[l] \cap S : x \notin aft[o]
  BY <1>1, FirstIs
<1>3. aft[x] \subseteq aft[l] /\ \A o \in aft[l] : o = x \/ o \in aft[x] \/ x \in aft[o]
  BY <1>2 DEF Ordered
<1>4. QED
  BY <1>1, <1>2, <1>3

\* Unlinking everything between p and the first object of S (sweeptolive).
LEMMA CutOrdered ==
  ASSUME NEW nx, NEW aft, Ordered(nx, aft), NEW p \in Links, NEW S,
         NEW live, live = First(nx, p, S), NEW gone, gone = Passed(nx, p, S)
  PROVE  /\ gone \subseteq aft[p] /\ gone \cap S = {}
         /\ live = Null => gone = aft[p] /\ aft[p] \cap S = {}
         /\ live # Null => live \in S /\ live \in aft[p] /\ aft[p] \ gone = {live} \cup (aft[live] \ gone)
         /\ Ordered([l \in Links |-> IF l = p THEN live ELSE IF l \in gone THEN Null ELSE nx[l]],
                    Without(aft, gone))
<1>1. PICK nx2 : nx2 = [l \in Links |-> IF l = p THEN live ELSE IF l \in gone THEN Null ELSE nx[l]]
  OBVIOUS
<1>2. /\ live = Null => aft[p] \cap S = {} /\ gone = aft[p]
      /\ live # Null => live \in S /\ live \in aft[p] /\ \A o \in aft[p] : o \in gone <=> live \in aft[o]
      /\ gone \subseteq aft[p] /\ gone \cap S = {}
  BY FirstIs
<1>3. /\ nx \in [Links -> Objs \cup {Null}] /\ aft \in [Links -> SUBSET Objs]
      /\ \A l \in Links : nx[l] = Null => aft[l] = {}
      /\ \A l \in Links : nx[l] # Null => aft[l] = {nx[l]} \cup aft[nx[l]]
      /\ \A l \in Links : \A x \in aft[l] : aft[x] \subseteq aft[l]
      /\ \A l \in Links : \A x, y \in aft[l] : x = y \/ x \in aft[y] \/ y \in aft[x]
  BY DEF Ordered
<1>4. p \notin gone /\ gone \in SUBSET Objs /\ gone \subseteq Links /\ (live = Null \/ live \in Objs)
  BY <1>2, <1>3, LinkFacts DEF Ordered
<1>5. /\ nx2 \in [Links -> Objs \cup {Null}] /\ nx2[p] = live
      /\ \A l \in Links : l \in gone => nx2[l] = Null
      /\ \A l \in Links : l \notin gone /\ l # p => nx2[l] = nx[l]
  BY <1>1, <1>3, <1>4
<1>6. live # Null => live \in aft[p] \ gone /\ aft[p] \ gone = {live} \cup (aft[live] \ gone)
  BY <1>2, <1>3
<1>7. ASSUME NEW l \in Links, l \notin gone, l # p, nx[l] # Null PROVE nx[l] \notin gone
  <2>1. SUFFICES ASSUME nx[l] \in gone PROVE FALSE
    OBVIOUS
  <2>2. nx[l] \in aft[p] /\ nx[l] \in Objs
    BY <1>2, <1>4, <2>1
  <2>3. PICK m \in {p} \cup aft[p] : m \in Links /\ nx[m] = nx[l]
    BY <2>2, SomeLink
  <2>4. m = l
    BY <2>2, <2>3, OneLink
  <2>5. l \in aft[p] /\ nx[l] \in aft[l]
    BY <1>3, <1>7, <2>3, <2>4
  <2>6. live # Null
    BY <1>2, <1>7, <2>5
  <2>7. live \in aft[nx[l]]
    BY <1>2, <2>1, <2>2, <2>6
  <2>8. live \in aft[l]
    BY <1>3, <2>5, <2>7
  <2>9. QED
    BY <1>2, <1>7, <2>5, <2>6, <2>8
<1>8. \A l \in Links : l \notin gone /\ nx2[l] = Null => aft[l] \ gone = {}
  BY <1>2, <1>3, <1>5
<1>9. \A l \in Links : l \notin gone /\ nx2[l] # Null =>
         nx2[l] \in aft[l] \ gone /\ aft[l] \ gone = {nx2[l]} \cup (aft[nx2[l]] \ gone)
  BY <1>3, <1>5, <1>6, <1>7
<1>10. Ordered(nx2, Without(aft, gone))
  BY <1>4, <1>5, <1>8, <1>9, FilterOrdered
<1>11. QED
  BY <1>1, <1>2, <1>6, <1>10

\* The objects of W leave finobj, in their order, for the end of tobefnz.
SepNext(nx, aft, W) ==
  LET dying   == aft["finobj"] \cap W
      staying == aft["finobj"] \ W
  IN [l \in Links |->
        IF l \in {"finobj"} \cup staying THEN First(nx, l, staying)
        ELSE IF l \in dying THEN First(nx, l, dying)
        ELSE IF l \in {"tobefnz"} \cup aft["tobefnz"] /\ nx[l] = Null THEN First(nx, "finobj", dying)
        ELSE nx[l]]
\* What comes after each link then.
SepAft(aft, W) ==
  [l \in Links |->
     IF l \in {"finobj"} \cup (aft["finobj"] \ W) THEN aft[l] \ W
     ELSE IF l \in aft["finobj"] THEN aft[l] \cap W
     ELSE IF l \in {"tobefnz"} \cup aft["tobefnz"] THEN aft[l] \cup (aft["finobj"] \cap W)
     ELSE aft[l]]

\* separatetobefnz leaves lists.
LEMMA SeparateOrdered ==
  ASSUME NEW nx, NEW aft, Ordered(nx, aft), NEW W
  PROVE  Ordered(SepNext(nx, aft, W), SepAft(aft, W))
<1>1. PICK F, T, dying, staying :
         F = aft["finobj"] /\ T = aft["tobefnz"] /\ dying = F \cap W /\ staying = F \ W
  OBVIOUS
<1>2. PICK nx2, aft2 : nx2 = SepNext(nx, aft, W) /\ aft2 = SepAft(aft, W)
  OBVIOUS
<1>3. /\ nx \in [Links -> Objs \cup {Null}] /\ aft \in [Links -> SUBSET Objs]
      /\ \A l \in Links : nx[l] = Null => aft[l] = {}
      /\ \A l \in Links : nx[l] # Null => aft[l] = {nx[l]} \cup aft[nx[l]]
      /\ \A x \in Objs : x \notin aft[x]
      /\ \A l \in Links : \A x \in aft[l] : aft[x] \subseteq aft[l]
      /\ \A l \in Links : \A x, y \in aft[l] : x = y \/ x \in aft[y] \/ y \in aft[x]
      /\ \A g, k \in Headers : g # k => aft[g] \cap aft[k] = {}
      /\ \A x \in Objs : (\A g \in Headers : x \notin aft[g]) => aft[x] = {}
  BY DEF Ordered
<1>4. /\ F \subseteq Objs /\ T \subseteq Objs /\ F \cap T = {} /\ dying \subseteq F /\ staying \subseteq F
      /\ dying \cap staying = {} /\ F = dying \cup staying
      /\ \A x \in F : aft[x] \subseteq F
      /\ \A x \in T : aft[x] \subseteq T
      /\ "finobj" \in Links /\ "tobefnz" \in Links /\ "finobj" \notin Objs /\ "tobefnz" \notin Objs
      /\ Null \notin Objs /\ Objs \subseteq Links /\ Null \notin Links
  BY <1>1, <1>3, LinkFacts
<1>5. /\ \A l \in Links : l \in {"finobj"} \cup staying =>
             nx2[l] = First(nx, l, staying) /\ aft2[l] = aft[l] \cap staying
      /\ \A l \in Links : l \in dying => nx2[l] = First(nx, l, dying) /\ aft2[l] = aft[l] \cap dying
      /\ \A l \in Links : l \in {"tobefnz"} \cup T =>
             /\ nx2[l] = IF nx[l] = Null THEN First(nx, "finobj", dying) ELSE nx[l]
             /\ aft2[l] = aft[l] \cup dying
      /\ \A l \in Links : l \notin {"finobj", "tobefnz"} \cup F \cup T => nx2[l] = nx[l] /\ aft2[l] = aft[l]
  <2>1. nx2 = [l \in Links |->
        IF l \in {"finobj"} \cup staying THEN First(nx, l, staying)
        ELSE IF l \in dying THEN First(nx, l, dying)
        ELSE IF l \in {"tobefnz"} \cup T /\ nx[l] = Null THEN First(nx, "finobj", dying)
        ELSE nx[l]]
    BY <1>1, <1>2 DEF SepNext
  <2>2. aft2 = [l \in Links |->
     IF l \in {"finobj"} \cup staying THEN aft[l] \ W
     ELSE IF l \in F THEN aft[l] \cap W
     ELSE IF l \in {"tobefnz"} \cup T THEN aft[l] \cup dying
     ELSE aft[l]]
    BY <1>1, <1>2 DEF SepAft
  <2>3. \A l \in {"finobj"} \cup F : aft[l] \subseteq F
    BY <1>1, <1>4
  <2>4. \A l \in {"finobj"} \cup F : aft[l] \ W = aft[l] \cap staying /\ aft[l] \cap W = aft[l] \cap dying
    BY <1>1, <2>3
  <2>5. \A l \in Links : l \in {"finobj"} \cup staying =>
             nx2[l] = First(nx, l, staying) /\ aft2[l] = aft[l] \cap staying
    BY <1>4, <2>1, <2>2, <2>4
  <2>6. \A l \in Links : l \in dying => nx2[l] = First(nx, l, dying) /\ aft2[l] = aft[l] \cap dying
    <3>1. \A l \in Links : l \in dying => l \notin {"finobj"} \cup staying /\ l \in F
      BY <1>4
    <3>2. QED
      BY <2>1, <2>2, <2>4, <3>1
  <2>7. \A l \in Links : l \in {"tobefnz"} \cup T =>
             /\ nx2[l] = IF nx[l] = Null THEN First(nx, "finobj", dying) ELSE nx[l]
             /\ aft2[l] = aft[l] \cup dying
    <3>1. \A l \in Links : l \in {"tobefnz"} \cup T => l \notin {"finobj"} \cup staying /\ l \notin F /\ l \notin dying
      BY <1>4
    <3>2. QED
      BY <2>1, <2>2, <3>1
  <2>8. \A l \in Links : l \notin {"finobj", "tobefnz"} \cup F \cup T => nx2[l] = nx[l] /\ aft2[l] = aft[l]
    BY <1>4, <2>1, <2>2
  <2>9. QED
    BY <2>5, <2>6, <2>7, <2>8
<1>6. \A l \in Links : \A S :
        /\ First(nx, l, S) = Null => aft[l] \cap S = {}
        /\ First(nx, l, S) # Null => /\ First(nx, l, S) \in S /\ First(nx, l, S) \in aft[l]
                                     /\ aft[l] \cap S = {First(nx, l, S)} \cup (aft[First(nx, l, S)] \cap S)
  BY FirstIs, FirstSplits
<1> USE <1>4
<1>7. nx2 \in [Links -> Objs \cup {Null}] /\ aft2 \in [Links -> SUBSET Objs]
  <2>1. \A l \in Links : nx2[l] \in Objs \cup {Null}
    <3>1. \A l \in Links : \A S : S \in SUBSET Objs => First(nx, l, S) \in Objs \cup {Null}
      BY <1>6
    <3>2. QED
      BY <1>3, <1>5, <3>1
  <2>2. \A l \in Links : aft2[l] \in SUBSET Objs
    BY <1>3, <1>5
  <2>3. nx2 = [l \in Links |-> nx2[l]] /\ aft2 = [l \in Links |-> aft2[l]]
    BY <1>2 DEF SepNext, SepAft
  <2>4. QED
    BY <2>1, <2>2, <2>3
<1>8. \A l \in Links : /\ nx2[l] = Null => aft2[l] = {}
                       /\ nx2[l] # Null => aft2[l] = {nx2[l]} \cup aft2[nx2[l]]
  <2>1. ASSUME NEW l \in Links, l \in {"finobj"} \cup staying
        PROVE  /\ nx2[l] = Null => aft2[l] = {}
               /\ nx2[l] # Null => aft2[l] = {nx2[l]} \cup aft2[nx2[l]]
    <3>1. nx2[l] = First(nx, l, staying) /\ aft2[l] = aft[l] \cap staying
      BY <1>5, <2>1
    <3>2. QED
      BY <1>5, <1>6, <3>1
  <2>2. ASSUME NEW l \in Links, l \in dying
        PROVE  /\ nx2[l] = Null => aft2[l] = {}
               /\ nx2[l] # Null => aft2[l] = {nx2[l]} \cup aft2[nx2[l]]
    <3>1. nx2[l] = First(nx, l, dying) /\ aft2[l] = aft[l] \cap dying
      BY <1>5, <2>2
    <3>2. QED
      BY <1>5, <1>6, <3>1
  <2>3. ASSUME NEW l \in Links, l \in {"tobefnz"} \cup T
        PROVE  /\ nx2[l] = Null => aft2[l] = {}
               /\ nx2[l] # Null => aft2[l] = {nx2[l]} \cup aft2[nx2[l]]
    <3>1. CASE nx[l] # Null
      <4>1. nx2[l] = nx[l] /\ nx[l] \in T /\ aft[l] = {nx[l]} \cup aft[nx[l]] /\ aft2[l] = aft[l] \cup dying
        BY <1>1, <1>3, <1>5, <2>3, <3>1
      <4>2. aft2[nx[l]] = aft[nx[l]] \cup dying
        BY <1>5, <4>1
      <4>3. QED
        BY <3>1, <4>1, <4>2
    <3>2. CASE nx[l] = Null
      <4>1. nx2[l] = First(nx, "finobj", dying) /\ aft2[l] = dying
        <5>1. aft[l] = {}
          BY <1>3, <3>2
        <5>2. QED
          BY <1>5, <2>3, <3>2, <5>1
      <4>2. dying = F \cap dying
        OBVIOUS
      <4>3. /\ nx2[l] = Null => F \cap dying = {}
            /\ nx2[l] # Null => nx2[l] \in dying /\ F \cap dying = {nx2[l]} \cup (aft[nx2[l]] \cap dying)
        BY <1>1, <1>6, <4>1
      <4>4. nx2[l] # Null => aft2[nx2[l]] = aft[nx2[l]] \cap dying
        BY <1>5, <4>3
      <4>5. QED
        BY <4>1, <4>2, <4>3, <4>4
    <3>3. QED
      BY <3>1, <3>2
  <2>4. ASSUME NEW l \in Links, l \notin {"finobj", "tobefnz"} \cup F \cup T
        PROVE  /\ nx2[l] = Null => aft2[l] = {}
               /\ nx2[l] # Null => aft2[l] = {nx2[l]} \cup aft2[nx2[l]]
    <3>1. nx2[l] = nx[l] /\ aft2[l] = aft[l]
      BY <1>5, <2>4
    <3>2. aft[l] \cap F = {} /\ aft[l] \cap T = {}
      <4>1. CASE l \in Headers
        BY <1>1, <1>3, <2>4, <4>1, LinkFacts
      <4>2. CASE l \in Objs
        <5>1. SUFFICES ASSUME aft[l] # {} PROVE aft[l] \cap F = {} /\ aft[l] \cap T = {}
          OBVIOUS
        <5>2. PICK h \in Headers : l \in aft[h]
          BY <1>3, <4>2, <5>1
        <5>3. h # "finobj" /\ h # "tobefnz" /\ h \in Links /\ aft[l] \subseteq aft[h]
          BY <1>1, <1>3, <2>4, <5>2, LinkFacts
        <5>4. aft[h] \cap aft["finobj"] = {} /\ aft[h] \cap aft["tobefnz"] = {}
          BY <1>3, <5>3, LinkFacts
        <5>5. QED
          BY <1>1, <5>3, <5>4
      <4>3. QED
        BY <4>1, <4>2, LinkFacts
    <3>3. nx[l] # Null => nx[l] \in aft[l] /\ aft2[nx[l]] = aft[nx[l]]
      <4>1. nx[l] # Null => nx[l] \in aft[l] /\ nx[l] \in Objs
        BY <1>3
      <4>2. QED
        BY <1>5, <3>2, <4>1
    <3>4. QED
      BY <1>3, <3>1, <3>3
  <2>5. QED
    BY <2>1, <2>2, <2>3, <2>4
<1>9. \A l \in Links : \A x \in aft2[l] :
        /\ l \in {"finobj"} \cup staying => x \in staying /\ x \in aft[l]
        /\ l \in dying => x \in dying /\ x \in aft[l]
        /\ l \in {"tobefnz"} \cup T => x \in dying \/ (x \in T /\ x \in aft[l])
        /\ l \notin {"finobj", "tobefnz"} \cup F \cup T => x \in aft[l] /\ x \notin F \cup T
  <2>1. \A l \in {"tobefnz"} \cup T : aft[l] \subseteq T
    BY <1>1
  <2>2. ASSUME NEW l \in Links, l \notin {"finobj", "tobefnz"} \cup F \cup T, NEW x \in aft[l] PROVE x \notin F \cup T
    <3>1. PICK h \in Headers : (l = h \/ l \in aft[h])
      BY <1>3, <2>2, LinkFacts
    <3>2. h # "finobj" /\ h # "tobefnz" /\ x \in aft[h]
      BY <1>1, <1>3, <2>2, <3>1, LinkFacts
    <3>3. QED
      BY <1>1, <1>3, <3>2, LinkFacts
  <2>3. QED
    BY <1>5, <2>1, <2>2
<1>10. \A x \in Objs : x \notin aft2[x]
  BY <1>3, <1>5, <1>9
<1>11. \A l \in Links : \A x \in aft2[l] : aft2[x] \subseteq aft2[l]
  <2>1. SUFFICES ASSUME NEW l \in Links, NEW x \in aft2[l] PROVE aft2[x] \subseteq aft2[l]
    OBVIOUS
  <2>2. x \in aft[l] => aft[x] \subseteq aft[l]
    BY <1>3
  <2>3. CASE l \in {"finobj"} \cup staying
    <3>1. x \in staying /\ x \in aft[l] /\ x \in Links
      BY <1>9, <2>3
    <3>2. aft2[l] = aft[l] \cap staying /\ aft2[x] = aft[x] \cap staying
      BY <1>5, <2>3, <3>1
    <3>3. QED
      BY <2>2, <3>1, <3>2
  <2>4. CASE l \in dying
    <3>1. x \in dying /\ x \in aft[l] /\ x \in Links
      BY <1>9, <2>4
    <3>2. aft2[l] = aft[l] \cap dying /\ aft2[x] = aft[x] \cap dying
      BY <1>5, <2>4, <3>1
    <3>3. QED
      BY <2>2, <3>1, <3>2
  <2>5. CASE l \in {"tobefnz"} \cup T
    <3>1. aft2[l] = aft[l] \cup dying
      BY <1>5, <2>5
    <3>2. CASE x \in dying
      <4>1. x \in Links /\ aft2[x] = aft[x] \cap dying
        BY <1>5, <3>2
      <4>2. QED
        BY <3>1, <4>1
    <3>3. CASE x \in T /\ x \in aft[l]
      <4>1. x \in Links /\ aft2[x] = aft[x] \cup dying
        BY <1>5, <3>3
      <4>2. QED
        BY <2>2, <3>1, <3>3, <4>1
    <3>4. QED
      BY <1>9, <2>5, <3>2, <3>3
  <2>6. CASE l \notin {"finobj", "tobefnz"} \cup F \cup T
    <3>1. x \in Objs /\ x \notin {"finobj", "tobefnz"} \cup F \cup T /\ x \in aft[l]
      BY <1>7, <1>9, <2>6
    <3>2. QED
      BY <1>5, <2>2, <2>6, <3>1
  <2>7. QED
    BY <2>3, <2>4, <2>5, <2>6
<1>12. \A l \in Links : \A x, y \in aft2[l] : x = y \/ x \in aft2[y] \/ y \in aft2[x]
  <2>1. SUFFICES ASSUME NEW l \in Links, NEW x \in aft2[l], NEW y \in aft2[l] PROVE x = y \/ x \in aft2[y] \/ y \in aft2[x]
    OBVIOUS
  <2>2. \A k \in Links : x \in aft[k] /\ y \in aft[k] => x = y \/ x \in aft[y] \/ y \in aft[x]
    BY <1>3
  <2>3. CASE l \in {"finobj"} \cup staying
    <3>1. x \in staying /\ x \in aft[l] /\ x \in Links /\ y \in staying /\ y \in aft[l] /\ y \in Links
      BY <1>9, <2>3
    <3>2. aft2[y] = aft[y] \cap staying /\ aft2[x] = aft[x] \cap staying
      BY <1>5, <3>1
    <3>3. QED
      BY <2>2, <3>1, <3>2
  <2>4. CASE l \in dying
    <3>1. x \in dying /\ x \in aft[l] /\ x \in Links /\ y \in dying /\ y \in aft[l] /\ y \in Links
      BY <1>9, <2>4
    <3>2. aft2[y] = aft[y] \cap dying /\ aft2[x] = aft[x] \cap dying
      BY <1>5, <3>1
    <3>3. QED
      BY <2>2, <3>1, <3>2
  <2>5. CASE l \in {"tobefnz"} \cup T
    <3>1. /\ x \in dying \/ (x \in T /\ x \in aft[l])
          /\ y \in dying \/ (y \in T /\ y \in aft[l])
          /\ x \in Links /\ y \in Links
      BY <1>7, <1>9, <2>5
    <3>2. \A z \in Links : (z \in dying => aft2[z] = aft[z] \cap dying) /\ (z \in T => aft2[z] = aft[z] \cup dying)
      BY <1>5
    <3>3. CASE x \in dying /\ y \in dying
      <4>1. x = y \/ x \in aft[y] \/ y \in aft[x]
        BY <1>1, <2>2, <3>3
      <4>2. QED
        BY <3>1, <3>2, <3>3, <4>1
    <3>4. CASE x \notin dying \/ y \notin dying
      BY <2>2, <3>1, <3>2, <3>4
    <3>5. QED
      BY <3>3, <3>4
  <2>6. CASE l \notin {"finobj", "tobefnz"} \cup F \cup T
    <3>1. x \in Objs /\ x \notin {"finobj", "tobefnz"} \cup F \cup T /\ x \in aft[l]
      BY <1>7, <1>9, <2>6
    <3>2. y \in Objs /\ y \notin {"finobj", "tobefnz"} \cup F \cup T /\ y \in aft[l]
      BY <1>7, <1>9, <2>6
    <3>3. QED
      BY <1>5, <2>2, <3>1, <3>2
  <2>7. QED
    BY <2>3, <2>4, <2>5, <2>6
<1>13. /\ aft2["finobj"] = staying /\ aft2["tobefnz"] = T \cup dying /\ aft2["allgc"] = aft["allgc"]
       /\ aft["allgc"] \cap F = {} /\ aft["allgc"] \cap T = {}
  BY <1>1, <1>3, <1>5, LinkFacts
<1>14. \A g, k \in Headers : g # k => aft2[g] \cap aft2[k] = {}
  BY <1>13 DEF Headers
<1>15. \A x \in Objs : (\A g \in Headers : x \notin aft2[g]) => aft2[x] = {}
  <2>1. ASSUME NEW x \in Objs, \A g \in Headers : x \notin aft2[g] PROVE aft2[x] = {}
    <3>1. x \notin F /\ x \notin T /\ x \notin aft["allgc"]
      BY <1>13, <2>1, LinkFacts
    <3>2. \A g \in Headers : x \notin aft[g]
      BY <1>1, <3>1 DEF Headers
    <3>3. QED
      BY <1>3, <1>5, <3>1, <3>2, LinkFacts
  <2>2. QED
    BY <2>1
<1>16. Ordered(nx2, aft2)
  BY <1>7, <1>8, <1>10, <1>11, <1>12, <1>14, <1>15 DEF Ordered
<1>17. QED
  BY <1>2, <1>16

-----------------------------------------------------------------------------
(* The operators of the specification in these terms.                      *)

\* The specification follows the links in the same way.
LEMMA AfterIs ==
  ASSUME NEW p, NEW S
  PROVE  /\ After(p) = Nth(next, p)
         /\ StepsTo(p, S) = Steps(next, p, S)
         /\ FirstIn(p, S) = First(next, p, S)
<1>1. After(p) = Nth(next, p)
  BY DEF After, Nth
<1>2. StepsTo(p, S) = Steps(next, p, S)
  BY <1>1 DEF StepsTo, Steps
<1>3. QED
  BY <1>1, <1>2 DEF FirstIn, First

\* In lists, the objects that are found within the bound are all there are.
LEMMA InListIs ==
  ASSUME NEW aft, Ordered(next, aft), NEW l \in Links
  PROVE  InList(l) = aft[l] /\ After(l)[Cardinality(Objs)] = Null
<1>1. PICK N, f : N = Cardinality(Objs) /\ f = Nth(next, l)
  OBVIOUS
<1>2. /\ \A i \in 0..N : f[i] = Null \/ f[i] \in aft[l]
      /\ \A x \in aft[l] : \E i \in 0..N : f[i] = x
      /\ f[N] = Null
  BY <1>1, Reach
<1>3. Null \notin aft[l]
  BY LinkFacts DEF Ordered
<1>4. f = After(l)
  BY <1>1, AfterIs
<1>5. InList(l) = {f[k] : k \in 0..N} \ {Null}
  BY <1>1, <1>4 DEF InList
<1>6. QED
  BY <1>1, <1>2, <1>3, <1>4, <1>5

-----------------------------------------------------------------------------
(* The inductive invariant.                                                *)

\* The objects the sweep of the present list has not passed.
ToSweep(aft) == IF sweepgc = Null THEN {} ELSE aft[sweepgc]

\* allgc has the allocated objects without FINALIZEDBIT, the others are the rest.
ListsInv(aft) ==
  /\ Ordered(next, aft)
  /\ aft["allgc"] = Allocated \ FINALIZEDBIT
  /\ FINALIZEDBIT = aft["finobj"] \cup aft["tobefnz"]
  /\ FINALIZEDBIT \subseteq Allocated
  /\ held \subseteq Allocated
  /\ ctl = "close" => aft["finobj"] \subseteq late

\* The sweep stands on the link of an allocated object, in the list it sweeps.
PositionInv(aft) ==
  /\ sweepgc \in Objs => sweepgc \in Allocated
  /\ gcstate = "swpallgc" /\ sweepgc # Null => sweepgc \in {"allgc"} \cup aft["allgc"]
  /\ gcstate = "swpfinobj" /\ sweepgc # Null /\ ctl # "close" =>
        sweepgc \in {"finobj"} \cup aft["finobj"]

\* Objects are dead only before the sweep of allgc has passed them.
DeadInv(aft) ==
  \A o \in Objs : Dead(o) => gcstate = "swpallgc" /\ o \in ToSweep(aft) /\ o \notin held

\* What the sweep has passed, or what came to be since, is white.
WhiteInv(aft) ==
  /\ gcstate = "swpallgc" => \A o \in aft["allgc"] \ ToSweep(aft) : color[o] = currentwhite
  /\ gcstate = "swpfinobj" =>
       \A o \in aft["allgc"] \cup (aft["finobj"] \ ToSweep(aft)) : color[o] = currentwhite
  /\ gcstate \in {"swptobefnz", "swpend"} =>
       \A o \in aft["allgc"] \cup aft["finobj"] : color[o] = currentwhite

\* All of it.
SweepInv(aft) == TypeOK /\ ListsInv(aft) /\ PositionInv(aft) /\ DeadInv(aft) /\ WhiteInv(aft)

\* What comes after any link is on a list.
LEMMA OnSomeList ==
  ASSUME NEW nx, NEW aft, Ordered(nx, aft), NEW l \in Links, NEW o \in aft[l]
  PROVE  \E h \in Headers : o \in aft[h]
<1>1. CASE l \in Headers
  BY <1>1
<1>2. CASE l \in Objs
  <2>1. PICK h \in Headers : l \in aft[h]
    BY <1>2 DEF Ordered
  <2>2. aft[l] \subseteq aft[h]
    BY <2>1, LinkFacts DEF Ordered
  <2>3. QED
    BY <2>2
<1>3. QED
  BY <1>1, <1>2, LinkFacts

\* What the invariant says in a form that is easy to use.
LEMMA InvFacts ==
  ASSUME NEW aft, SweepInv(aft)
  PROVE  /\ aft \in [Links -> SUBSET Objs] /\ next \in [Links -> Objs \cup {Null}]
         /\ color \in [Objs -> {"free", "w0", "w1", "marked"}]
         /\ Headers \subseteq Links /\ Objs \subseteq Links /\ Null \notin Links
         /\ aft["allgc"] \cap aft["finobj"] = {} /\ aft["allgc"] \cap aft["tobefnz"] = {}
         /\ aft["finobj"] \cap aft["tobefnz"] = {}
         /\ Allocated = aft["allgc"] \cup aft["finobj"] \cup aft["tobefnz"]
         /\ \A o \in Objs : o \in Allocated <=> color[o] # "free"
         /\ currentwhite # otherwhite /\ currentwhite \in {"w0", "w1"} /\ otherwhite \in {"w0", "w1"}
         /\ \A o \in Objs : Dead(o) <=> color[o] = otherwhite
         /\ sweepgc \in Links \cup {Null}
         /\ \A l \in Links : aft[l] \subseteq Allocated
         /\ ToSweep(aft) \subseteq Allocated /\ Allocated \subseteq Objs
<1>1. /\ aft \in [Links -> SUBSET Objs] /\ \A h, g \in Headers : h # g => aft[h] \cap aft[g] = {}
  BY DEF SweepInv, ListsInv, Ordered
<1>2. Allocated = aft["allgc"] \cup aft["finobj"] \cup aft["tobefnz"]
  BY DEF SweepInv, ListsInv
<1>3. \A l \in Links : aft[l] \subseteq Allocated
  <2>1. \A l \in Links : \A o \in aft[l] : \E h \in Headers : o \in aft[h]
    BY OnSomeList DEF SweepInv, ListsInv
  <2>2. QED
    BY <1>2, <2>1 DEF Headers
<1>4. sweepgc \in Links \cup {Null} /\ Allocated \subseteq Objs
  BY DEF SweepInv, TypeOK, Allocated
<1>5. ToSweep(aft) \subseteq Allocated
  BY <1>3, <1>4 DEF ToSweep
<1>6. QED
  BY <1>1, <1>2, <1>3, <1>4, <1>5, LinkFacts DEF SweepInv, TypeOK, Allocated, otherwhite, Dead

\* A new state has empty lists.
LEMMA InitInv ==
  ASSUME Init
  PROVE  SweepInv([l \in Links |-> {}])
<1>1. PICK aft : aft = [l \in Links |-> {}]
  OBVIOUS
<1>2. \A l \in Links : aft[l] = {} /\ next[l] = Null
  BY <1>1 DEF Init
<1>3. TypeOK
  BY FinnumAssumption, LinkFacts DEF Init, TypeOK
<1>4. Ordered(next, aft)
  <2>1. next \in [Links -> Objs \cup {Null}] /\ aft \in [Links -> SUBSET Objs]
    BY <1>1 DEF Init
  <2>2. QED
    BY <1>2, <2>1, LinkFacts DEF Ordered
<1>5. Allocated = {} /\ \A o \in Objs : ~Dead(o)
  BY DEF Init, Allocated, Dead, otherwhite
<1>6. ListsInv(aft)
  BY <1>2, <1>4, <1>5, LinkFacts DEF ListsInv, Init
<1>7. SweepInv(aft)
  BY <1>2, <1>3, <1>5, <1>6, LinkFacts DEF SweepInv, PositionInv, DeadInv, WhiteInv, Init
<1>8. QED
  BY <1>1, <1>7

\* A new object is the first of allgc, and has the current white.
LEMMA NewObjInv ==
  ASSUME NEW aft, SweepInv(aft), NEW o \in Objs, luaC_newobj(o)
  PROVE  SweepInv(PushedAft(aft, "allgc", o))'
<1>1. PICK aft2 : aft2 = PushedAft(aft, "allgc", o)
  OBVIOUS
<1>2. /\ aft \in [Links -> SUBSET Objs] /\ next \in [Links -> Objs \cup {Null}]
      /\ color \in [Objs -> {"free", "w0", "w1", "marked"}]
      /\ Headers \subseteq Links /\ Objs \subseteq Links /\ Null \notin Links
      /\ Allocated = aft["allgc"] \cup aft["finobj"] \cup aft["tobefnz"]
      /\ \A x \in Objs : x \in Allocated <=> color[x] # "free"
      /\ currentwhite # otherwhite /\ currentwhite \in {"w0", "w1"}
      /\ sweepgc \in Links \cup {Null}
  BY InvFacts
<1>3. o \notin Allocated /\ color[o] = "free" /\ o \in Links
  BY <1>2 DEF luaC_newobj
<1>4. /\ color' = [color EXCEPT ![o] = currentwhite] /\ next' = Pushed(next, "allgc", o)
      /\ held' = held \cup {o}
      /\ UNCHANGED <<gcstate, sweepgc, currentwhite, FINALIZEDBIT, gcfinnum, ctl, called, late>>
  BY DEF luaC_newobj, Pushed
<1>5. Ordered(next', aft2)
  BY <1>1, <1>2, <1>3, <1>4, PushOrdered, LinkFacts DEF SweepInv, ListsInv, Headers
<1>6. /\ color'[o] = currentwhite /\ \A x \in Objs : x # o => color'[x] = color[x]
      /\ Allocated' = Allocated \cup {o} /\ otherwhite' = otherwhite
  BY <1>2, <1>4 DEF Allocated, otherwhite
<1>7. /\ aft2["allgc"] = aft["allgc"] \cup {o}
      /\ aft2["finobj"] = aft["finobj"] /\ aft2["tobefnz"] = aft["tobefnz"]
      /\ \A l \in Links : l # o /\ l # "allgc" => aft2[l] = aft[l]
  BY <1>1, <1>2, <1>3, LinkFacts DEF PushedAft
<1>8. TypeOK'
  BY <1>2, <1>4, <1>5, <1>6 DEF SweepInv, TypeOK, Ordered
<1>9. ListsInv(aft2)'
  BY <1>2, <1>3, <1>4, <1>5, <1>6, <1>7 DEF SweepInv, ListsInv
<1>10. sweepgc # o
  BY <1>3 DEF SweepInv, PositionInv
<1>11. ToSweep(aft2)' \cup {o} = ToSweep(aft) \cup {o} /\ o \notin ToSweep(aft) /\ ToSweep(aft) \subseteq ToSweep(aft2)'
  <2>1. o \notin ToSweep(aft)
    BY <1>3, InvFacts
  <2>2. QED
    BY <1>2, <1>4, <1>7, <1>10, <2>1 DEF ToSweep
<1>12. PositionInv(aft2)'
  BY <1>2, <1>4, <1>6, <1>7 DEF SweepInv, PositionInv
<1>13. DeadInv(aft2)'
  BY <1>2, <1>4, <1>6, <1>11 DEF SweepInv, DeadInv, Dead
<1>14. WhiteInv(aft2)'
  BY <1>2, <1>3, <1>4, <1>6, <1>7, <1>11 DEF SweepInv, WhiteInv
<1>15. SweepInv(aft2)'
  BY <1>8, <1>9, <1>12, <1>13, <1>14 DEF SweepInv
<1>16. QED
  BY <1>1, <1>15

\* Nothing changes but who runs.
LEMMA ControlInv ==
  ASSUME NEW aft, SweepInv(aft), TypeOK', ctl' = "close" <=> ctl = "close",
         UNCHANGED <<gcstate, sweepgc, next, color, currentwhite, FINALIZEDBIT, held, late>>
  PROVE  SweepInv(aft)'
<1>1. ListsInv(aft)'
  BY DEF SweepInv, ListsInv, Allocated
<1>2. PositionInv(aft)'
  BY DEF SweepInv, PositionInv, Allocated
<1>3. DeadInv(aft)'
  BY DEF SweepInv, DeadInv, Dead, otherwhite, ToSweep
<1>4. WhiteInv(aft)'
  BY DEF SweepInv, WhiteInv, ToSweep
<1>5. QED
  BY <1>1, <1>2, <1>3, <1>4 DEF SweepInv

\* The program drops an object.
LEMMA DropInv ==
  ASSUME NEW aft, SweepInv(aft), NEW o \in Objs, Drop(o)
  PROVE  SweepInv(aft)'
<1>1. /\ held' = held \ {o}
      /\ UNCHANGED <<gcstate, sweepgc, next, color, currentwhite, FINALIZEDBIT, gcfinnum, ctl,
                     called, late>>
  BY DEF Drop
<1>2. TypeOK'
  BY <1>1 DEF SweepInv, TypeOK
<1>3. ListsInv(aft)'
  BY <1>1 DEF SweepInv, ListsInv, Allocated
<1>4. PositionInv(aft)'
  BY <1>1 DEF SweepInv, PositionInv, Allocated
<1>5. DeadInv(aft)'
  BY <1>1 DEF SweepInv, DeadInv, Dead, otherwhite, ToSweep
<1>6. WhiteInv(aft)'
  BY <1>1 DEF SweepInv, WhiteInv, ToSweep
<1>7. QED
  BY <1>2, <1>3, <1>4, <1>5, <1>6 DEF SweepInv

\* A step that marks, or none of color, outside the sweep.
LEMMA MarkInv ==
  ASSUME NEW aft, SweepInv(aft), gcstate # "swpallgc",
         gcstate' \in {"pause", "propagate", "callfin"}, ctl # "close", ctl' = "step",
         color' \in [Objs -> {"free", "w0", "w1", "marked"}],
         \A o \in Objs : color'[o] = color[o] \/ (color[o] # "free" /\ color'[o] = "marked"),
         UNCHANGED <<sweepgc, next, currentwhite, FINALIZEDBIT, gcfinnum, held, called, late>>
  PROVE  SweepInv(aft)'
<1>1. Allocated' = Allocated /\ otherwhite' = otherwhite /\ otherwhite \in {"w0", "w1"}
  BY DEF Allocated, otherwhite
<1>2. TypeOK'
  BY DEF SweepInv, TypeOK
<1>3. ListsInv(aft)'
  BY <1>1 DEF SweepInv, ListsInv
<1>4. PositionInv(aft)'
  BY <1>1 DEF SweepInv, PositionInv
<1>5. DeadInv(aft)'
  BY <1>1 DEF SweepInv, DeadInv, Dead
<1>6. WhiteInv(aft)'
  BY DEF WhiteInv
<1>7. QED
  BY <1>2, <1>3, <1>4, <1>5, <1>6 DEF SweepInv

\* restartcollection.
LEMMA PauseInv ==
  ASSUME NEW aft, SweepInv(aft), Pause, ctl # "close", ctl' = "step"
  PROVE  SweepInv(aft)'
<1>1. InList("tobefnz") \subseteq Allocated
  BY InvFacts, InListIs, LinkFacts DEF SweepInv, ListsInv
<1>2. \A o \in Objs : color'[o] = color[o] \/ (color[o] # "free" /\ color'[o] = "marked")
  BY <1>1 DEF Pause, Allocated
<1>3. color' \in [Objs -> {"free", "w0", "w1", "marked"}]
  BY InvFacts DEF Pause
<1>4. QED
  BY <1>2, <1>3, MarkInv DEF Pause

\* propagatemark.
LEMMA PropagateInv ==
  ASSUME NEW aft, SweepInv(aft), NEW o \in Objs, Propagate(o), ctl # "close", ctl' = "step"
  PROVE  SweepInv(aft)'
<1>1. color[o] # "free"
  BY DEF Propagate, SweepInv, ListsInv, Allocated
<1>2. /\ \A x \in Objs : color'[x] = color[x] \/ (color[x] # "free" /\ color'[x] = "marked")
      /\ color' \in [Objs -> {"free", "w0", "w1", "marked"}]
  BY <1>1, InvFacts DEF Propagate
<1>3. QED
  BY <1>2, MarkInv DEF Propagate

\* The steps GCSswpend, and GCScallfin without objects to finalize.
LEMMA SweepEndInv ==
  ASSUME NEW aft, SweepInv(aft), SweepEnd \/ CycleEnds, ctl # "close", ctl' = "step"
  PROVE  SweepInv(aft)'
<1>1. /\ gcstate # "swpallgc" /\ gcstate' \in {"pause", "propagate", "callfin"}
      /\ UNCHANGED <<sweepgc, next, color, currentwhite, FINALIZEDBIT, gcfinnum, held, called, late>>
  BY DEF SweepEnd, CycleEnds
<1>2. color' \in [Objs -> {"free", "w0", "w1", "marked"}]
  BY <1>1, InvFacts
<1>3. QED
  BY <1>1, <1>2, MarkInv

-----------------------------------------------------------------------------
(* The sweep.                                                              *)

\* What sweeping on from link p does: dead objects after p are freed, and those
\* that are not after the new position are white.
Sweeps(aft, p, s, freed) ==
  /\ freed \subseteq aft[p] /\ \A o \in freed : Dead(o)
  /\ Ordered(s.next, Without(aft, freed))
  /\ s.color \in [Objs -> {"free", "w0", "w1", "marked"}]
  /\ \A o \in freed : s.color[o] = "free"
  /\ \A o \in Objs \ freed : s.color[o] = color[o] \/ (s.color[o] = currentwhite /\ color[o] # "free")
  /\ s.pos = Null \/ s.pos = p \/ s.pos \in aft[p] \ freed
  /\ \A o \in aft[p] \ freed :
        s.color[o] = currentwhite \/ (s.pos # Null /\ o \in Without(aft, freed)[s.pos])

\* sweeplist with a count of one sweeps in this sense.
LEMMA SweepOneSweeps ==
  ASSUME NEW aft, SweepInv(aft), NEW p \in Links
  PROVE  \E freed : Sweeps(aft, p, SweepOne(p), freed)
<1>1. PICK s, c : s = SweepOne(p) /\ c = next[p]
  OBVIOUS
<1>2. /\ aft \in [Links -> SUBSET Objs] /\ next \in [Links -> Objs \cup {Null}]
      /\ color \in [Objs -> {"free", "w0", "w1", "marked"}]
      /\ Objs \subseteq Links /\ Null \notin Links /\ currentwhite \in {"w0", "w1"}
      /\ \A l \in Links : aft[l] \subseteq Allocated
      /\ \A o \in Objs : o \in Allocated <=> color[o] # "free"
      /\ Ordered(next, aft)
  BY InvFacts DEF SweepInv, ListsInv
<1>3. /\ \A l \in Links : next[l] = Null => aft[l] = {}
      /\ \A l \in Links : next[l] # Null => aft[l] = {next[l]} \cup aft[next[l]]
      /\ \A x \in Objs : x \notin aft[x]
  BY <1>2 DEF Ordered
<1>4. Without(aft, {}) = aft
  BY <1>2 DEF Without
<1>5. CASE c = Null
  <2>1. s = [next |-> next, color |-> color, pos |-> Null]
    BY <1>1, <1>5 DEF SweepOne
  <2>2. s.next = next /\ s.color = color /\ s.pos = Null /\ aft[p] = {}
    <3>1. next[p] = Null
      BY <1>1, <1>5
    <3>2. aft[p] = {}
      BY <1>3, <3>1
    <3>3. QED
      BY <2>1, <3>2
  <2>3. Ordered(s.next, Without(aft, {}))
    BY <1>2, <1>4, <2>2
  <2>4. Sweeps(aft, p, s, {})
    BY <1>2, <2>2, <2>3 DEF Sweeps
  <2>5. QED
    BY <1>1, <2>4
<1>6. CASE c # Null /\ ~Dead(c)
  <2>1. s = [next |-> next, color |-> [color EXCEPT ![c] = currentwhite], pos |-> IF next[c] = Null THEN Null ELSE c]
    BY <1>1, <1>6 DEF SweepOne
  <2>2. c \in Objs /\ c \in Links /\ c \in aft[p] /\ aft[p] = {c} \cup aft[c] /\ color[c] # "free"
    BY <1>1, <1>2, <1>3, <1>6
  <2>3. \A o \in aft[p] \ {} : s.color[o] = currentwhite \/ (s.pos # Null /\ o \in Without(aft, {})[s.pos])
    BY <1>2, <1>3, <1>4, <2>1, <2>2
  <2>4. Sweeps(aft, p, s, {})
    BY <1>2, <1>4, <2>1, <2>2, <2>3 DEF Sweeps
  <2>5. QED
    BY <1>1, <2>4
<1>7. CASE c # Null /\ Dead(c)
  <2>1. s = [next |-> [next EXCEPT ![p] = next[c], ![c] = Null], color |-> [color EXCEPT ![c] = "free"],
             pos |-> IF [next EXCEPT ![p] = next[c], ![c] = Null][p] = Null THEN Null ELSE p]
    BY <1>1, <1>7 DEF SweepOne
  <2>2. c \in Objs /\ c \in Links /\ c \in aft[p] /\ aft[p] = {c} \cup aft[c] /\ c # p
    BY <1>1, <1>2, <1>3, <1>7
  <2>3. [next EXCEPT ![p] = next[c], ![c] = Null][p] = next[c]
    BY <1>2, <2>2
  <2>4. Ordered(s.next, Without(aft, {c}))
    <3>1. Ordered([next EXCEPT ![p] = next[c], ![c] = Null], Without(aft, {c}))
      BY <1>1, <1>2, <2>2, UnlinkOrdered
    <3>2. QED
      BY <2>1, <3>1
  <2>5. Without(aft, {c})[p] = aft[p] \ {c}
    BY <2>2 DEF Without
  <2>6. \A o \in aft[p] \ {c} : s.pos # Null /\ o \in Without(aft, {c})[s.pos]
    BY <1>2, <1>3, <2>1, <2>2, <2>3, <2>5
  <2>7. Sweeps(aft, p, s, {c})
    BY <1>2, <1>7, <2>1, <2>2, <2>4, <2>6 DEF Sweeps
  <2>8. QED
    BY <1>1, <2>7
<1>8. QED
  BY <1>5, <1>6, <1>7

\* So does sweeptolive, which ends on another link.
LEMMA SweepToLiveSweeps ==
  ASSUME NEW aft, SweepInv(aft), NEW p \in Links
  PROVE  \E freed : /\ Sweeps(aft, p, SweepToLive(p), freed)
                    /\ SweepToLive(p).pos = Null \/ SweepToLive(p).pos \in aft[p] \ freed
<1>1. PICK s, alive, live, gone : s = SweepToLive(p) /\ alive = {o \in Objs : ~Dead(o)}
                                  /\ live = First(next, p, alive) /\ gone = Passed(next, p, alive)
  OBVIOUS
<1>2. PICK nx : nx = [l \in Links |-> IF l = p THEN live ELSE IF l \in gone THEN Null ELSE next[l]]
  OBVIOUS
<1>3. /\ aft \in [Links -> SUBSET Objs] /\ next \in [Links -> Objs \cup {Null}]
      /\ color \in [Objs -> {"free", "w0", "w1", "marked"}]
      /\ Objs \subseteq Links /\ Null \notin Links /\ currentwhite \in {"w0", "w1"}
      /\ \A l \in Links : aft[l] \subseteq Allocated
      /\ \A o \in Objs : o \in Allocated <=> color[o] # "free"
      /\ Ordered(next, aft)
  BY InvFacts DEF SweepInv, ListsInv
<1>4. /\ gone \subseteq aft[p] /\ gone \cap alive = {}
      /\ live = Null => gone = aft[p]
      /\ live # Null => live \in alive /\ live \in aft[p] /\ aft[p] \ gone = {live} \cup (aft[live] \ gone)
      /\ Ordered(nx, Without(aft, gone))
  <2>1. Ordered(next, aft) /\ p \in Links /\ live = First(next, p, alive) /\ gone = Passed(next, p, alive)
    BY <1>1, <1>3
  <2>2. /\ gone \subseteq aft[p] /\ gone \cap alive = {}
        /\ live = Null => gone = aft[p] /\ aft[p] \cap alive = {}
        /\ live # Null => live \in alive /\ live \in aft[p] /\ aft[p] \ gone = {live} \cup (aft[live] \ gone)
        /\ Ordered([l \in Links |-> IF l = p THEN live ELSE IF l \in gone THEN Null ELSE next[l]],
                    Without(aft, gone))
    BY ONLY <2>1, CutOrdered
  <2>3. QED
    BY <1>2, <2>2
<1>5. gone = {After(p)[k] : k \in 0..(StepsTo(p, alive) - 1)} /\ live = FirstIn(p, alive)
  BY <1>1, AfterIs DEF Passed
<1>6. s = [next |-> nx,
           color |-> [o \in Objs |-> IF o \in gone THEN "free"
                                ELSE IF o = live THEN currentwhite ELSE color[o]],
           pos |-> IF live = Null \/ nx[live] = Null THEN Null ELSE live]
  BY <1>1, <1>2, <1>5 DEF SweepToLive
<1>7. \A o \in gone : o \in Objs /\ Dead(o)
  BY <1>1, <1>3, <1>4
<1>8. live # Null => live \in Objs /\ live \in Links /\ live \notin gone /\ color[live] # "free"
  BY <1>3, <1>4
<1>9. \A o \in aft[p] \ gone : s.color[o] = currentwhite \/ (s.pos # Null /\ o \in Without(aft, gone)[s.pos])
  <2>1. SUFFICES ASSUME NEW o \in aft[p] \ gone, o # live
                 PROVE  s.pos # Null /\ o \in Without(aft, gone)[s.pos]
    BY <1>3, <1>6
  <2>2. live # Null /\ o \in aft[live] \ gone
    BY <1>4, <2>1
  <2>3. Without(aft, gone)[live] = aft[live] \ gone
    BY <1>8, <2>2 DEF Without
  <2>4. nx[live] # Null
    BY <1>4, <1>8, <2>2, <2>3 DEF Ordered
  <2>5. QED
    BY <1>3, <1>6, <2>2, <2>3, <2>4
<1>10. /\ s.color \in [Objs -> {"free", "w0", "w1", "marked"}]
       /\ \A o \in gone : s.color[o] = "free"
       /\ \A o \in Objs \ gone : s.color[o] = color[o] \/ (s.color[o] = currentwhite /\ color[o] # "free")
  <2>1. s.color = [o \in Objs |-> IF o \in gone THEN "free" ELSE IF o = live THEN currentwhite ELSE color[o]]
    BY <1>6
  <2>2. QED
    BY <1>3, <1>7, <1>8, <2>1, LinkFacts
<1>11. s.pos = Null \/ s.pos \in aft[p] \ gone
  BY <1>4, <1>6, <1>8
<1>12. s.next = nx
  BY <1>6
<1>13. Sweeps(aft, p, s, gone)
  BY <1>4, <1>7, <1>9, <1>10, <1>11, <1>12 DEF Sweeps
<1>14. QED
  BY <1>1, <1>11, <1>13

\* What is still before the sweep when its position becomes pos.
Before(aft, pos) == IF pos = Null THEN {} ELSE aft[pos]

\* The invariant after sweeping on from p, where the sweep is or begins.
LEMMA SweepsFacts ==
  ASSUME NEW aft, SweepInv(aft), NEW p \in Links, NEW s, NEW freed, Sweeps(aft, p, s, freed),
         NEW aft2, aft2 = Without(aft, freed)
  PROVE  /\ freed \subseteq Objs /\ \A o \in freed : Dead(o) /\ o \in aft[p]
         /\ freed # {} => gcstate = "swpallgc" /\ freed \subseteq ToSweep(aft)
         /\ freed \cap FINALIZEDBIT = {} /\ freed \cap held = {}
         /\ {o \in Objs : s.color[o] # "free"} = Allocated \ freed
         /\ aft2["allgc"] = aft["allgc"] \ freed
         /\ aft2["finobj"] = aft["finobj"] /\ aft2["tobefnz"] = aft["tobefnz"]
         /\ \A o \in Objs : s.color[o] = otherwhite =>
              Dead(o) /\ o \notin freed /\ (o \notin aft[p] \/ o \in Before(aft2, s.pos))
         /\ \A o \in Objs \ freed : color[o] = currentwhite => s.color[o] = currentwhite
         /\ \A o \in aft[p] \ (freed \cup Before(aft2, s.pos)) : s.color[o] = currentwhite
         /\ s.pos \in Links \cup {Null}
<1>1. /\ aft \in [Links -> SUBSET Objs] /\ Headers \subseteq Links /\ Objs \subseteq Links
      /\ color \in [Objs -> {"free", "w0", "w1", "marked"}]
      /\ Allocated = aft["allgc"] \cup aft["finobj"] \cup aft["tobefnz"]
      /\ aft["allgc"] \cap aft["finobj"] = {} /\ aft["allgc"] \cap aft["tobefnz"] = {}
      /\ \A o \in Objs : o \in Allocated <=> color[o] # "free"
      /\ currentwhite # otherwhite /\ currentwhite \in {"w0", "w1"} /\ otherwhite \in {"w0", "w1"}
      /\ \A o \in Objs : Dead(o) <=> color[o] = otherwhite
      /\ ToSweep(aft) \subseteq Allocated /\ Allocated \subseteq Objs
      /\ \A l \in Links : aft[l] \subseteq Allocated
  BY InvFacts
<1>2. /\ freed \subseteq aft[p] /\ \A o \in freed : Dead(o)
      /\ \A o \in freed : s.color[o] = "free"
      /\ \A o \in Objs \ freed : s.color[o] = color[o] \/ (s.color[o] = currentwhite /\ color[o] # "free")
      /\ s.pos = Null \/ s.pos = p \/ s.pos \in aft[p] \ freed
      /\ \A o \in aft[p] \ freed : s.color[o] = currentwhite \/ (s.pos # Null /\ o \in aft2[s.pos])
  BY DEF Sweeps
<1>3. freed \subseteq Objs /\ \A o \in freed : o \in Allocated
  BY <1>1, <1>2
<1>4. \A o \in freed : gcstate = "swpallgc" /\ o \in ToSweep(aft) /\ o \notin held
  BY <1>2, <1>3 DEF SweepInv, DeadInv
<1>5. freed \cap FINALIZEDBIT = {}
  <2>1. ASSUME NEW o \in freed PROVE o \in aft["allgc"]
    <3>1. /\ gcstate = "swpallgc" /\ sweepgc # Null /\ o \in aft[sweepgc]
          /\ sweepgc \in {"allgc"} \cup aft["allgc"]
      BY <1>4 DEF ToSweep, SweepInv, PositionInv
    <3>2. \A x \in aft["allgc"] : aft[x] \subseteq aft["allgc"]
      BY <1>1, LinkFacts DEF SweepInv, ListsInv, Ordered
    <3>3. QED
      BY <3>1, <3>2
  <2>2. QED
    BY <2>1 DEF SweepInv, ListsInv
<1>6. {o \in Objs : s.color[o] # "free"} = Allocated \ freed
  BY <1>1, <1>2, <1>3
<1>7. /\ aft2["allgc"] = aft["allgc"] \ freed
      /\ aft2["finobj"] = aft["finobj"] \ freed /\ aft2["tobefnz"] = aft["tobefnz"] \ freed
  BY <1>1, <1>3, LinkFacts DEF Without
<1>8. aft2["finobj"] = aft["finobj"] /\ aft2["tobefnz"] = aft["tobefnz"]
  BY <1>5, <1>7 DEF SweepInv, ListsInv
<1>9. \A o \in Objs : s.color[o] = otherwhite =>
              Dead(o) /\ o \notin freed /\ (o \notin aft[p] \/ o \in Before(aft2, s.pos))
  BY <1>1, <1>2 DEF Before
<1>10. \A o \in Objs \ freed : color[o] = currentwhite => s.color[o] = currentwhite
  BY <1>2
<1>11. \A o \in aft[p] \ (freed \cup Before(aft2, s.pos)) : s.color[o] = currentwhite
  BY <1>2 DEF Before
<1>12. s.pos \in Links \cup {Null}
  BY <1>1, <1>2
<1>13. /\ freed \subseteq Objs /\ \A o \in freed : Dead(o) /\ o \in aft[p]
       /\ freed # {} => gcstate = "swpallgc" /\ freed \subseteq ToSweep(aft)
       /\ freed \cap held = {}
  BY <1>2, <1>3, <1>4
<1>14. QED
  BY <1>5, <1>6, <1>7, <1>8, <1>9, <1>10, <1>11, <1>12, <1>13

\* The sweep stays where it is, or goes on in the next list.
LEMMA SweptInv ==
  ASSUME NEW aft, SweepInv(aft), sweepgc # Null,
         NEW s, NEW freed, Sweeps(aft, sweepgc, s, freed),
         NEW state, NEW nextstate, NEW nextlist,
         <<state, nextstate, nextlist>> \in {<<"swpallgc", "swpfinobj", "finobj">>,
            <<"swpfinobj", "swptobefnz", "tobefnz">>, <<"swptobefnz", "swpend", Null>>},
         gcstate = state, next' = s.next, color' = s.color,
         gcstate' = IF s.pos # Null THEN gcstate ELSE nextstate,
         sweepgc' = IF s.pos # Null THEN s.pos ELSE nextlist,
         ctl # "close", ctl' = "step",
         UNCHANGED <<currentwhite, FINALIZEDBIT, gcfinnum, held, called, late>>
  PROVE  SweepInv(Without(aft, freed))'
<1>1. PICK aft2 : aft2 = Without(aft, freed)
  OBVIOUS
<1>2. sweepgc \in Links /\ ToSweep(aft) = aft[sweepgc]
  BY DEF SweepInv, TypeOK, ToSweep
<1>3. /\ freed \subseteq Objs /\ \A o \in freed : Dead(o) /\ o \in aft[sweepgc]
      /\ freed # {} => gcstate = "swpallgc" /\ freed \subseteq ToSweep(aft)
      /\ freed \cap FINALIZEDBIT = {} /\ freed \cap held = {}
      /\ {o \in Objs : s.color[o] # "free"} = Allocated \ freed
      /\ aft2["allgc"] = aft["allgc"] \ freed
      /\ aft2["finobj"] = aft["finobj"] /\ aft2["tobefnz"] = aft["tobefnz"]
      /\ \A o \in Objs : s.color[o] = otherwhite =>
           Dead(o) /\ o \notin freed /\ (o \notin aft[sweepgc] \/ o \in Before(aft2, s.pos))
      /\ \A o \in Objs \ freed : color[o] = currentwhite => s.color[o] = currentwhite
      /\ \A o \in aft[sweepgc] \ (freed \cup Before(aft2, s.pos)) : s.color[o] = currentwhite
      /\ s.pos \in Links \cup {Null}
  BY <1>1, <1>2, SweepsFacts
<1>4. /\ Headers \subseteq Links /\ Objs \subseteq Links /\ Null \notin Links
      /\ aft \in [Links -> SUBSET Objs]
      /\ Allocated = aft["allgc"] \cup aft["finobj"] \cup aft["tobefnz"] /\ Allocated \subseteq Objs
      /\ \A l \in Links : aft[l] \subseteq Allocated
      /\ aft["finobj"] \cup aft["tobefnz"] = FINALIZEDBIT
  BY InvFacts DEF SweepInv, ListsInv
<1>5. Allocated' = Allocated \ freed /\ otherwhite' = otherwhite
  BY <1>3 DEF Allocated, otherwhite
<1>6. Ordered(next', aft2) /\ color' \in [Objs -> {"free", "w0", "w1", "marked"}]
  BY <1>1 DEF Sweeps
<1>7. TypeOK'
  BY <1>3, <1>4, <1>6, LinkFacts DEF SweepInv, TypeOK, Ordered, Headers
<1>8. ListsInv(aft2)'
  BY <1>3, <1>5, <1>6 DEF SweepInv, ListsInv
<1>9. s.pos = Null \/ s.pos = sweepgc \/ s.pos \in aft[sweepgc] \ freed
  BY DEF Sweeps
<1>10. \A l \in Links : \A o \in aft[l] : aft[o] \subseteq aft[l]
  BY DEF SweepInv, ListsInv, Ordered
<1>11. PositionInv(aft2)'
  <2>1. sweepgc' \in Objs => sweepgc' \in Allocated'
    <3>1. SUFFICES ASSUME sweepgc' \in Objs PROVE sweepgc' \in Allocated'
      OBVIOUS
    <3>2. s.pos # Null /\ sweepgc' = s.pos
      BY <3>1, LinkFacts
    <3>3. s.pos = sweepgc => sweepgc \in Allocated /\ sweepgc \notin freed
      <4>1. sweepgc \in Objs => sweepgc \notin aft[sweepgc]
        BY DEF SweepInv, ListsInv, Ordered
      <4>2. QED
        BY <1>3, <3>1, <3>2, <4>1 DEF SweepInv, PositionInv
    <3>4. QED
      BY <1>2, <1>4, <1>5, <1>9, <3>2, <3>3
  <2>2. ASSUME gcstate' = "swpallgc" PROVE sweepgc' \in {"allgc"} \cup aft2["allgc"]
    <3>1. gcstate = "swpallgc" /\ s.pos # Null /\ sweepgc' = s.pos
      BY <2>2
    <3>2. sweepgc \in {"allgc"} \cup aft["allgc"]
      BY <3>1 DEF SweepInv, PositionInv
    <3>3. aft[sweepgc] \subseteq aft["allgc"]
      BY <1>4, <1>10, <3>2, LinkFacts
    <3>4. sweepgc \in Objs => sweepgc \notin freed
      BY <1>3 DEF SweepInv, ListsInv, Ordered
    <3>5. QED
      BY <1>3, <1>4, <1>9, <3>1, <3>2, <3>3, <3>4
  <2>3. ASSUME gcstate' = "swpfinobj", sweepgc' # Null PROVE sweepgc' \in {"finobj"} \cup aft2["finobj"]
    <3>1. CASE s.pos = Null
      BY <2>3, <3>1
    <3>2. CASE s.pos # Null
      <4>1. gcstate = "swpfinobj" /\ sweepgc' = s.pos
        BY <2>3, <3>2
      <4>2. sweepgc \in {"finobj"} \cup aft["finobj"]
        BY <4>1 DEF SweepInv, PositionInv
      <4>3. aft[sweepgc] \subseteq aft["finobj"]
        BY <1>4, <1>10, <4>2, LinkFacts
      <4>4. QED
        BY <1>3, <1>9, <3>2, <4>1, <4>2, <4>3
    <3>3. QED
      BY <3>1, <3>2
  <2>4. QED
    BY <2>1, <2>2, <2>3 DEF PositionInv
<1>12. Before(aft2, s.pos) = IF s.pos = Null THEN {} ELSE aft2[s.pos]
  BY DEF Before
<1>13. s.pos # Null => ToSweep(aft2)' = Before(aft2, s.pos)
  BY <1>12 DEF ToSweep
<1>14. DeadInv(aft2)'
  <2>1. SUFFICES ASSUME NEW o \in Objs, color'[o] = otherwhite
                 PROVE  gcstate' = "swpallgc" /\ o \in ToSweep(aft2)' /\ o \notin held
    BY <1>5 DEF DeadInv, Dead
  <2>2. Dead(o) /\ o \notin freed /\ (o \notin aft[sweepgc] \/ o \in Before(aft2, s.pos))
    BY <1>3, <2>1
  <2>3. gcstate = "swpallgc" /\ o \in aft[sweepgc] /\ o \notin held
    BY <1>2, <2>2 DEF SweepInv, DeadInv
  <2>4. s.pos # Null
    BY <1>12, <2>2, <2>3
  <2>5. QED
    BY <1>13, <2>2, <2>3, <2>4
<1>15. WhiteInv(aft2)'
  <2>1. \A o \in Objs \ (freed \cup Before(aft2, s.pos)) :
           o \in aft[sweepgc] \/ color[o] = currentwhite => color'[o] = currentwhite
    BY <1>3
  <2>2. CASE gcstate = "swpallgc"
    <3>1. \A o \in aft["allgc"] : o \in aft[sweepgc] \/ color[o] = currentwhite
      BY <1>2, <2>2 DEF SweepInv, WhiteInv
    <3>2. \A o \in aft2["allgc"] \ Before(aft2, s.pos) : color'[o] = currentwhite
      BY <1>3, <1>4, <2>1, <3>1
    <3>3. CASE s.pos # Null
      BY <1>13, <2>2, <3>2, <3>3 DEF WhiteInv
    <3>4. CASE s.pos = Null
      <4>1. gcstate' = "swpfinobj" /\ sweepgc' = "finobj"
        BY <2>2, <3>4
      <4>2. ToSweep(aft2)' = aft2["finobj"]
        BY <4>1, NullAssumption DEF ToSweep
      <4>3. \A o \in aft2["allgc"] : color'[o] = currentwhite
        BY <1>12, <3>2, <3>4
      <4>4. QED
        BY <4>1, <4>2, <4>3 DEF WhiteInv
    <3>5. QED
      BY <3>3, <3>4
  <2>3. CASE gcstate = "swpfinobj"
    <3>1. \A o \in aft["allgc"] \cup aft["finobj"] : o \in aft[sweepgc] \/ color[o] = currentwhite
      BY <1>2, <2>3 DEF SweepInv, WhiteInv
    <3>2. freed = {}
      BY <1>3, <2>3
    <3>3. \A o \in aft["allgc"] : color'[o] = currentwhite
      BY <1>3, <1>4, <2>3, <3>2 DEF SweepInv, WhiteInv
    <3>4. \A o \in aft2["finobj"] \ Before(aft2, s.pos) : color'[o] = currentwhite
      BY <1>3, <1>4, <2>1, <3>1, <3>2
    <3>5. CASE s.pos # Null
      BY <1>3, <1>13, <2>3, <3>2, <3>3, <3>4, <3>5 DEF WhiteInv
    <3>6. CASE s.pos = Null
      <4>1. gcstate' = "swptobefnz" /\ Before(aft2, s.pos) = {}
        BY <1>12, <2>3, <3>6
      <4>2. QED
        BY <1>3, <3>2, <3>3, <3>4, <4>1 DEF WhiteInv
    <3>7. QED
      BY <3>5, <3>6
  <2>4. CASE gcstate = "swptobefnz"
    <3>1. freed = {} /\ gcstate' \in {"swptobefnz", "swpend"}
      BY <1>3, <2>4
    <3>2. \A o \in aft["allgc"] \cup aft["finobj"] : color'[o] = currentwhite
      BY <1>3, <1>4, <2>4, <3>1 DEF SweepInv, WhiteInv
    <3>3. QED
      BY <1>3, <3>1, <3>2 DEF WhiteInv
  <2>5. QED
    BY <2>2, <2>3, <2>4
<1>16. SweepInv(aft2)'
  BY <1>7, <1>8, <1>11, <1>14, <1>15 DEF SweepInv
<1>17. QED
  BY <1>1, <1>16

\* sweepstep, in each of the three lists.
LEMMA SweepStepInv ==
  ASSUME NEW aft, SweepInv(aft), NEW state, NEW nextstate, NEW nextlist,
         <<state, nextstate, nextlist>> \in {<<"swpallgc", "swpfinobj", "finobj">>,
            <<"swpfinobj", "swptobefnz", "tobefnz">>, <<"swptobefnz", "swpend", Null>>},
         SweepStep(state, nextstate, nextlist), ctl # "close", ctl' = "step"
  PROVE  \E aft2 : SweepInv(aft2)'
<1>1. CASE sweepgc # Null
  <2>1. sweepgc \in Links
    BY <1>1 DEF SweepInv, TypeOK
  <2>2. PICK s : s = SweepOne(sweepgc)
    OBVIOUS
  <2>3. PICK freed : Sweeps(aft, sweepgc, s, freed)
    BY <2>1, <2>2, SweepOneSweeps
  <2>4. /\ gcstate = state /\ next' = s.next /\ color' = s.color
        /\ gcstate' = IF s.pos # Null THEN gcstate ELSE nextstate
        /\ sweepgc' = IF s.pos # Null THEN s.pos ELSE nextlist
        /\ UNCHANGED <<currentwhite, FINALIZEDBIT, gcfinnum, held, called, late>>
    BY <1>1, <2>2 DEF SweepStep
  <2>5. SweepInv(Without(aft, freed))'
    BY <1>1, <2>3, <2>4, SweptInv
  <2>6. QED
    BY <2>5
<1>2. CASE sweepgc = Null
  <2>1. /\ gcstate = state /\ gcstate' = nextstate /\ sweepgc' = nextlist
        /\ UNCHANGED <<next, color, currentwhite, FINALIZEDBIT, gcfinnum, held, called, late>>
    BY <1>2 DEF SweepStep
  <2>2. Allocated' = Allocated /\ otherwhite' = otherwhite
    BY <2>1 DEF Allocated, otherwhite
  <2>3. ToSweep(aft) = {} /\ \A o \in Objs : ~Dead(o)
    BY <1>2 DEF ToSweep, SweepInv, DeadInv
  <2>4. TypeOK'
    BY <2>1, LinkFacts DEF SweepInv, TypeOK
  <2>5. ListsInv(aft)'
    BY <2>1, <2>2 DEF SweepInv, ListsInv
  <2>6. PositionInv(aft)'
    BY <2>1, LinkFacts DEF PositionInv
  <2>7. DeadInv(aft)'
    BY <2>1, <2>2, <2>3 DEF DeadInv, Dead
  <2>8. WhiteInv(aft)'
    <3>1. CASE gcstate = "swpallgc"
      <4>1. gcstate' = "swpfinobj" /\ ToSweep(aft)' = aft["finobj"]
        BY <2>1, <3>1, NullAssumption DEF ToSweep
      <4>2. QED
        BY <2>1, <2>3, <3>1, <4>1 DEF SweepInv, WhiteInv
    <3>2. CASE gcstate = "swpfinobj"
      BY <2>1, <2>3, <3>2 DEF SweepInv, WhiteInv
    <3>3. CASE gcstate = "swptobefnz"
      BY <2>1, <2>3, <3>3 DEF SweepInv, WhiteInv
    <3>4. QED
      BY <2>1, <3>1, <3>2, <3>3
  <2>9. QED
    BY <2>4, <2>5, <2>6, <2>7, <2>8 DEF SweepInv
<1>3. QED
  BY <1>1, <1>2

\* luaC_fullgc enters the sweep with nothing dead.
LEMMA FullgcInv ==
  ASSUME NEW aft, SweepInv(aft), luaC_fullgc
  PROVE  \E aft2 : SweepInv(aft2)'
<1>1. PICK s : s = SweepOne("allgc")
  OBVIOUS
<1>2. /\ ctl = "program" /\ gcstate = "propagate"
      /\ next' = s.next /\ color' = s.color /\ sweepgc' = s.pos
      /\ gcstate' = "swpallgc" /\ ctl' = "step"
      /\ UNCHANGED <<currentwhite, FINALIZEDBIT, gcfinnum, held, called, late>>
  BY <1>1 DEF luaC_fullgc, keepinvariant
<1>3. PICK freed, aft2 : Sweeps(aft, "allgc", s, freed) /\ aft2 = Without(aft, freed)
  BY <1>1, SweepOneSweeps, LinkFacts
<1>4. /\ freed = {} /\ {o \in Objs : s.color[o] # "free"} = Allocated
      /\ aft2["allgc"] = aft["allgc"]
      /\ aft2["finobj"] = aft["finobj"] /\ aft2["tobefnz"] = aft["tobefnz"]
      /\ \A o \in Objs : s.color[o] = otherwhite => Dead(o)
      /\ \A o \in aft["allgc"] \ Before(aft2, s.pos) : s.color[o] = currentwhite
      /\ s.pos \in Links \cup {Null}
  <2>1. "allgc" \in Links
    BY LinkFacts
  <2>2. freed = {}
    BY <1>2, <1>3, <2>1, SweepsFacts
  <2>3. /\ {o \in Objs : s.color[o] # "free"} = Allocated \ freed
        /\ aft2["allgc"] = aft["allgc"] \ freed
        /\ aft2["finobj"] = aft["finobj"] /\ aft2["tobefnz"] = aft["tobefnz"]
        /\ \A o \in Objs : s.color[o] = otherwhite => Dead(o)
        /\ \A o \in aft["allgc"] \ (freed \cup Before(aft2, s.pos)) : s.color[o] = currentwhite
        /\ s.pos \in Links \cup {Null}
    BY <1>3, <2>1, SweepsFacts
  <2>4. QED
    BY <2>2, <2>3
<1>5. Allocated' = Allocated /\ otherwhite' = otherwhite
  BY <1>2, <1>4 DEF Allocated, otherwhite
<1>6. Ordered(next', aft2) /\ color' \in [Objs -> {"free", "w0", "w1", "marked"}]
  BY <1>2, <1>3 DEF Sweeps
<1>7. TypeOK'
  BY <1>2, <1>4, <1>6 DEF SweepInv, TypeOK, Ordered
<1>8. ListsInv(aft2)'
  BY <1>2, <1>4, <1>5, <1>6 DEF SweepInv, ListsInv
<1>9. PositionInv(aft2)'
  <2>1. s.pos = Null \/ s.pos \in {"allgc"} \cup aft["allgc"]
    BY <1>3 DEF Sweeps
  <2>2. aft["allgc"] \subseteq Allocated
    BY InvFacts, LinkFacts
  <2>3. QED
    BY <1>2, <1>4, <1>5, <2>1, <2>2, LinkFacts DEF PositionInv
<1>10. \A o \in Objs : ~Dead(o)
  BY <1>2 DEF SweepInv, DeadInv
<1>11. DeadInv(aft2)'
  BY <1>2, <1>4, <1>5, <1>10 DEF DeadInv, Dead
<1>12. WhiteInv(aft2)'
  BY <1>2, <1>4 DEF WhiteInv, ToSweep, Before
<1>13. QED
  BY <1>7, <1>8, <1>9, <1>11, <1>12 DEF SweepInv

-----------------------------------------------------------------------------
(* Objects that move from one list to another.                             *)

\* An object whose finalizer is called goes back to allgc, white if there is a sweep.
LEMMA GCTMInv ==
  ASSUME NEW aft, SweepInv(aft), GCTM
  PROVE  \E aft2 : SweepInv(aft2)'
<1>1. PICK o, aft2 : o = next["tobefnz"] /\ aft2 = PushedAft(Without(aft, {o}), "allgc", o)
  OBVIOUS
<1>2. /\ aft \in [Links -> SUBSET Objs] /\ next \in [Links -> Objs \cup {Null}]
      /\ color \in [Objs -> {"free", "w0", "w1", "marked"}]
      /\ Headers \subseteq Links /\ Objs \subseteq Links /\ Null \notin Links
      /\ "allgc" \in Links /\ "finobj" \in Links /\ "tobefnz" \in Links
      /\ aft["allgc"] \cap aft["finobj"] = {} /\ aft["allgc"] \cap aft["tobefnz"] = {}
      /\ aft["finobj"] \cap aft["tobefnz"] = {}
      /\ Allocated = aft["allgc"] \cup aft["finobj"] \cup aft["tobefnz"] /\ Allocated \subseteq Objs
      /\ \A x \in Objs : x \in Allocated <=> color[x] # "free"
      /\ currentwhite # otherwhite /\ currentwhite \in {"w0", "w1"}
      /\ sweepgc \in Links \cup {Null}
      /\ Ordered(next, aft)
  BY InvFacts, LinkFacts DEF SweepInv, ListsInv
<1>3. /\ o # Null /\ next' = MovedNext(next, "tobefnz", "allgc", o)
      /\ FINALIZEDBIT' = FINALIZEDBIT \ {o}
      /\ color' = IF issweepphase THEN [color EXCEPT ![o] = currentwhite] ELSE color
      /\ held' = held \cup {o} /\ called' \in Nat
      /\ UNCHANGED <<gcstate, sweepgc, currentwhite, gcfinnum, ctl, late>>
  BY <1>1 DEF GCTM, MovedNext, SweepInv, TypeOK
<1>4. /\ o \in aft["tobefnz"] /\ o \in Objs /\ o \in Links /\ o \notin aft["allgc"] /\ o \notin aft["finobj"]
      /\ color[o] # "free"
  BY <1>1, <1>2, <1>3 DEF Ordered
<1>5. Ordered(next', aft2)
  BY <1>1, <1>2, <1>3, <1>4, MoveOrdered, LinkFacts
<1>6. /\ aft2["allgc"] = aft["allgc"] \cup {o} /\ aft2["finobj"] = aft["finobj"]
      /\ aft2["tobefnz"] = aft["tobefnz"] \ {o}
      /\ \A l \in Links : l # o /\ l # "allgc" => aft2[l] = aft[l] \ {o}
  BY <1>1, <1>2, <1>4, LinkFacts DEF PushedAft, Without
<1>7. /\ \A x \in Objs : x # o => color'[x] = color[x]
      /\ issweepphase => color'[o] = currentwhite
      /\ ~issweepphase => color'[o] = color[o]
      /\ color' \in [Objs -> {"free", "w0", "w1", "marked"}]
      /\ Allocated' = Allocated /\ otherwhite' = otherwhite
  BY <1>2, <1>3, <1>4 DEF Allocated, otherwhite
<1>8. TypeOK'
  BY <1>3, <1>4, <1>5, <1>7 DEF SweepInv, TypeOK, Ordered
<1>9. ListsInv(aft2)'
  BY <1>2, <1>3, <1>4, <1>5, <1>6, <1>7 DEF SweepInv, ListsInv
<1>10. PositionInv(aft2)'
  BY <1>3, <1>6, <1>7 DEF SweepInv, PositionInv
<1>11. DeadInv(aft2)'
  <2>1. SUFFICES ASSUME NEW x \in Objs, color'[x] = otherwhite
                 PROVE  gcstate = "swpallgc" /\ x \in ToSweep(aft2)' /\ x \notin held \cup {o}
    BY <1>3, <1>7 DEF DeadInv, Dead
  <2>2. x # o
    <3>1. ASSUME Dead(o) PROVE issweepphase
      BY <1>4, <3>1 DEF SweepInv, DeadInv, issweepphase
    <3>2. QED
      BY <1>2, <1>7, <2>1, <3>1 DEF Dead
  <2>3. gcstate = "swpallgc" /\ x \in ToSweep(aft) /\ x \notin held
    BY <1>7, <2>1, <2>2 DEF SweepInv, DeadInv, Dead
  <2>4. sweepgc # Null /\ x \in aft[sweepgc] /\ sweepgc \in {"allgc"} \cup aft["allgc"]
    BY <2>3 DEF SweepInv, PositionInv, ToSweep
  <2>5. x \in aft2[sweepgc]
    BY <1>2, <1>4, <1>6, <2>2, <2>4
  <2>6. QED
    BY <1>3, <2>2, <2>3, <2>4, <2>5 DEF ToSweep
<1>12. WhiteInv(aft2)'
  <2>1. ASSUME gcstate = "swpallgc" PROVE \A x \in aft2["allgc"] \ ToSweep(aft2)' : color'[x] = currentwhite
    <3>1. issweepphase /\ (sweepgc = Null \/ sweepgc \in {"allgc"} \cup aft["allgc"])
      BY <2>1 DEF issweepphase, SweepInv, PositionInv
    <3>2. \A x \in aft["allgc"] : x \in ToSweep(aft) => x \in ToSweep(aft2)'
      BY <1>2, <1>3, <1>4, <1>6, <3>1 DEF ToSweep
    <3>3. QED
      BY <1>2, <1>6, <1>7, <2>1, <3>1, <3>2 DEF SweepInv, WhiteInv
  <2>2. ASSUME gcstate = "swpfinobj"
        PROVE  \A x \in aft2["allgc"] \cup (aft2["finobj"] \ ToSweep(aft2)') : color'[x] = currentwhite
    <3>1. issweepphase
      BY <2>2 DEF issweepphase
    <3>2. \A x \in aft["finobj"] : x \in ToSweep(aft) => x \in ToSweep(aft2)'
      <4>1. \A x \in aft["tobefnz"] : aft[x] \subseteq aft["tobefnz"]
        BY <1>2 DEF Ordered
      <4>2. sweepgc # Null /\ sweepgc # o /\ sweepgc # "allgc" => aft2[sweepgc] = aft[sweepgc] \ {o}
        BY <1>2, <1>6
      <4>3. aft["allgc"] \subseteq aft2["allgc"] /\ aft[o] \cap aft["finobj"] = {}
        BY <1>2, <1>4, <1>6, <4>1
      <4>4. QED
        BY <1>2, <1>3, <1>4, <4>2, <4>3 DEF ToSweep
    <3>3. QED
      BY <1>2, <1>6, <1>7, <2>2, <3>1, <3>2 DEF SweepInv, WhiteInv
  <2>3. ASSUME gcstate \in {"swptobefnz", "swpend"}
        PROVE  \A x \in aft2["allgc"] \cup aft2["finobj"] : color'[x] = currentwhite
    <3>1. issweepphase
      BY <2>3 DEF issweepphase
    <3>2. QED
      BY <1>2, <1>6, <1>7, <2>3, <3>1 DEF SweepInv, WhiteInv
  <2>4. QED
    BY <1>3, <2>1, <2>2, <2>3 DEF WhiteInv
<1>13. SweepInv(aft2)'
  BY <1>8, <1>9, <1>10, <1>11, <1>12 DEF SweepInv
<1>14. QED
  BY <1>13

\* An object moves to finobj, and the sweep moves on if it stands on its link.
LEMMA CheckFinalizerInv ==
  ASSUME NEW aft, SweepInv(aft), NEW o \in Objs, luaC_checkfinalizer(o)
  PROVE  \E aft2 : SweepInv(aft2)'
<1>1. PICK m, nx, cl, pred : /\ m = Moved(o) /\ nx = m.next /\ cl = m.color
                            /\ pred = CHOOSE l \in Links : nx[l] = o
  OBVIOUS
<1>2. /\ aft \in [Links -> SUBSET Objs] /\ next \in [Links -> Objs \cup {Null}]
      /\ color \in [Objs -> {"free", "w0", "w1", "marked"}]
      /\ Headers \subseteq Links /\ Objs \subseteq Links /\ Null \notin Links
      /\ "allgc" \in Links /\ "finobj" \in Links /\ "tobefnz" \in Links
      /\ aft["allgc"] \cap aft["finobj"] = {} /\ aft["allgc"] \cap aft["tobefnz"] = {}
      /\ aft["finobj"] \cap aft["tobefnz"] = {}
      /\ Allocated = aft["allgc"] \cup aft["finobj"] \cup aft["tobefnz"] /\ Allocated \subseteq Objs
      /\ \A x \in Objs : x \in Allocated <=> color[x] # "free"
      /\ currentwhite # otherwhite /\ currentwhite \in {"w0", "w1"}
      /\ sweepgc \in Links \cup {Null}
      /\ Ordered(next, aft)
  BY InvFacts, LinkFacts DEF SweepInv, ListsInv
<1>3. /\ o \in held \ FINALIZEDBIT
      /\ color' = IF issweepphase THEN [cl EXCEPT ![o] = currentwhite] ELSE cl
      /\ sweepgc' = m.pos /\ next' = MovedNext(nx, pred, "finobj", o)
      /\ FINALIZEDBIT' = FINALIZEDBIT \cup {o}
      /\ late' = IF ctl = "close" THEN late \cup {o} ELSE late
      /\ UNCHANGED <<gcstate, currentwhite, gcfinnum, held, ctl, called>>
  BY <1>1 DEF luaC_checkfinalizer, MovedNext
<1>4. o \in aft["allgc"] /\ o \in Links /\ o \notin aft["finobj"] /\ o \notin aft["tobefnz"] /\ color[o] # "free"
  BY <1>2, <1>3 DEF SweepInv, ListsInv
\* Where the sweep stands afterwards, and what it freed to get there.
<1>5. PICK freed, aft1 :
        /\ aft1 = Without(aft, freed)
        /\ freed \subseteq Objs /\ o \notin freed /\ freed \cap held = {}
        /\ freed # {} => gcstate = "swpallgc"
        /\ Ordered(nx, aft1) /\ cl \in [Objs -> {"free", "w0", "w1", "marked"}]
        /\ {x \in Objs : cl[x] # "free"} = Allocated \ freed
        /\ aft1["allgc"] = aft["allgc"] \ freed
        /\ aft1["finobj"] = aft["finobj"] /\ aft1["tobefnz"] = aft["tobefnz"]
        /\ \A x \in Objs : cl[x] = otherwhite =>
             gcstate = "swpallgc" /\ Dead(x) /\ x \notin freed /\ x \in Before(aft1, m.pos)
        /\ \A x \in Objs \ freed : color[x] = currentwhite => cl[x] = currentwhite
        /\ \A x \in ToSweep(aft) \ (freed \cup Before(aft1, m.pos)) : cl[x] = currentwhite
        /\ m.pos \in Links \cup {Null}
        /\ issweepphase => m.pos # o
        /\ \/ m.pos = sweepgc /\ freed = {}
           \/ issweepphase /\ sweepgc = o /\ (m.pos = Null \/ m.pos \in aft[o] \ freed)
  <2>1. CASE issweepphase /\ sweepgc = o
    <3>1. m = SweepToLive(o) /\ ToSweep(aft) = aft[o]
      BY <1>1, <1>2, <1>4, <2>1 DEF Moved, ToSweep
    <3>2. PICK freed : Sweeps(aft, o, m, freed) /\ (m.pos = Null \/ m.pos \in aft[o] \ freed)
      BY <1>4, <3>1, SweepToLiveSweeps
    <3>3. PICK aft1 : aft1 = Without(aft, freed)
      OBVIOUS
    <3>4. /\ freed \subseteq Objs /\ \A x \in freed : Dead(x) /\ x \in aft[o]
          /\ freed # {} => gcstate = "swpallgc" /\ freed \subseteq ToSweep(aft)
          /\ freed \cap FINALIZEDBIT = {} /\ freed \cap held = {}
          /\ {x \in Objs : m.color[x] # "free"} = Allocated \ freed
          /\ aft1["allgc"] = aft["allgc"] \ freed
          /\ aft1["finobj"] = aft["finobj"] /\ aft1["tobefnz"] = aft["tobefnz"]
          /\ \A x \in Objs : m.color[x] = otherwhite =>
               Dead(x) /\ x \notin freed /\ (x \notin aft[o] \/ x \in Before(aft1, m.pos))
          /\ \A x \in Objs \ freed : color[x] = currentwhite => m.color[x] = currentwhite
          /\ \A x \in aft[o] \ (freed \cup Before(aft1, m.pos)) : m.color[x] = currentwhite
          /\ m.pos \in Links \cup {Null}
      BY <1>4, <3>2, <3>3, SweepsFacts
    <3>5. o \notin aft[o]
      BY <1>2 DEF Ordered
    <3>6. Ordered(nx, aft1) /\ cl \in [Objs -> {"free", "w0", "w1", "marked"}]
      BY <1>1, <3>2, <3>3 DEF Sweeps
    <3>7. \A x \in Objs : Dead(x) => gcstate = "swpallgc" /\ x \in aft[o]
      BY <3>1 DEF SweepInv, DeadInv
    <3>8. m.pos # o
      BY <1>2, <1>4, <3>2, <3>5
    <3>9. o \notin freed
      BY <3>4, <3>5
    <3>10. /\ aft1 = Without(aft, freed)
           /\ freed \subseteq Objs /\ o \notin freed /\ freed \cap held = {}
           /\ freed # {} => gcstate = "swpallgc"
           /\ Ordered(nx, aft1) /\ cl \in [Objs -> {"free", "w0", "w1", "marked"}]
      BY <3>3, <3>4, <3>6, <3>9
    <3>11. /\ {x \in Objs : cl[x] # "free"} = Allocated \ freed
           /\ aft1["allgc"] = aft["allgc"] \ freed
           /\ aft1["finobj"] = aft["finobj"] /\ aft1["tobefnz"] = aft["tobefnz"]
           /\ \A x \in Objs \ freed : color[x] = currentwhite => cl[x] = currentwhite
      BY <1>1, <3>4
    <3>12. \A x \in Objs : cl[x] = otherwhite =>
             gcstate = "swpallgc" /\ Dead(x) /\ x \notin freed /\ x \in Before(aft1, m.pos)
      BY <1>1, <3>4, <3>7
    <3>13. /\ \A x \in ToSweep(aft) \ (freed \cup Before(aft1, m.pos)) : cl[x] = currentwhite
           /\ m.pos \in Links \cup {Null}
      BY <1>1, <3>1, <3>4
    <3>14. issweepphase /\ sweepgc = o /\ (m.pos = Null \/ m.pos \in aft[o] \ freed)
      BY <2>1, <3>2
    <3>15. QED
      BY <3>8, <3>10, <3>11, <3>12, <3>13, <3>14
  <2>2. CASE ~(issweepphase /\ sweepgc = o)
    <3>1. m = [next |-> next, color |-> color, pos |-> sweepgc]
      BY <1>1, <2>2 DEF Moved
    <3>2. nx = next /\ cl = color /\ m.pos = sweepgc
      BY <1>1, <3>1
    <3>3. Without(aft, {}) = aft
      BY <1>2 DEF Without
    <3>4. \A x \in Objs : Dead(x) => gcstate = "swpallgc" /\ x \in Before(aft, m.pos)
      BY <3>2 DEF SweepInv, DeadInv, ToSweep, Before
    <3>5. ToSweep(aft) = Before(aft, m.pos)
      BY <3>2 DEF ToSweep, Before
    <3>6. {x \in Objs : cl[x] # "free"} = Allocated
      BY <3>2 DEF Allocated
    <3>7. \A x \in Objs : cl[x] = otherwhite => Dead(x)
      BY <3>2 DEF Dead
    <3>8. \E freed : freed = {} /\ Without(aft, freed) = aft
      BY <3>3
    <3>9. issweepphase => m.pos # o
      BY <2>2, <3>2
    <3>10. QED
      BY <1>2, <3>2, <3>4, <3>5, <3>6, <3>7, <3>8, <3>9
  <2>3. QED
    BY <2>1, <2>2
<1>6. o \in aft1["allgc"] /\ nx \in [Links -> Objs \cup {Null}]
  BY <1>4, <1>5 DEF Ordered
<1>7. pred \in Links /\ nx[pred] = o
  <2>1. \E l \in Links : nx[l] = o
    BY <1>2, <1>5, <1>6, SomeLink
  <2>2. QED
    BY <1>1, <2>1
<1>8. PICK aft2 : aft2 = PushedAft(Without(aft1, {o}), "finobj", o)
  OBVIOUS
<1>9. Ordered(next', aft2)
  BY <1>3, <1>4, <1>5, <1>7, <1>8, MoveOrdered, LinkFacts
<1>10. /\ aft2["allgc"] = aft["allgc"] \ (freed \cup {o})
       /\ aft2["finobj"] = aft["finobj"] \cup {o} /\ aft2["tobefnz"] = aft["tobefnz"]
       /\ \A l \in Links : l # o /\ l # "finobj" => aft2[l] = aft1[l] \ {o}
  <2>1. aft1 \in [Links -> SUBSET Objs]
    BY <1>5 DEF Ordered
  <2>2. /\ aft2["finobj"] = (aft1["finobj"] \ {o}) \cup {o}
        /\ \A l \in Links : l # o /\ l # "finobj" => aft2[l] = aft1[l] \ {o}
    BY <1>2, <1>4, <1>8, <2>1, LinkFacts DEF PushedAft, Without
  <2>3. "allgc" # o /\ "tobefnz" # o
    BY LinkFacts
  <2>4. aft2["allgc"] = aft1["allgc"] \ {o} /\ aft2["tobefnz"] = aft1["tobefnz"] \ {o}
    BY <1>2, <2>2, <2>3
  <2>5. /\ aft2["allgc"] = (aft["allgc"] \ freed) \ {o} /\ aft2["tobefnz"] = aft["tobefnz"] \ {o}
        /\ aft2["finobj"] = (aft["finobj"] \ {o}) \cup {o}
    BY <1>5, <2>2, <2>4
  <2>6. QED
    BY <1>4, <2>2, <2>5
<1>11. /\ \A x \in Objs : x # o => color'[x] = cl[x]
       /\ issweepphase => color'[o] = currentwhite
       /\ ~issweepphase => color'[o] = cl[o]
       /\ color' \in [Objs -> {"free", "w0", "w1", "marked"}]
  BY <1>2, <1>3, <1>5
<1>12. Allocated' = Allocated \ freed /\ otherwhite' = otherwhite
  <2>1. cl[o] # "free" /\ color'[o] # "free"
    BY <1>2, <1>3, <1>4, <1>5, <1>11
  <2>2. {x \in Objs : color'[x] # "free"} = {x \in Objs : cl[x] # "free"}
    BY <1>11, <2>1
  <2>3. QED
    BY <1>3, <1>5, <2>2 DEF Allocated, otherwhite
<1>13. TypeOK'
  BY <1>3, <1>5, <1>9, <1>11 DEF SweepInv, TypeOK, Ordered
<1>14. ListsInv(aft2)'
  <2>1. aft2["allgc"] = Allocated' \ FINALIZEDBIT'
    BY <1>2, <1>3, <1>10, <1>12 DEF SweepInv, ListsInv
  <2>2. FINALIZEDBIT' = aft2["finobj"] \cup aft2["tobefnz"]
    BY <1>3, <1>10 DEF SweepInv, ListsInv
  <2>3. FINALIZEDBIT' \subseteq Allocated'
    <3>1. freed \cap FINALIZEDBIT = {}
      <4>1. aft1["finobj"] \cap freed = {} /\ aft1["tobefnz"] \cap freed = {}
        BY <1>2, <1>5, LinkFacts DEF Without
      <4>2. QED
        BY <1>5, <4>1 DEF SweepInv, ListsInv
    <3>2. QED
      BY <1>2, <1>3, <1>4, <1>5, <1>12, <3>1 DEF SweepInv, ListsInv
  <2>4. held' \subseteq Allocated'
    BY <1>3, <1>5, <1>12 DEF SweepInv, ListsInv
  <2>5. ctl' = "close" => aft2["finobj"] \subseteq late'
    BY <1>3, <1>10 DEF SweepInv, ListsInv
  <2>6. QED
    BY <1>9, <2>1, <2>2, <2>3, <2>4, <2>5 DEF ListsInv
<1>15. \A l \in Links : \A x \in aft[l] : aft[x] \subseteq aft[l]
  BY <1>2 DEF Ordered
<1>16. /\ sweepgc' \in Objs => sweepgc' \in Allocated'
       /\ gcstate = "swpallgc" /\ sweepgc' # Null => sweepgc' \in {"allgc"} \cup aft2["allgc"]
       /\ gcstate = "swpfinobj" /\ sweepgc' # Null /\ ctl # "close" =>
             sweepgc' \in {"finobj"} \cup aft2["finobj"]
  <2>1. CASE m.pos = sweepgc /\ freed = {}
    BY <1>3, <1>5, <1>10, <1>12, <2>1 DEF SweepInv, PositionInv, issweepphase
  <2>2. CASE issweepphase /\ sweepgc = o /\ (m.pos = Null \/ m.pos \in aft[o] \ freed)
    <3>1. m.pos # o
      BY <1>5, <2>2
    <3>2. m.pos # Null => m.pos \in aft["allgc"] \ freed
      BY <1>2, <1>4, <1>15, <2>2
    <3>3. gcstate = "swpfinobj" => ctl = "close"
      BY <1>2, <1>4, <2>2, LinkFacts DEF SweepInv, PositionInv
    <3>4. QED
      BY <1>2, <1>3, <1>10, <1>12, <3>1, <3>2, <3>3
  <2>3. QED
    BY <1>5, <2>1, <2>2
<1>17. PositionInv(aft2)'
  BY <1>3, <1>16 DEF PositionInv
\* What is still before the sweep remains there, but for o.
<1>18. \A x \in Before(aft1, m.pos) : issweepphase /\ x # o => x \in ToSweep(aft2)'
  <2>1. SUFFICES ASSUME NEW x \in Before(aft1, m.pos), issweepphase, x # o PROVE x \in ToSweep(aft2)'
    OBVIOUS
  <2>2. m.pos # Null /\ m.pos # o /\ m.pos \in Links /\ x \in aft1[m.pos]
    BY <1>5, <2>1 DEF Before
  <2>3. x \in aft2[m.pos]
    BY <1>10, <1>5, <1>2, <2>1, <2>2
  <2>4. QED
    BY <1>3, <2>2, <2>3 DEF ToSweep
<1>19. DeadInv(aft2)'
  <2>1. SUFFICES ASSUME NEW x \in Objs, color'[x] = otherwhite
                 PROVE  gcstate = "swpallgc" /\ x \in ToSweep(aft2)' /\ x \notin held
    BY <1>3, <1>12 DEF DeadInv, Dead
  <2>2. x # o
    <3>1. SUFFICES ASSUME x = o PROVE FALSE
      OBVIOUS
    <3>2. ~issweepphase /\ cl[o] = otherwhite
      BY <1>2, <1>11, <2>1, <3>1
    <3>3. gcstate = "swpallgc"
      BY <1>5, <3>2
    <3>4. QED
      BY <3>2, <3>3 DEF issweepphase
  <2>3. gcstate = "swpallgc" /\ Dead(x) /\ x \in Before(aft1, m.pos)
    BY <1>5, <1>11, <2>1, <2>2
  <2>4. x \notin held
    BY <2>3 DEF SweepInv, DeadInv
  <2>5. QED
    BY <1>18, <2>2, <2>3, <2>4 DEF issweepphase
<1>20. WhiteInv(aft2)'
  <2>1. \A x \in Objs : x # o /\ x \notin freed /\ color[x] = currentwhite => color'[x] = currentwhite
    BY <1>5, <1>11
  <2>2. \A x \in Objs : issweepphase /\ x \in ToSweep(aft) /\ x \notin freed /\ x \notin ToSweep(aft2)'
           => color'[x] = currentwhite
    BY <1>5, <1>11, <1>18
  <2>3. ASSUME gcstate = "swpallgc" PROVE \A x \in aft2["allgc"] \ ToSweep(aft2)' : color'[x] = currentwhite
    <3>1. issweepphase /\ \A x \in aft["allgc"] \ ToSweep(aft) : color[x] = currentwhite
      BY <2>3 DEF issweepphase, SweepInv, WhiteInv
    <3>2. QED
      BY <1>2, <1>10, <2>1, <2>2, <3>1
  <2>4. ASSUME gcstate = "swpfinobj"
        PROVE  \A x \in aft2["allgc"] \cup (aft2["finobj"] \ ToSweep(aft2)') : color'[x] = currentwhite
    <3>1. /\ issweepphase /\ \A x \in aft["allgc"] \cup (aft["finobj"] \ ToSweep(aft)) : color[x] = currentwhite
          /\ freed = {}
      BY <1>5, <2>4 DEF issweepphase, SweepInv, WhiteInv
    <3>2. QED
      BY <1>2, <1>4, <1>10, <1>11, <2>1, <2>2, <3>1
  <2>5. ASSUME gcstate \in {"swptobefnz", "swpend"}
        PROVE  \A x \in aft2["allgc"] \cup aft2["finobj"] : color'[x] = currentwhite
    <3>1. /\ issweepphase /\ \A x \in aft["allgc"] \cup aft["finobj"] : color[x] = currentwhite
          /\ freed = {}
      BY <1>5, <2>5 DEF issweepphase, SweepInv, WhiteInv
    <3>2. QED
      BY <1>2, <1>4, <1>10, <1>11, <2>1, <3>1
  <2>6. QED
    BY <1>3, <2>3, <2>4, <2>5 DEF WhiteInv
<1>21. SweepInv(aft2)'
  BY <1>13, <1>14, <1>17, <1>19, <1>20 DEF SweepInv
<1>22. QED
  BY <1>21

\* separatetobefnz, under the invariant.
LEMMA SeparatedIs ==
  ASSUME NEW aft, SweepInv(aft), NEW W
  PROVE  /\ Separated(W) = SepNext(next, aft, W) /\ Ordered(Separated(W), SepAft(aft, W))
         /\ SepAft(aft, W)["allgc"] = aft["allgc"]
         /\ SepAft(aft, W)["finobj"] = aft["finobj"] \ W
         /\ SepAft(aft, W)["tobefnz"] = aft["tobefnz"] \cup (aft["finobj"] \cap W)
         /\ \A o \in aft["allgc"] : SepAft(aft, W)[o] = aft[o] /\ Separated(W)[o] = next[o]
         /\ Separated(W)["allgc"] = next["allgc"]
<1>1. /\ InList("finobj") = aft["finobj"] /\ InList("tobefnz") = aft["tobefnz"]
      /\ aft \in [Links -> SUBSET Objs] /\ Objs \subseteq Links
      /\ aft["allgc"] \cap aft["finobj"] = {} /\ aft["allgc"] \cap aft["tobefnz"] = {}
      /\ aft["finobj"] \cap aft["tobefnz"] = {}
      /\ "allgc" \in Links /\ "finobj" \in Links /\ "tobefnz" \in Links
      /\ \A x \in Objs : x # "allgc" /\ x # "finobj" /\ x # "tobefnz"
      /\ Ordered(next, aft)
  BY InvFacts, InListIs, LinkFacts DEF SweepInv, ListsInv
<1>2. Separated(W) = SepNext(next, aft, W)
  <2>1. \A l, S : FirstIn(l, S) = First(next, l, S)
    BY AfterIs
  <2>2. \A l : LastOf("tobefnz", l) <=> l \in {"tobefnz"} \cup aft["tobefnz"] /\ next[l] = Null
    BY <1>1 DEF LastOf
  <2>3. Separated(W) = [l \in Links |->
        IF l \in {"finobj"} \cup (InList("finobj") \ W) THEN FirstIn(l, InList("finobj") \ W)
        ELSE IF l \in InList("finobj") \cap W THEN FirstIn(l, InList("finobj") \cap W)
        ELSE IF LastOf("tobefnz", l) THEN FirstIn("finobj", InList("finobj") \cap W)
        ELSE next[l]]
    BY DEF Separated
  <2>4. SepNext(next, aft, W) = [l \in Links |->
        IF l \in {"finobj"} \cup (aft["finobj"] \ W) THEN First(next, l, aft["finobj"] \ W)
        ELSE IF l \in aft["finobj"] \cap W THEN First(next, l, aft["finobj"] \cap W)
        ELSE IF l \in {"tobefnz"} \cup aft["tobefnz"] /\ next[l] = Null THEN First(next, "finobj", aft["finobj"] \cap W)
        ELSE next[l]]
    BY DEF SepNext
  <2>5. QED
    BY <1>1, <2>1, <2>2, <2>3, <2>4
<1>3. Ordered(Separated(W), SepAft(aft, W))
  BY <1>1, <1>2, SeparateOrdered
<1>4. /\ SepAft(aft, W)["allgc"] = aft["allgc"]
      /\ SepAft(aft, W)["finobj"] = aft["finobj"] \ W
      /\ SepAft(aft, W)["tobefnz"] = aft["tobefnz"] \cup (aft["finobj"] \cap W)
      /\ \A o \in aft["allgc"] : SepAft(aft, W)[o] = aft[o]
  BY <1>1 DEF SepAft
<1>5. /\ \A o \in aft["allgc"] : Separated(W)[o] = next[o]
      /\ Separated(W)["allgc"] = next["allgc"]
  BY <1>1, <1>2 DEF SepNext
<1>6. QED
  BY <1>2, <1>3, <1>4, <1>5

\* luaC_freeallobjects separates everything, wherever the sweep stands.
LEMMA CloseInv ==
  ASSUME NEW aft, SweepInv(aft), lua_close
  PROVE  \E aft2 : SweepInv(aft2)'
<1>1. PICK aft2 : aft2 = SepAft(aft, Objs)
  OBVIOUS
<1>2. /\ next' = Separated(Objs) /\ ctl' = "close" /\ called' = 0 /\ late' = {}
      /\ UNCHANGED <<gcstate, sweepgc, color, currentwhite, FINALIZEDBIT, gcfinnum, held>>
  BY DEF lua_close
<1>3. aft \in [Links -> SUBSET Objs] /\ "finobj" \in Links /\ "allgc" \in Links
  BY InvFacts, LinkFacts
<1>4. /\ Ordered(next', aft2) /\ aft2["allgc"] = aft["allgc"] /\ aft2["finobj"] = {}
      /\ aft2["tobefnz"] = aft["tobefnz"] \cup aft["finobj"]
      /\ \A o \in aft["allgc"] : aft2[o] = aft[o]
  <2>1. aft["finobj"] \subseteq Objs
    BY <1>3
  <2>2. QED
    BY <1>1, <1>2, <2>1, SeparatedIs
<1>5. Allocated' = Allocated /\ otherwhite' = otherwhite
  BY <1>2 DEF Allocated, otherwhite
<1>6. TypeOK'
  BY <1>2, <1>4 DEF SweepInv, TypeOK, Ordered
<1>7. ListsInv(aft2)'
  BY <1>2, <1>4, <1>5 DEF SweepInv, ListsInv
<1>8. PositionInv(aft2)'
  BY <1>2, <1>4, <1>5 DEF SweepInv, PositionInv
<1>9. gcstate = "swpallgc" => ToSweep(aft2)' = ToSweep(aft)
  BY <1>2, <1>4 DEF ToSweep, SweepInv, PositionInv
<1>10. DeadInv(aft2)'
  BY <1>2, <1>5, <1>9 DEF SweepInv, DeadInv, Dead
<1>11. WhiteInv(aft2)'
  BY <1>2, <1>4, <1>9 DEF SweepInv, WhiteInv
<1>12. QED
  BY <1>6, <1>7, <1>8, <1>10, <1>11 DEF SweepInv

\* The atomic phase: whatever is not held and has no finalizer is dead and in allgc.
LEMMA AtomicInv ==
  ASSUME NEW aft, SweepInv(aft), Atomic, ctl # "close", ctl' = "step"
  PROVE  \E aft2 : SweepInv(aft2)'
<1>1. PICK white, nx, cl, first, D :
        /\ white = {o \in Allocated \ held : color[o] # "marked"} /\ nx = Separated(white)
        /\ D = white \ (white \cap FINALIZEDBIT) /\ cl = AllMarked(D)
        /\ first = nx["allgc"]
  OBVIOUS
<1> DEFINE dead == first # Null /\ first \in D
<1>2. PICK aft1 : aft1 = SepAft(aft, white)
  OBVIOUS
<1>3. PICK pos, swept : /\ pos = IF dead \/ first = Null THEN "allgc" ELSE first
                        /\ swept = IF dead THEN [nx EXCEPT !["allgc"] = nx[first], ![first] = Null] ELSE nx
  OBVIOUS
<1>4. /\ gcstate = "propagate" /\ gcfinnum' = 1 /\ currentwhite' = otherwhite /\ next' = swept
      /\ color' = IF first = Null THEN cl
                  ELSE [cl EXCEPT ![first] = IF dead THEN "free" ELSE otherwhite]
      /\ sweepgc' = IF swept[pos] = Null THEN Null ELSE pos
      /\ gcstate' = "swpallgc"
      /\ UNCHANGED <<FINALIZEDBIT, held, called, late>>
  BY <1>1, <1>3 DEF Atomic
<1>5. /\ aft \in [Links -> SUBSET Objs] /\ next \in [Links -> Objs \cup {Null}]
      /\ color \in [Objs -> {"free", "w0", "w1", "marked"}]
      /\ Objs \subseteq Links /\ Null \notin Links /\ Null \notin Objs
      /\ "allgc" \in Links /\ "finobj" \in Links /\ "tobefnz" \in Links /\ "allgc" \notin Objs
      /\ Allocated = aft["allgc"] \cup aft["finobj"] \cup aft["tobefnz"] /\ Allocated \subseteq Objs
      /\ aft["allgc"] \cap FINALIZEDBIT = {}
      /\ \A x \in Objs : x \in Allocated <=> color[x] # "free"
      /\ currentwhite # otherwhite /\ currentwhite \in {"w0", "w1"} /\ otherwhite \in {"w0", "w1"}
      /\ Ordered(next, aft)
  BY InvFacts, LinkFacts DEF SweepInv, ListsInv
<1>6. /\ Ordered(nx, aft1) /\ aft1["allgc"] = aft["allgc"]
      /\ aft1["finobj"] = aft["finobj"] \ white
      /\ aft1["tobefnz"] = aft["tobefnz"] \cup (aft["finobj"] \cap white)
      /\ \A o \in aft["allgc"] : aft1[o] = aft[o]
  BY <1>1, <1>2, SeparatedIs
<1>7. /\ nx \in [Links -> Objs \cup {Null}] /\ aft1 \in [Links -> SUBSET Objs]
      /\ first = Null => aft["allgc"] = {}
      /\ first # Null => first \in Objs /\ first \in aft["allgc"] /\ aft["allgc"] = {first} \cup aft[first]
      /\ first # Null /\ nx[first] = Null => aft[first] = {}
      /\ \A x \in Objs : x \notin aft[x]
  <2>1. /\ nx \in [Links -> Objs \cup {Null}] /\ aft1 \in [Links -> SUBSET Objs]
        /\ \A l \in Links : nx[l] = Null => aft1[l] = {}
        /\ \A l \in Links : nx[l] # Null => aft1[l] = {nx[l]} \cup aft1[nx[l]]
    BY <1>6 DEF Ordered
  <2>2. first = Null => aft["allgc"] = {}
    BY <1>1, <1>5, <1>6, <2>1
  <2>3. first # Null => first \in Objs /\ first \in aft["allgc"] /\ aft["allgc"] = {first} \cup aft1[first]
    <3>1. first = nx["allgc"] /\ "allgc" \in Links /\ aft1["allgc"] = aft["allgc"]
      BY <1>1, <1>5, <1>6
    <3>2. first \in Objs \cup {Null}
      BY <2>1, <3>1
    <3>3. first # Null => aft["allgc"] = {first} \cup aft1[first]
      BY <2>1, <3>1
    <3>4. QED
      BY <3>2, <3>3
  <2>4. first # Null => aft1[first] = aft[first]
    BY <1>6, <2>3
  <2>5. \A x \in Objs : x \notin aft[x]
    BY <1>5 DEF Ordered
  <2>6. QED
    BY <1>5, <2>1, <2>2, <2>3, <2>4, <2>5
<1>8. D \subseteq aft["allgc"] /\ D \cap held = {} /\ \A o \in D : o \in Objs /\ color[o] = currentwhite
  <2>1. \A o \in Objs : ~Dead(o)
    BY <1>4 DEF SweepInv, DeadInv
  <2>2. \A o \in D : o \in Allocated /\ o \notin held /\ o \notin FINALIZEDBIT /\ color[o] # "marked"
    BY <1>1
  <2>3. \A o \in D : o \in Objs /\ color[o] = currentwhite
    BY <1>5, <2>1, <2>2 DEF Dead, otherwhite
  <2>4. \A o \in D : o \in aft["allgc"]
    BY <2>2 DEF SweepInv, ListsInv
  <2>5. QED
    BY <2>2, <2>3, <2>4
<1>9. /\ cl \in [Objs -> {"free", "w0", "w1", "marked"}]
      /\ \A o \in Objs : o \notin Allocated => cl[o] = "free"
      /\ \A o \in D : cl[o] = currentwhite
      /\ \A o \in Allocated \ D : cl[o] = "marked"
  <2>1. cl = [o \in Objs |-> IF color[o] = "free" THEN "free"
                             ELSE IF o \in D THEN color[o] ELSE "marked"]
    BY <1>1 DEF AllMarked
  <2>2. QED
    BY <1>5, <1>8, <2>1
<1>10. otherwhite' = currentwhite
  BY <1>4, <1>5 DEF otherwhite
<1>11. PICK freed, aft2 : freed = (IF dead THEN {first} ELSE {}) /\ aft2 = Without(aft1, freed)
  OBVIOUS
<1>12. freed \subseteq D /\ (dead => first # Null /\ first \in D /\ freed = {first}) /\ (~dead => freed = {})
  BY <1>1, <1>11
<1>13. Ordered(next', aft2)
  <2>1. CASE dead
    <3>1. Ordered([nx EXCEPT !["allgc"] = nx[first], ![first] = Null], Without(aft1, {first}))
      BY <1>1, <1>5, <1>6, <1>7, <1>12, <2>1, UnlinkOrdered
    <3>2. QED
      BY <1>3, <1>4, <1>11, <1>12, <2>1, <3>1
  <2>2. CASE ~dead
    <3>1. Without(aft1, {}) = aft1
      BY <1>7 DEF Without
    <3>2. QED
      BY <1>3, <1>4, <1>6, <1>11, <1>12, <2>2, <3>1
  <2>3. QED
    BY <2>1, <2>2
<1>14. /\ aft2["allgc"] = aft["allgc"] \ freed /\ aft2["finobj"] = aft["finobj"] \ white
       /\ aft2["tobefnz"] = aft["tobefnz"] \cup (aft["finobj"] \cap white)
       /\ \A o \in aft["allgc"] \ freed : aft2[o] = aft[o] \ freed
  <2>1. freed \subseteq aft["allgc"] /\ freed \subseteq Objs
    BY <1>8, <1>12
  <2>2. \A l \in Links : l \notin freed => aft2[l] = aft1[l] \ freed
    BY <1>11 DEF Without
  <2>3. \A l \in Headers : l \in Links /\ l \notin freed
    BY <2>1, LinkFacts
  <2>4. /\ aft2["allgc"] = aft["allgc"] \ freed /\ aft2["finobj"] = (aft["finobj"] \ white) \ freed
        /\ aft2["tobefnz"] = (aft["tobefnz"] \cup (aft["finobj"] \cap white)) \ freed
    BY <1>6, <2>2, <2>3, LinkFacts
  <2>5. aft["allgc"] \cap aft["finobj"] = {} /\ aft["allgc"] \cap aft["tobefnz"] = {}
    BY InvFacts
  <2>6. \A o \in aft["allgc"] \ freed : aft2[o] = aft[o] \ freed
    BY <1>5, <1>6, <2>2
  <2>7. QED
    BY <2>1, <2>4, <2>5, <2>6
<1>15. /\ color' \in [Objs -> {"free", "w0", "w1", "marked"}]
       /\ \A o \in Objs : o # first => color'[o] = cl[o]
       /\ first # Null => color'[first] = IF dead THEN "free" ELSE otherwhite
  BY <1>4, <1>5, <1>7, <1>9
<1>16. Allocated' = Allocated \ freed
  <2>1. \A o \in Objs : color'[o] # "free" <=> o \in Allocated \ freed
    <3>1. \A o \in Objs : o # first => (color'[o] # "free" <=> o \in Allocated)
      BY <1>5, <1>8, <1>9, <1>15
    <3>2. first # Null => first \in Allocated /\ (color'[first] # "free" <=> ~dead)
      BY <1>5, <1>7, <1>15
    <3>3. QED
      BY <1>5, <1>12, <3>1, <3>2
  <2>2. QED
    BY <1>5, <2>1 DEF Allocated
\* What is left to sweep is all but the first object.
<1>17. ToSweep(aft2)' = aft["allgc"] \ {first} /\ (sweepgc' = Null \/ sweepgc' \in {"allgc"} \cup aft2["allgc"])
  <2>1. CASE first = Null
    <3>1. pos = "allgc" /\ swept = nx /\ nx["allgc"] = Null
      BY <1>1, <1>3, <1>12, <2>1
    <3>2. sweepgc' = Null
      BY <1>4, <3>1
    <3>3. QED
      BY <1>7, <2>1, <3>2 DEF ToSweep
  <2>2. CASE first # Null /\ dead
    <3>1. pos = "allgc" /\ swept = [nx EXCEPT !["allgc"] = nx[first], ![first] = Null] /\ freed = {first}
      BY <1>3, <1>12, <2>2
    <3>2. swept["allgc"] = nx[first]
      BY <1>5, <1>7, <2>2, <3>1
    <3>3. sweepgc' = IF nx[first] = Null THEN Null ELSE "allgc"
      BY <1>4, <3>1, <3>2
    <3>4. nx[first] = Null => aft["allgc"] \ {first} = {}
      BY <1>7, <2>2
    <3>5. ToSweep(aft2)' = IF nx[first] = Null THEN {} ELSE aft2["allgc"]
      BY <3>3, NullAssumption DEF ToSweep
    <3>6. aft2["allgc"] = aft["allgc"] \ {first}
      BY <1>14, <3>1
    <3>7. QED
      BY <3>3, <3>4, <3>5, <3>6
  <2>3. CASE first # Null /\ ~dead
    <3>1. pos = first /\ swept = nx /\ freed = {}
      BY <1>3, <1>12, <2>3
    <3>2. sweepgc' = IF nx[first] = Null THEN Null ELSE first
      BY <1>4, <3>1
    <3>3. aft2[first] = aft[first] /\ aft[first] = aft["allgc"] \ {first} /\ first \in aft2["allgc"]
      BY <1>7, <1>14, <2>3, <3>1
    <3>4. nx[first] = Null => aft[first] = {}
      BY <1>7, <2>3
    <3>5. ToSweep(aft2)' = IF nx[first] = Null THEN {} ELSE aft2[first]
      BY <2>3, <3>2 DEF ToSweep
    <3>6. QED
      BY <3>2, <3>3, <3>4, <3>5
  <2>4. QED
    BY <2>1, <2>2, <2>3
<1>18. TypeOK'
  <2>1. sweepgc' \in Links \cup {Null}
    BY <1>5, <1>14, <1>17
  <2>2. next' \in [Links -> Objs \cup {Null}]
    BY <1>13 DEF Ordered
  <2>3. 1 \in 0..UINT_MAX
    BY FinnumAssumption
  <2>4. QED
    BY <1>4, <1>5, <1>15, <2>1, <2>2, <2>3 DEF SweepInv, TypeOK
<1>19. ListsInv(aft2)'
  <2>1. freed \cap FINALIZEDBIT = {} /\ freed \cap held = {}
    BY <1>1, <1>8, <1>12
  <2>2. aft2["allgc"] = Allocated' \ FINALIZEDBIT'
    BY <1>4, <1>14, <1>16 DEF SweepInv, ListsInv
  <2>3. FINALIZEDBIT' = aft2["finobj"] \cup aft2["tobefnz"]
    BY <1>4, <1>14 DEF SweepInv, ListsInv
  <2>4. FINALIZEDBIT' \subseteq Allocated' /\ held' \subseteq Allocated'
    BY <1>4, <1>16, <2>1 DEF SweepInv, ListsInv
  <2>5. QED
    BY <1>13, <2>2, <2>3, <2>4 DEF ListsInv
<1>20. PositionInv(aft2)'
  <2>1. aft2["allgc"] \subseteq Allocated'
    BY <1>5, <1>14, <1>16
  <2>2. QED
    BY <1>4, <1>5, <1>17, <2>1 DEF PositionInv
<1>21. DeadInv(aft2)'
  <2>1. SUFFICES ASSUME NEW o \in Objs, color'[o] = currentwhite
                 PROVE  o \in aft["allgc"] \ {first} /\ o \notin held
    BY <1>4, <1>10, <1>17 DEF DeadInv, Dead
  <2>2. o # first
    BY <1>5, <1>7, <1>15, <2>1
  <2>3. cl[o] = currentwhite
    BY <1>15, <2>1, <2>2
  <2>4. o \in D
    BY <1>5, <1>9, <2>3
  <2>5. QED
    BY <1>8, <2>2, <2>4
<1>22. WhiteInv(aft2)'
  <2>1. \A o \in aft2["allgc"] \ ToSweep(aft2)' : o = first /\ first # Null /\ ~dead
    BY <1>5, <1>7, <1>12, <1>14, <1>17
  <2>2. \A o \in aft2["allgc"] \ ToSweep(aft2)' : color'[o] = currentwhite'
    BY <1>4, <1>15, <2>1
  <2>3. QED
    BY <1>4, <2>2 DEF WhiteInv
<1>23. QED
  BY <1>18, <1>19, <1>20, <1>21, <1>22 DEF SweepInv

-----------------------------------------------------------------------------
(* The theorems.                                                           *)

\* The inductive invariant: aft are the objects after each link.
SweepIInv == \E aft : SweepInv(aft)

\* The invariant holds at first.
LEMMA InitIInv == Init => SweepIInv
BY InitInv DEF SweepIInv

\* After luaC_freeallobjects everything begins anew.
LEMMA FreeAllIInv == FreeAll => SweepIInv'
<1>1. FreeAll => Init'
  BY DEF FreeAll, Init
<1>2. Init' => SweepIInv'
  BY InitIInv, PTL
<1>3. QED
  BY <1>1, <1>2

\* Every singlestep keeps it.
LEMMA SingleStepIInv ==
  ASSUME NEW aft, SweepInv(aft), SingleStep, ctl # "close", ctl' = "step"
  PROVE  SweepIInv'
<1>1. CASE Pause
  BY <1>1, PauseInv DEF SweepIInv
<1>2. ASSUME NEW o \in Objs, Propagate(o) PROVE SweepIInv'
  BY <1>2, PropagateInv DEF SweepIInv
<1>3. CASE Atomic
  BY <1>3, AtomicInv DEF SweepIInv
<1>4. CASE SweepStep("swpallgc", "swpfinobj", "finobj")
  BY <1>4, SweepStepInv DEF SweepIInv
<1>5. CASE SweepStep("swpfinobj", "swptobefnz", "tobefnz")
  BY <1>5, SweepStepInv DEF SweepIInv
<1>6. CASE SweepStep("swptobefnz", "swpend", Null)
  BY <1>6, SweepStepInv DEF SweepIInv
<1>7. CASE SweepEnd \/ CycleEnds
  BY <1>7, SweepEndInv DEF SweepIInv
<1>8. QED
  BY <1>1, <1>2, <1>3, <1>4, <1>5, <1>6, <1>7 DEF SingleStep

\* Every step keeps it.
LEMMA NextIInv ==
  ASSUME SweepIInv, [Next]_vars
  PROVE  SweepIInv'
<1>1. PICK aft : SweepInv(aft)
  BY DEF SweepIInv
<1>2. TypeOK
  BY <1>1 DEF SweepInv
<1>3. ASSUME NEW o \in Objs, luaC_newobj(o) PROVE SweepIInv'
  BY <1>1, <1>3, NewObjInv DEF SweepIInv
<1>4. ASSUME NEW o \in Objs, Drop(o) PROVE SweepIInv'
  BY <1>1, <1>4, DropInv DEF SweepIInv
<1>5. ASSUME NEW o \in Objs, luaC_checkfinalizer(o) PROVE SweepIInv'
  BY <1>1, <1>5, CheckFinalizerInv DEF SweepIInv
<1>6. CASE StepBegins
  BY <1>1, <1>6, SingleStepIInv DEF StepBegins
<1>7. CASE StepGoesOn
  BY <1>1, <1>7, SingleStepIInv DEF StepGoesOn
<1>8. CASE StepCallsFinalizers
  <2>1. TypeOK' /\ (ctl' = "close" <=> ctl = "close")
        /\ UNCHANGED <<gcstate, sweepgc, next, color, currentwhite, FINALIZEDBIT, held, late>>
    BY <1>2, <1>8 DEF StepCallsFinalizers, TypeOK
  <2>2. QED
    BY <1>1, <2>1, ControlInv DEF SweepIInv
<1>9. CASE StepEnds
  <2>1. TypeOK' /\ (ctl' = "close" <=> ctl = "close")
        /\ UNCHANGED <<gcstate, sweepgc, next, color, currentwhite, FINALIZEDBIT, held, late>>
    BY <1>2, <1>9 DEF StepEnds, TypeOK
  <2>2. QED
    BY <1>1, <2>1, ControlInv DEF SweepIInv
<1>10. CASE GCTM
  BY <1>1, <1>10, GCTMInv DEF SweepIInv
<1>11. CASE FewDone
  <2>1. gcfinnum' \in 0..UINT_MAX
    BY <1>2, <1>11, FinnumAssumption DEF FewDone, TypeOK, Doubled
  <2>2. TypeOK' /\ (ctl' = "close" <=> ctl = "close")
        /\ UNCHANGED <<gcstate, sweepgc, next, color, currentwhite, FINALIZEDBIT, held, late>>
    BY <1>2, <1>11, <2>1 DEF FewDone, TypeOK
  <2>3. QED
    BY <1>1, <2>2, ControlInv DEF SweepIInv
<1>12. CASE FinalizerFails
  <2>1. TypeOK' /\ (ctl' = "close" <=> ctl = "close")
        /\ UNCHANGED <<gcstate, sweepgc, next, color, currentwhite, FINALIZEDBIT, held, late>>
    BY <1>2, <1>12 DEF FinalizerFails, TypeOK
  <2>2. QED
    BY <1>1, <2>1, ControlInv DEF SweepIInv
<1>13. CASE luaC_fullgc
  BY <1>1, <1>13, FullgcInv DEF SweepIInv
<1>14. CASE lua_close
  BY <1>1, <1>14, CloseInv DEF SweepIInv
<1>15. CASE FreeAll
  BY <1>15, FreeAllIInv
<1>16. CASE UNCHANGED vars
  <2>1. TypeOK' /\ (ctl' = "close" <=> ctl = "close")
        /\ UNCHANGED <<gcstate, sweepgc, next, color, currentwhite, FINALIZEDBIT, held, late>>
    BY <1>2, <1>16 DEF vars, TypeOK
  <2>2. QED
    BY <1>1, <2>1, ControlInv DEF SweepIInv
<1>17. QED
  BY <1>3, <1>4, <1>5, <1>6, <1>7, <1>8, <1>9, <1>10, <1>11, <1>12, <1>13, <1>14, <1>15, <1>16
     DEF Next, Program, Collector

\* It is an invariant.
LEMMA SweepInvariant == Spec => []SweepIInv
<1>1. SweepIInv /\ [Next]_vars => SweepIInv'
  BY NextIInv
<1>2. QED
  BY InitIInv, <1>1, PTL DEF Spec

\* The state of the collector has the right types in every reachable state.
THEOREM TypeCorrect == Spec => []TypeOK
<1>1. SweepIInv => TypeOK
  BY DEF SweepIInv, SweepInv
<1>2. QED
  BY SweepInvariant, <1>1, PTL

\* Every allocated object is on exactly one of the lists allgc, finobj and tobefnz,
\* nothing freed is on any, and no list has a cycle, whatever is moved while the
\* sweep is under way.
THEOREM ListsArePartition == Spec => []ListsPartition
<1>1. SweepIInv => ListsPartition
  <2>1. SUFFICES ASSUME NEW aft, SweepInv(aft) PROVE ListsPartition
    BY DEF SweepIInv
  <2>2. \A h \in Headers : InList(h) = aft[h] /\ After(h)[Cardinality(Objs)] = Null
    BY <2>1, InListIs, LinkFacts DEF SweepInv, ListsInv
  <2>3. /\ aft["allgc"] = Allocated \ FINALIZEDBIT /\ aft["finobj"] \cap aft["tobefnz"] = {}
        /\ Allocated = aft["allgc"] \cup aft["finobj"] \cup aft["tobefnz"]
    BY <2>1, InvFacts DEF SweepInv, ListsInv
  <2>4. QED
    BY <2>2, <2>3, LinkFacts DEF ListsPartition
<1>2. QED
  BY SweepInvariant, <1>1, PTL

\* The incremental sweep never stands on the link of a freed object, and stands in
\* the list it sweeps.
THEOREM SweepKeepsPosition == Spec => []SweepPosition
<1>1. SweepIInv => SweepPosition
  <2>1. SUFFICES ASSUME NEW aft, SweepInv(aft) PROVE SweepPosition
    BY DEF SweepIInv
  <2>2. InList("allgc") = aft["allgc"] /\ InList("finobj") = aft["finobj"]
    BY <2>1, InListIs, LinkFacts DEF SweepInv, ListsInv
  <2>3. QED
    BY <2>1, <2>2 DEF SweepPosition, SweepInv, PositionInv, Allocated
<1>2. QED
  BY SweepInvariant, <1>1, PTL

\* What the program holds is neither free nor about to be freed.
THEOREM HeldIsSafe == Spec => []HeldSurvives
<1>1. SweepIInv => HeldSurvives
  BY DEF SweepIInv, SweepInv, ListsInv, DeadInv, HeldSurvives, Allocated
<1>2. QED
  BY SweepInvariant, <1>1, PTL

\* When the sweep ends every object is white again but for what waits in tobefnz.
THEOREM SweepLeavesWhite == Spec => []SweepWhitens
<1>1. SweepIInv => SweepWhitens
  <2>1. SUFFICES ASSUME NEW aft, SweepInv(aft), gcstate = "swpend", NEW o \in Allocated \ InList("tobefnz")
                 PROVE  color[o] = currentwhite
    BY DEF SweepIInv, SweepWhitens
  <2>2. InList("tobefnz") = aft["tobefnz"]
    BY <2>1, InListIs, LinkFacts DEF SweepInv, ListsInv
  <2>3. o \in aft["allgc"] \cup aft["finobj"]
    BY <2>1, <2>2, InvFacts
  <2>4. QED
    BY <2>1, <2>3 DEF SweepInv, WhiteInv
<1>2. QED
  BY SweepInvariant, <1>1, PTL

\* Sweeping frees dead objects without finalizers only.
LEMMA SweepFreesDead ==
  ASSUME NEW aft, SweepInv(aft), NEW p \in Links, NEW s, NEW freed, Sweeps(aft, p, s, freed),
         NEW o \in Objs, color[o] # "free", s.color[o] = "free"
  PROVE  o \notin FINALIZEDBIT /\ Dead(o)
<1>1. PICK aft2 : aft2 = Without(aft, freed)
  OBVIOUS
<1>2. {x \in Objs : s.color[x] # "free"} = Allocated \ freed
  BY <1>1, SweepsFacts
<1>3. o \in freed
  BY <1>2 DEF Allocated
<1>4. freed \cap FINALIZEDBIT = {} /\ Dead(o)
  BY <1>1, <1>3, SweepsFacts
<1>5. QED
  BY <1>3, <1>4

\* Every step frees objects without finalizers only.
LEMMA NoFreeStep ==
  ASSUME SweepIInv, [Next]_vars, NEW o \in Objs, color[o] # "free", color'[o] = "free"
  PROVE  o \notin FINALIZEDBIT \ late
<1>1. PICK aft : SweepInv(aft)
  BY DEF SweepIInv
<1>2. /\ color \in [Objs -> {"free", "w0", "w1", "marked"}] /\ currentwhite \in {"w0", "w1"}
      /\ otherwhite \in {"w0", "w1"} /\ "allgc" \in Links
      /\ sweepgc \in Links \cup {Null}
  BY <1>1, InvFacts, LinkFacts
<1>3. ASSUME NEW p \in Objs, luaC_newobj(p) PROVE o \notin FINALIZEDBIT
  BY <1>2, <1>3 DEF luaC_newobj
<1>4. ASSUME NEW p \in Objs, luaC_checkfinalizer(p) PROVE o \notin FINALIZEDBIT
  <2>1. Moved(p).color[o] = "free"
    <3>1. Moved(p).color[o] = color'[o] \/ (issweepphase /\ Moved(p).color # color')
      BY <1>4 DEF luaC_checkfinalizer
    <3>2. QED
      BY <1>2, <1>4, <3>1 DEF luaC_checkfinalizer
  <2>2. issweepphase /\ sweepgc = p
    BY <2>1 DEF Moved
  <2>3. Moved(p) = SweepToLive(p) /\ p \in Links
    BY <2>2, LinkFacts DEF Moved
  <2>4. QED
    BY <1>1, <2>1, <2>3, SweepToLiveSweeps, SweepFreesDead
<1>5. ASSUME SweepStep("swpallgc", "swpfinobj", "finobj") \/ SweepStep("swpfinobj", "swptobefnz", "tobefnz")
             \/ SweepStep("swptobefnz", "swpend", Null)
      PROVE  o \notin FINALIZEDBIT
  <2>1. sweepgc # Null /\ color' = SweepOne(sweepgc).color
    BY <1>5 DEF SweepStep
  <2>2. QED
    BY <1>1, <1>2, <2>1, SweepOneSweeps, SweepFreesDead
<1>6. CASE luaC_fullgc
  <2>1. color' = SweepOne("allgc").color
    BY <1>6 DEF luaC_fullgc
  <2>2. QED
    BY <1>1, <1>2, <2>1, SweepOneSweeps, SweepFreesDead
<1>7. ASSUME Atomic PROVE o \notin FINALIZEDBIT
  <2>1. PICK white, first, D, cl :
          /\ D = white \ (white \cap FINALIZEDBIT) /\ cl = AllMarked(D)
          /\ color' = IF first = Null THEN cl
                      ELSE [cl EXCEPT ![first] = IF first # Null /\ first \in D THEN "free" ELSE otherwhite]
    BY <1>7 DEF Atomic
  <2>2. cl[o] # "free" /\ cl = [x \in Objs |-> cl[x]]
    BY <2>1 DEF AllMarked
  <2>3. o = first /\ first \in D
    BY <1>2, <2>1, <2>2
  <2>4. QED
    BY <2>1, <2>3
<1>8. ASSUME GCTM PROVE o \notin FINALIZEDBIT
  BY <1>2, <1>8 DEF GCTM
<1>9. CASE FreeAll
  <2>1. next["tobefnz"] = Null /\ ctl = "close"
    BY <1>9 DEF FreeAll
  <2>2. aft["tobefnz"] = {}
    BY <1>1, <2>1, LinkFacts DEF SweepInv, ListsInv, Ordered
  <2>3. QED
    BY <1>1, <2>1, <2>2 DEF SweepInv, ListsInv
<1>10. CASE Pause
  BY <1>2, <1>10 DEF Pause
<1>11. ASSUME NEW p \in Objs, Propagate(p) PROVE FALSE
  BY <1>2, <1>11 DEF Propagate
<1>12. CASE SingleStep
  <2>1. CASE SweepEnd \/ CycleEnds
    BY <2>1 DEF SweepEnd, CycleEnds
  <2>2. QED
    BY <1>5, <1>7, <1>10, <1>11, <1>12, <2>1 DEF SingleStep
<1>13. CASE UNCHANGED color
  BY <1>13
<1>14. ASSUME \/ \E p \in Objs : Drop(p)
              \/ StepCallsFinalizers \/ StepEnds \/ FewDone \/ FinalizerFails \/ lua_close
              \/ UNCHANGED vars
       PROVE  UNCHANGED color
  BY <1>14 DEF Drop, StepCallsFinalizers, StepEnds, FewDone, FinalizerFails, lua_close, vars
<1>15. QED
  BY <1>3, <1>4, <1>6, <1>8, <1>9, <1>12, <1>13, <1>14
     DEF Next, Program, Collector, StepBegins, StepGoesOn

\* No step frees an object with a finalizer before it was called, but for those
\* that a finalizer called at closing has made so.
THEOREM FinalizersComeFirst == Spec => NoFreeBeforeFinalizer
<1>1. SweepIInv /\ [Next]_vars =>
        [\A o \in Objs : color[o] # "free" /\ color'[o] = "free" => o \notin FINALIZEDBIT \ late]_vars
  BY NoFreeStep
<1>2. QED
  BY SweepInvariant, <1>1, PTL DEF Spec, NoFreeBeforeFinalizer
=============================================================================
