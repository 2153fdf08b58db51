---------------------------- MODULE LibraryProofs ----------------------------
(***************************************************************************)
(* The invariants of the tables, the files, the loader of modules and the  *)
(* strings.  A table is a map (LuaTable), for any keys and hash functions. *)
(* Chains are taken as a pair: nx, the next node of each, and aft, the     *)
(* nodes that come after each.  Ordered says that the two agree and that   *)
(* chains have neither cycles nor shared parts; what insertions do to      *)
(* chains keeps it.                                                        *)
(***************************************************************************)
EXTENDS LuaTable, LuaFiles, LuaRequire, LuaStrings, FiniteSetTheorems, WellFoundedInduction, TLAPS

-----------------------------------------------------------------------------
(* Numbers.                                                                *)

\* What holds of 0 and of the next number with each number holds up to N.
LEMMA Upto ==
  ASSUME NEW N \in Nat, NEW S, 0 \in S, \A k \in 0..(N - 1) : k \in S => k + 1 \in S
  PROVE  \A k \in 0..N : k \in S
<1> DEFINE D == {i \in 0..N : \A j \in 0..i : j \in S}
           c == Cardinality(D)
<1>1. ASSUME NEW i \in 0..(N + 1) PROVE Cardinality(0..(i - 1)) = i /\ IsFiniteSet(0..(i - 1))
  BY FS_Interval
<1>2. IsFiniteSet(D) /\ c \in Nat /\ c <= N + 1
  <2>1. D \in SUBSET (0..N) /\ N + 1 \in 0..(N + 1) /\ 0..N = 0..((N + 1) - 1)
    OBVIOUS
  <2>2. IsFiniteSet(0..N) /\ Cardinality(0..N) = N + 1
    BY <1>1, <2>1
  <2>3. IsFiniteSet(D) /\ c <= Cardinality(0..N)
    BY <2>1, <2>2, FS_Subset
  <2>4. QED
    BY <2>2, <2>3, FS_CardinalityType
<1>3. ASSUME NEW i \in D PROVE i + 1 <= c
  <2>1. 0..i \in SUBSET D /\ i + 1 \in 0..(N + 1) /\ 0..i = 0..((i + 1) - 1)
    OBVIOUS
  <2>2. Cardinality(0..i) = i + 1 /\ Cardinality(0..i) <= c
    BY <1>1, <1>2, <2>1, FS_Subset
  <2>3. QED
    BY <2>2
<1>4. ASSUME NEW i \in 0..N, i \notin D PROVE c <= i
  <2>1. D \in SUBSET (0..(i - 1)) /\ i \in 0..(N + 1)
    BY <1>4
  <2>2. Cardinality(0..(i - 1)) = i /\ c <= Cardinality(0..(i - 1))
    BY <1>1, <2>1, FS_Subset
  <2>3. QED
    BY <2>2
<1>5. 0 \in D
  OBVIOUS
<1> HIDE DEF c
<1>6. ASSUME c <= N PROVE FALSE
  <2>1. c \in 0..N /\ c - 1 \in 0..(N - 1)
    BY <1>2, <1>3, <1>5, <1>6
  <2>2. c - 1 \in D /\ c \notin D
    BY <1>2, <1>3, <1>4, <2>1
  <2>3. \A j \in 0..(c - 1) : j \in S
    BY <2>1, <2>2
  <2>4. c \in S
    BY <2>1, <2>3
  <2>5. QED
    BY <2>1, <2>2, <2>3, <2>4
<1>7. N \in D
  BY <1>2, <1>4, <1>6
<1>8. QED
  BY <1>7

\* A nonempty set of numbers has a least one.
LEMMA Least ==
  ASSUME NEW S \in SUBSET Nat, S # {}
  PROVE  \E n \in S : \A m \in S : n <= m
<1>1. IsWellFoundedOn(OpToRel(<, Nat), Nat)
  BY NatLessThanWellFounded
<1>2. \E n \in S : \A m \in S : <<m, n>> \notin OpToRel(<, Nat)
  BY <1>1, WFMin
<1>3. PICK n \in S : \A m \in S : ~(m < n)
  BY <1>2 DEF OpToRel
<1>4. QED
  BY <1>3


\* The least number of a set, and the greatest one of a finite set.
LEMMA MinIs ==
  ASSUME NEW S \in SUBSET Nat, S # {}
  PROVE  Min(S) \in S /\ \A x \in S : Min(S) <= x
BY Least DEF Min

\* The greatest of a finite set of integers is in it.
LEMMA MaxIs ==
  ASSUME NEW S \in SUBSET Int, IsFiniteSet(S), S # {}
  PROVE  Max(S) \in S /\ \A x \in S : x <= Max(S)
<1> DEFINE Greatest(T) == T = {} \/ \E x \in T : \A y \in T : y <= x
           C == Cardinality(S)
           P == {n \in 0..C : \A T \in SUBSET S : Cardinality(T) = n => Greatest(T)}
<1>1. C \in Nat /\ \A T \in SUBSET S : IsFiniteSet(T) /\ Cardinality(T) \in Nat
  BY FS_CardinalityType, FS_Subset
<1>2. 0 \in P
  BY <1>1, FS_EmptySet
<1>3. ASSUME NEW n \in 0..(C - 1), n \in P PROVE n + 1 \in P
  <2>1. ASSUME NEW T \in SUBSET S, Cardinality(T) = n + 1 PROVE Greatest(T)
    <3>1. CASE T # {}
      <4>1. PICK x \in T : TRUE
        BY <3>1
      <4>2. T \ {x} \in SUBSET S /\ Cardinality(T \ {x}) = n
        <5>1. Cardinality(T \ {x}) = Cardinality(T) - 1
          BY <1>1, <4>1, FS_RemoveElement
        <5>2. QED
          BY <1>1, <2>1, <5>1
      <4>3. Greatest(T \ {x})
        BY <1>3, <4>2
      <4>4. CASE T \ {x} = {}
        <5>1. \A y \in T : y = x
          BY <4>4
        <5>2. x \in Int
          BY <4>1
        <5>3. QED
          BY <4>1, <5>1, <5>2
      <4>5. CASE T \ {x} # {}
        <5>1. PICK z \in T \ {x} : \A y \in T \ {x} : y <= z
          BY <4>3, <4>5
        <5>2. x \in Int /\ z \in Int /\ z \in T /\ \A y \in T : y = x \/ y <= z
          BY <5>1
        <5>3. x <= z \/ z <= x
          BY <5>2
        <5>4. ASSUME x <= z PROVE \A y \in T : y <= z
          BY <5>2, <5>4
        <5>5. ASSUME z <= x PROVE \A y \in T : y <= x
          <6>1. \A y \in T : y \in Int
            OBVIOUS
          <6>2. QED
            BY <5>2, <5>5, <6>1
        <5>6. QED
          BY <4>1, <5>2, <5>3, <5>4, <5>5
      <4>6. QED
        BY <4>4, <4>5
    <3>2. QED
      BY <3>1
  <2>2. n + 1 \in 0..C
    BY <1>1
  <2> HIDE DEF Greatest
  <2>3. QED
    BY <2>1, <2>2
<1>4. C \in P
  <2> HIDE DEF P, C
  <2>1. \A n \in 0..C : n \in P
    BY <1>1, <1>2, <1>3, Upto
  <2>2. QED
    BY <1>1, <2>1
<1>5. Greatest(S)
  BY <1>4
<1>6. QED
  BY <1>5 DEF Max

-----------------------------------------------------------------------------
(* Chains.                                                                 *)

\* aft are the nodes after each of the nodes 1 to N, whose links are nx.
ChainTypes(N, nx, aft) ==
  /\ N \in Nat /\ nx \in [0..N -> 0..N] /\ nx[0] = 0 /\ aft \in [1..N -> SUBSET (1..N)]
  /\ \A i \in 1..N : i \notin aft[i]
  /\ \A i, j \in 1..N : nx[i] = nx[j] => i = j \/ nx[i] = 0
ChainSteps(N, nx, aft) ==
  /\ \A i \in 1..N : nx[i] = 0 => aft[i] = {}
  /\ \A i \in 1..N : nx[i] # 0 => aft[i] = {nx[i]} \cup aft[nx[i]]
ChainOrder(N, nx, aft) ==
  /\ \A i \in 1..N : \A j \in aft[i] : aft[j] \subseteq aft[i]
  /\ \A i \in 1..N : \A x, y \in aft[i] : x = y \/ x \in aft[y] \/ y \in aft[x]
  /\ \A i \in 1..N : \A j \in aft[i] : \E m \in {i} \cup aft[i] : nx[m] = j
Ordered(N, nx, aft) == ChainTypes(N, nx, aft) /\ ChainSteps(N, nx, aft) /\ ChainOrder(N, nx, aft)

\* One step along the links.
Step(nx, i, f, n) == IF n = 0 THEN i ELSE nx[f[n - 1]]

\* The recursive function chain is what its definition says.
LEMMA ChainIs ==
  ASSUME NEW N \in Nat, NEW nx, DOMAIN nx = 0..N, NEW i
  PROVE  chain(nx, i) = [n \in 0..N |-> Step(nx, i, chain(nx, i), n)]
<1> DEFINE S == {n \in 0..N : \E f : f = [k \in 0..n |-> Step(nx, i, f, k)]}
<1>1. 0 \in S
  <2> DEFINE f == [k \in 0..0 |-> i]
  <2>1. f = [k \in 0..0 |-> Step(nx, i, f, k)]
    BY DEF Step
  <2>2. QED
    BY <2>1
<1>2. ASSUME NEW n \in 0..(N - 1), n \in S PROVE n + 1 \in S
  <2>1. PICK f : f = [k \in 0..n |-> Step(nx, i, f, k)]
    BY <1>2
  <2> DEFINE longer == [k \in 0..(n + 1) |-> IF k <= n THEN f[k] ELSE Step(nx, i, f, n + 1)]
  <2>2. ASSUME NEW k \in 0..(n + 1) PROVE longer[k] = Step(nx, i, longer, k)
    BY <2>1 DEF Step
  <2>3. longer = [k \in 0..(n + 1) |-> Step(nx, i, longer, k)]
    BY <2>2
  <2>4. n + 1 \in 0..N
    OBVIOUS
  <2>5. \E h : h = [k \in 0..(n + 1) |-> Step(nx, i, h, k)]
    BY <2>3
  <2>6. QED
    BY <2>4, <2>5
<1>3. N \in S
  <2>1. \A k \in 0..N : k \in S
    <3> HIDE DEF S
    <3> QED
      BY <1>1, <1>2, Upto
  <2>2. QED
    BY <2>1
<1>4. \E f : f = [k \in 0..N |-> Step(nx, i, f, k)]
  BY <1>3
<1>5. QED
  BY <1>4 DEF chain, Step

\* What comes after a node is the next one, and what comes after that.
LEMMA LinkStep ==
  ASSUME NEW N, NEW nx, NEW aft, Ordered(N, nx, aft), NEW m \in 1..N, NEW j \in aft[m]
  PROVE  nx[m] # 0 /\ (j = nx[m] \/ j \in aft[nx[m]])
<1>1. nx[m] = 0 => aft[m] = {}
  BY DEF Ordered, ChainTypes, ChainSteps, ChainOrder
<1>2. nx[m] # 0 => aft[m] = {nx[m]} \cup aft[nx[m]]
  BY DEF Ordered, ChainTypes, ChainSteps, ChainOrder
<1>3. QED
  BY <1>1, <1>2

\* Following the links from i one meets i and the nodes after it in their order, then 0.
LEMMA Chase ==
  ASSUME NEW N, NEW nx, NEW aft, Ordered(N, nx, aft), NEW i \in 1..N, NEW f, f = chain(nx, i)
  PROVE  /\ DOMAIN f = 0..N
         /\ \A n \in 0..N : f[n] = 0 \/ f[n] = i \/ f[n] \in aft[i]
         /\ \A m, n \in 0..N : m < n /\ f[n] # 0 => f[m] # 0 /\ f[n] \in aft[f[m]]
         /\ \A j \in {i} \cup aft[i] : \E n \in 0..N : f[n] = j
<1>1. N \in Nat /\ f = [n \in 0..N |-> Step(nx, i, f, n)]
  BY ChainIs DEF Ordered, ChainTypes, ChainSteps, ChainOrder
<1>2. f[0] = i /\ DOMAIN f = 0..N /\ \A n \in 0..(N - 1) : f[n + 1] = nx[f[n]]
  <2>1. \A n \in 0..N : f[n] = Step(nx, i, f, n)
    BY <1>1
  <2>2. \A n \in 0..(N - 1) : n + 1 \in 0..N /\ n + 1 # 0 /\ (n + 1) - 1 = n
    BY <1>1
  <2>3. \A n \in 0..(N - 1) : f[n + 1] = nx[f[n]]
    BY <2>1, <2>2 DEF Step
  <2>4. f[0] = i
    BY <1>1, <2>1 DEF Step
  <2>5. QED
    BY <1>1, <2>3, <2>4
<1>3. nx[0] = 0 /\ \A m \in 1..N : aft[m] \subseteq 1..N /\ (nx[m] = 0 \/ nx[m] \in aft[m])
  BY DEF Ordered, ChainTypes, ChainSteps, ChainOrder
<1>4. \A m \in 1..N : \A o \in aft[m] : o \in 1..N /\ aft[o] \subseteq aft[m]
  BY <1>3 DEF Ordered, ChainTypes, ChainSteps, ChainOrder
<1>5. \A n \in 0..N : f[n] = 0 \/ f[n] = i \/ f[n] \in aft[i]
  <2> DEFINE S == {n \in 0..N : f[n] = 0 \/ f[n] = i \/ f[n] \in aft[i]}
  <2>1. 0 \in S
    BY <1>1, <1>2
  <2>2. ASSUME NEW n \in 0..(N - 1), n \in S PROVE n + 1 \in S
    <3>1. n + 1 \in 0..N /\ f[n + 1] = nx[f[n]]
      BY <1>1, <1>2
    <3>2. CASE f[n] = 0
      BY <1>3, <3>1, <3>2
    <3>3. CASE f[n] = i
      BY <1>3, <3>1, <3>3
    <3>4. CASE f[n] \in aft[i]
      BY <1>3, <1>4, <3>1, <3>4
    <3>5. QED
      BY <2>2, <3>2, <3>3, <3>4
  <2> HIDE DEF S
  <2>3. \A n \in 0..N : n \in S
    BY <1>1, <2>1, <2>2, Upto
  <2>4. QED
    BY <2>3 DEF S
<1>6. \A n \in 0..N : f[n] # 0 => f[n] \in 1..N
  BY <1>3, <1>5
<1>7. ASSUME NEW m \in 0..N, NEW n \in 0..N, m < n, f[n] # 0
      PROVE  f[m] # 0 /\ f[n] \in aft[f[m]]
  <2> DEFINE S == {k \in 0..N : m < k /\ f[k] # 0 => f[m] # 0 /\ f[k] \in aft[f[m]]}
  <2>1. 0 \in S
    BY <1>1
  <2>2. ASSUME NEW k \in 0..(N - 1), k \in S PROVE k + 1 \in S
    <3>1. SUFFICES ASSUME m < k + 1, f[k + 1] # 0 PROVE f[m] # 0 /\ f[k + 1] \in aft[f[m]]
      BY <1>1
    <3>2. k \in 0..N /\ f[k] # 0 /\ f[k + 1] = nx[f[k]] /\ f[k] \in 1..N
      <4>1. f[k + 1] = nx[f[k]]
        BY <1>2
      <4>2. k \in 0..N /\ f[k + 1] = nx[f[k]]
        BY ONLY <1>1, <4>1, k \in 0..(N - 1)
      <4>3. f[k] # 0
        BY <1>3, <3>1, <4>2
      <4>4. QED
        BY <1>6, <4>2, <4>3
    <3>3. f[k + 1] \in aft[f[k]]
      BY <1>3, <3>1, <3>2
    <3>4. m = k \/ m < k
      BY <3>1
    <3>5. ASSUME m < k PROVE f[m] # 0 /\ f[k + 1] \in aft[f[m]]
      <4>1. f[m] # 0 /\ f[k] \in aft[f[m]]
        BY <2>2, <3>2, <3>5
      <4>2. f[m] \in 1..N
        BY <1>6, <4>1
      <4>3. QED
        BY <1>4, <3>3, <4>1, <4>2
    <3>6. QED
      BY <3>2, <3>3, <3>4, <3>5
  <2> HIDE DEF S
  <2>3. n \in S
    BY <1>1, <2>1, <2>2, Upto
  <2>4. QED
    BY <1>7, <2>3 DEF S
<1>8. ASSUME NEW j \in {i} \cup aft[i] PROVE \E n \in 0..N : f[n] = j
  <2>1. SUFFICES ASSUME \A n \in 0..N : f[n] # j PROVE FALSE
    OBVIOUS
  <2> DEFINE S == {n \in 0..N : f[n] # 0 /\ j \in aft[f[n]]}
  <2>2. \A m \in 1..N : j \in aft[m] => nx[m] # 0 /\ (j = nx[m] \/ j \in aft[nx[m]])
    BY LinkStep
  <2>3. 0 \in S
    BY <1>1, <1>2, <2>1
  <2>4. ASSUME NEW k \in 0..(N - 1), k \in S PROVE k + 1 \in S
    <3>1. k \in 0..N /\ k + 1 \in 0..N /\ f[k] \in 1..N
      BY <1>1, <1>6, <2>4
    <3>2. f[k + 1] = nx[f[k]]
      BY <1>2, <2>4
    <3>3. QED
      BY <2>1, <2>2, <2>4, <3>1, <3>2
  <2> HIDE DEF S
  <2>5. \A n \in 0..N : n \in S
    BY <1>1, <2>3, <2>4, Upto
  <2>6. \A n \in 0..N : f[n] \in 1..N
    BY <1>6, <2>5 DEF S
  <2>7. f \in [0..N -> 1..N]
    BY <1>1, <2>6
  <2>8. IsFiniteSet(0..N) /\ Cardinality(0..N) = N + 1 /\ IsFiniteSet(1..N) /\ Cardinality(1..N) = N
    BY <1>1, FS_Interval
  <2>9. PICK m, n \in 0..N : m # n /\ f[m] = f[n]
    <3>1. Cardinality(1..N) < Cardinality(0..N)
      BY <1>1, <2>8
    <3>2. \E m, n \in 0..N : m # n /\ f[m] = f[n]
      BY ONLY <2>7, <2>8, <3>1, FS_PigeonHole
    <3>3. QED
      BY <3>2
  <2>10. \A x \in 1..N : x \notin aft[x]
    BY DEF Ordered, ChainTypes, ChainSteps, ChainOrder
  <2>11. m < n \/ n < m
    BY <1>1, <2>9
  <2>12. QED
    BY <1>7, <2>6, <2>9, <2>10, <2>11
<1>9. QED
  BY <1>2, <1>5, <1>7, <1>8

\* The first node of S in the chain from i: the others come after it.
LEMMA FirstIs ==
  ASSUME NEW N, NEW nx, NEW aft, Ordered(N, nx, aft), NEW i \in 1..N, NEW S \in SUBSET (1..N),
         NEW j, j = firstof(chain(nx, i), S)
  PROVE  IF \E x \in S : x = i \/ x \in aft[i]
         THEN /\ j \in S /\ (j = i \/ j \in aft[i])
              /\ \A x \in S : x = i \/ x \in aft[i] => x = j \/ x \in aft[j]
         ELSE j = 0
<1> DEFINE f == chain(nx, i)
           T == {n \in DOMAIN f : f[n] \in S}
<1>1. /\ DOMAIN f = 0..N
      /\ \A n \in 0..N : f[n] = 0 \/ f[n] = i \/ f[n] \in aft[i]
      /\ \A m, n \in 0..N : m < n /\ f[n] # 0 => f[m] # 0 /\ f[n] \in aft[f[m]]
      /\ \A x \in {i} \cup aft[i] : \E n \in 0..N : f[n] = x
  BY Chase
<1>2. N \in Nat /\ \A x \in S : x # 0
  BY DEF Ordered, ChainTypes, ChainSteps, ChainOrder
<1> HIDE DEF f
<1>3. CASE \E x \in S : x = i \/ x \in aft[i]
  <2>1. T # {} /\ T \in SUBSET Nat
    BY <1>1, <1>2, <1>3
  <2> DEFINE n == Min(T)
  <2>2. n \in T /\ \A m \in T : n <= m
    BY <2>1, MinIs
  <2>3. j = f[n] /\ n \in 0..N /\ j \in S /\ j # 0
    <3>1. \E m \in DOMAIN f : f[m] \in S
      BY <2>1
    <3>2. QED
      BY <1>1, <1>2, <2>2, <3>1 DEF firstof, f
  <2> HIDE DEF n
  <2>4. ASSUME NEW x \in S, x = i \/ x \in aft[i] PROVE x = j \/ x \in aft[j]
    <3>1. PICK m \in 0..N : f[m] = x
      BY <1>1, <2>4
    <3>2. m \in T /\ n <= m
      BY <1>1, <2>2, <3>1
    <3>3. m = n \/ n < m
      BY <1>2, <2>3, <3>2
    <3>4. QED
      BY <1>1, <1>2, <2>3, <3>1, <3>3
  <2>5. QED
    BY <1>1, <1>3, <2>3, <2>4
<1>4. CASE ~ \E x \in S : x = i \/ x \in aft[i]
  <2>1. \A n \in DOMAIN f : f[n] \notin S
    BY <1>1, <1>2, <1>4
  <2>2. QED
    BY <1>4, <2>1 DEF firstof, f
<1>5. QED
  BY <1>3, <1>4

\* In a new table nothing comes after anything.
LEMMA NewOrdered ==
  ASSUME NEW N \in Nat
  PROVE  Ordered(N, [i \in 0..N |-> 0], [i \in 1..N |-> {}])
BY DEF Ordered, ChainTypes, ChainSteps, ChainOrder

\* Node mp moves to f, which is in no chain, and keeps its place in its chain.
Moved(aft, mp, f) ==
  [i \in DOMAIN aft |-> CASE i = f -> aft[mp]
                          [] i = mp -> {}
                          [] i \notin {f, mp} /\ mp \in aft[i] -> (aft[i] \ {mp}) \cup {f}
                          [] OTHER -> aft[i]]
\* Node f is in no chain.
Loose(N, nx, f) == nx[f] = 0 /\ \A i \in 1..N : nx[i] # f

\* What is in no chain comes after nothing, and nothing comes after it.
LEMMA LooseIs ==
  ASSUME NEW N, NEW nx, NEW aft, Ordered(N, nx, aft), NEW f \in 1..N, Loose(N, nx, f)
  PROVE  aft[f] = {} /\ \A i \in 1..N : f \notin aft[i]
<1>1. aft[f] = {}
  BY DEF Ordered, ChainTypes, ChainSteps, ChainOrder, Loose
<1>2. ASSUME NEW i \in 1..N, f \in aft[i] PROVE FALSE
  <2>1. \E m \in {i} \cup aft[i] : nx[m] = f
    BY <1>2 DEF Ordered, ChainTypes, ChainSteps, ChainOrder
  <2>2. aft[i] \subseteq 1..N
    BY DEF Ordered, ChainTypes, ChainSteps, ChainOrder
  <2>3. QED
    BY <2>1, <2>2 DEF Loose
<1>3. QED
  BY <1>1, <1>2

\* The links after that, where b is the node before mp.
MovedLinks(N, nx, nx1, b, mp, f) ==
  /\ b \in 1..N /\ mp \in 1..N /\ f \in 1..N /\ nx[b] = mp /\ Loose(N, nx, f)
  /\ nx1 \in [0..N -> 0..N] /\ nx1[0] = 0 /\ nx1[b] = f /\ nx1[f] = nx[mp] /\ nx1[mp] = 0
  /\ \A i \in 1..N : i \notin {b, f, mp} => nx1[i] = nx[i]

\* Chains stay chains when a node moves to a place that is in none (evict).
LEMMA EvictOrdered ==
  ASSUME NEW N, NEW nx, NEW aft, Ordered(N, nx, aft), NEW nx1, NEW b, NEW mp, NEW f, MovedLinks(N, nx, nx1, b, mp, f)
  PROVE  Ordered(N, nx1, Moved(aft, mp, f))
<1> USE DEF MovedLinks
<1> DEFINE af1 == Moved(aft, mp, f)
<1>1. /\ N \in Nat /\ nx \in [0..N -> 0..N] /\ nx[0] = 0 /\ aft \in [1..N -> SUBSET (1..N)]
      /\ \A i \in 1..N : i \notin aft[i]
      /\ \A i, j \in 1..N : nx[i] = nx[j] => i = j \/ nx[i] = 0
      /\ \A i \in 1..N : nx[i] \in 0..N /\ i # 0 /\ aft[i] \subseteq 1..N
  <2>1. ChainTypes(N, nx, aft)
    BY DEF Ordered
  <2>2. N \in Nat /\ nx \in [0..N -> 0..N] /\ aft \in [1..N -> SUBSET (1..N)]
    BY <2>1 DEF ChainTypes
  <2>3. ASSUME NEW i \in 1..N PROVE nx[i] \in 0..N /\ i # 0 /\ aft[i] \subseteq 1..N
    <3>1. i \in 0..N /\ i # 0
      BY <2>2
    <3>2. QED
      BY <2>2, <3>1
  <2>4. QED
    BY <2>1, <2>3 DEF ChainTypes
<1>2. /\ \A i \in 1..N : nx[i] = 0 => aft[i] = {}
      /\ \A i \in 1..N : nx[i] # 0 => aft[i] = {nx[i]} \cup aft[nx[i]]
  BY DEF Ordered, ChainSteps
<1>3. /\ \A i \in 1..N : \A j \in aft[i] : aft[j] \subseteq aft[i]
      /\ \A i \in 1..N : \A x, y \in aft[i] : x = y \/ x \in aft[y] \/ y \in aft[x]
      /\ \A i \in 1..N : \A j \in aft[i] : \E m \in {i} \cup aft[i] : nx[m] = j
  BY DEF Ordered, ChainOrder
<1>4. aft[f] = {} /\ (\A i \in 1..N : f \notin aft[i]) /\ nx[f] = 0 /\ \A i \in 1..N : nx[i] # f
  BY LooseIs DEF Loose
<1>5. b # mp /\ b # f /\ mp # f /\ mp \in aft[b] /\ aft[b] = {mp} \cup aft[mp] /\ mp # 0 /\ f # 0
  <2>1. mp # 0 /\ f # 0
    BY <1>1
  <2>2. aft[b] = {mp} \cup aft[mp]
    BY <1>2, <2>1
  <2>3. b \notin aft[b] /\ mp \notin aft[mp]
    BY <1>1
  <2>4. b # f /\ mp # f
    BY <1>4, <2>1
  <2>5. QED
    BY <2>1, <2>2, <2>3, <2>4
<1>6. /\ nx1 \in [0..N -> 0..N] /\ nx1[0] = 0 /\ nx1[b] = f /\ nx1[f] = nx[mp] /\ nx1[mp] = 0
      /\ \A i \in 1..N : i \notin {b, f, mp} => nx1[i] = nx[i]
  OBVIOUS
<1>7. /\ af1[f] = aft[mp] /\ af1[mp] = {}
      /\ \A i \in 1..N : i \notin {f, mp} => af1[i] = IF mp \in aft[i] THEN (aft[i] \ {mp}) \cup {f} ELSE aft[i]
      /\ DOMAIN af1 = 1..N
  BY <1>1, <1>5 DEF Moved
<1>8. af1 \in [1..N -> SUBSET (1..N)]
  <2>1. \A i \in 1..N : af1[i] \in SUBSET (1..N)
    <3>1. SUFFICES ASSUME NEW i \in 1..N PROVE af1[i] \subseteq 1..N
      OBVIOUS
    <3>2. aft[i] \subseteq 1..N /\ aft[mp] \subseteq 1..N
      BY <1>1
    <3> HIDE DEF af1
    <3>3. QED
      BY <1>7, <3>2
  <2>2. af1 = [i \in 1..N |-> af1[i]]
    BY <1>7 DEF Moved
  <2>3. QED
    BY <2>1, <2>2
<1> HIDE DEF af1
\* Who comes after whom.
<1>9. ASSUME NEW i \in 1..N, NEW j \in af1[i]
      PROVE  /\ j # mp /\ i # mp /\ j \in 1..N
             /\ (j # f => IF i = f THEN j \in aft[mp] ELSE j \in aft[i])
             /\ (j = f => i # f /\ mp \in aft[i])
  <2>1. mp \notin aft[mp] /\ mp # f /\ i # mp
    BY <1>1, <1>5, <1>7, <1>9
  <2>2. aft[i] \subseteq 1..N /\ aft[mp] \subseteq 1..N /\ f \notin aft[i] /\ f \notin aft[mp]
    BY <1>1, <1>4
  <2>3. CASE i = f
    BY <1>7, <1>9, <2>1, <2>2, <2>3
  <2>4. CASE i # f
    BY <1>7, <1>9, <2>1, <2>2, <2>4
  <2>5. QED
    BY <2>3, <2>4
<1>10. ASSUME NEW i \in 1..N, nx1[i] = 0 PROVE af1[i] = {}
  <2>1. CASE i = f
    BY <1>2, <1>6, <1>7, <1>10, <2>1
  <2>2. CASE i = mp
    BY <1>7, <2>2
  <2>3. CASE i \notin {f, mp}
    BY <1>2, <1>5, <1>6, <1>7, <1>10, <2>3
  <2>4. QED
    BY <2>1, <2>2, <2>3
<1>11. ASSUME NEW i \in 1..N, nx1[i] # 0 PROVE af1[i] = {nx1[i]} \cup af1[nx1[i]]
  <2>1. CASE i = f
    <3>1. nx[mp] # 0 /\ nx[mp] \in 1..N /\ nx[mp] # mp /\ nx[mp] # f /\ mp \notin aft[nx[mp]]
      <4>1. nx[mp] # 0 /\ nx[mp] \in 1..N
        BY <1>1, <1>6, <1>11, <2>1
      <4>2. nx[mp] \in aft[mp] /\ aft[mp] = {nx[mp]} \cup aft[nx[mp]]
        BY <1>2, <4>1
      <4>3. QED
        BY <1>1, <1>4, <4>1, <4>2
    <3>2. af1[nx[mp]] = aft[nx[mp]]
      BY <1>7, <3>1
    <3>3. QED
      BY <1>2, <1>6, <1>7, <2>1, <3>1, <3>2
  <2>2. CASE i = b
    <3>1. mp \notin aft[mp]
      BY <1>1
    <3>2. af1[b] = (aft[b] \ {mp}) \cup {f} /\ af1[f] = aft[mp] /\ nx1[b] = f
      BY <1>5, <1>6, <1>7
    <3>3. QED
      BY <1>5, <2>2, <3>1, <3>2
  <2>3. CASE i \notin {f, b}
    <3>1. i # mp /\ nx1[i] = nx[i] /\ nx[i] # 0 /\ nx[i] \in 1..N
      <4>1. i # mp /\ nx1[i] = nx[i]
        BY <1>6, <1>11, <2>3
      <4>2. nx[i] \in 0..N /\ N \in Nat
        BY <1>1
      <4>3. QED
        BY <1>11, <4>1, <4>2
    <3>2. nx[i] # mp /\ nx[i] # f
      BY <1>1, <1>4, <1>5, <2>3, <3>1
    <3>3. aft[i] = {nx[i]} \cup aft[nx[i]]
      BY <1>2, <3>1
    <3>4. QED
      BY <1>7, <2>3, <3>1, <3>2, <3>3
  <2>4. QED
    BY <2>1, <2>2, <2>3
<1>12. ASSUME NEW i \in 1..N PROVE i \notin af1[i]
  <2>1. i \notin aft[i] /\ f \notin aft[mp]
    BY <1>1, <1>4
  <2>2. QED
    BY <1>7, <2>1
<1>13. ASSUME NEW i \in 1..N, NEW j \in af1[i] PROVE af1[j] \subseteq af1[i]
  <2>1. j # mp /\ i # mp /\ j \in 1..N
    BY <1>9
  <2>2. CASE j = f
    <3>1. i # f /\ mp \in aft[i] /\ aft[mp] \subseteq aft[i] /\ mp \notin aft[mp]
      BY <1>1, <1>3, <1>9, <2>2
    <3>2. QED
      BY <1>4, <1>7, <2>1, <2>2, <3>1
  <2>3. CASE j # f /\ i = f
    <3>1. j \in aft[mp] /\ aft[j] \subseteq aft[mp] /\ mp \notin aft[mp]
      BY <1>1, <1>3, <1>9, <2>3
    <3>2. QED
      BY <1>4, <1>7, <2>1, <2>3, <3>1
  <2>4. CASE j # f /\ i # f
    <3>1. j \in aft[i] /\ aft[j] \subseteq aft[i]
      BY <1>3, <1>9, <2>4
    <3>2. QED
      BY <1>4, <1>7, <2>1, <2>4, <3>1
  <2>5. QED
    BY <2>2, <2>3, <2>4
<1>14. ASSUME NEW i \in 1..N, NEW x \in af1[i], NEW y \in af1[i] PROVE x = y \/ x \in af1[y] \/ y \in af1[x]
  <2> DEFINE c == IF i = f THEN mp ELSE i
             O(z) == IF z = f THEN mp ELSE z
  <2>1. c \in 1..N /\ i # mp /\ x # mp /\ y # mp /\ x \in 1..N /\ y \in 1..N
    BY <1>9
  <2>2. O(x) \in aft[c] /\ O(y) \in aft[c]
    BY <1>9
  <2>3. O(x) = O(y) \/ O(x) \in aft[O(y)] \/ O(y) \in aft[O(x)]
    BY <1>3, <2>1, <2>2
  <2>4. ASSUME NEW v \in 1..N, NEW w \in 1..N, v # mp, w # mp, O(v) \in aft[O(w)] PROVE v \in af1[w]
    <3>1. CASE w = f
      BY <1>1, <1>7, <2>4, <3>1
    <3>2. CASE w # f /\ v = f
      BY <1>7, <2>4, <3>2
    <3>3. CASE w # f /\ v # f
      BY <1>7, <2>4, <3>3
    <3>4. QED
      BY <3>1, <3>2, <3>3
  <2>5. O(x) = O(y) => x = y
    BY <2>1
  <2> HIDE DEF O
  <2>6. QED
    BY <2>1, <2>3, <2>4, <2>5
<1>15. ASSUME NEW i \in 1..N, NEW j \in af1[i] PROVE \E m \in {i} \cup af1[i] : nx1[m] = j
  <2>1. j # mp /\ i # mp /\ j \in 1..N /\ nx1[i] # 0
    BY <1>9, <1>10
  <2>2. CASE j = f
    <3>1. i # f /\ mp \in aft[i]
      BY <1>9, <2>2
    <3>2. PICK m \in {i} \cup aft[i] : nx[m] = mp
      BY <1>3, <3>1
    <3>3. m \in 1..N /\ m = b
      <4>1. m \in 1..N /\ nx[m] = nx[b] /\ nx[b] # 0
        BY <1>1, <1>5, <3>2
      <4>2. QED
        BY <1>1, <4>1
    <3>4. b \in {i} \cup af1[i]
      BY <1>5, <1>7, <2>1, <3>1, <3>2, <3>3
    <3>5. QED
      BY <1>6, <2>2, <3>4
  <2>3. CASE j # f /\ i = f
    <3>1. j \in aft[mp]
      BY <1>9, <2>3
    <3>2. PICK m \in {mp} \cup aft[mp] : nx[m] = j
      BY <1>3, <3>1
    <3>3. CASE m = mp
      BY <1>6, <2>3, <3>2, <3>3
    <3>4. CASE m # mp
      <4>1. m \in aft[mp] /\ m \in 1..N /\ m # f /\ m # b
        BY <1>1, <1>4, <1>5, <2>1, <3>2, <3>4
      <4>2. QED
        BY <1>6, <1>7, <2>3, <3>2, <3>4, <4>1
    <3>5. QED
      BY <3>3, <3>4
  <2>4. CASE j # f /\ i # f
    <3>1. j \in aft[i]
      BY <1>9, <2>4
    <3>2. PICK m \in {i} \cup aft[i] : nx[m] = j
      BY <1>3, <3>1
    <3>3. m \in 1..N /\ m # f /\ m # b
      BY <1>1, <1>4, <1>5, <2>1, <2>4, <3>2
    <3>4. CASE m = mp
      <4>1. f \in af1[i] /\ nx1[f] = j
        BY <1>6, <1>7, <2>1, <2>4, <3>2, <3>4
      <4>2. QED
        BY <4>1
    <3>5. CASE m # mp
      <4>1. nx1[m] = j /\ m \in {i} \cup af1[i]
        BY <1>6, <1>7, <2>1, <2>4, <3>2, <3>3, <3>5
      <4>2. QED
        BY <4>1
    <3>6. QED
      BY <3>4, <3>5
  <2>5. QED
    BY <2>2, <2>3, <2>4
<1>16. ASSUME NEW i \in 1..N, NEW j \in 1..N, nx1[i] = nx1[j] PROVE i = j \/ nx1[i] = 0
  <2> DEFINE O(z) == IF z = f THEN mp ELSE z
  <2>1. ASSUME NEW z \in 1..N, z # b, z # mp PROVE nx1[z] = nx[O(z)] /\ nx1[z] # f
    BY <1>4, <1>6, <2>1
  <2>2. CASE i \in {mp, b} \/ j \in {mp, b}
    BY <1>6, <1>16, <2>1, <2>2
  <2>3. CASE i \notin {mp, b} /\ j \notin {mp, b}
    <3>1. nx[O(i)] = nx[O(j)] /\ O(i) \in 1..N /\ O(j) \in 1..N /\ (O(i) = O(j) => i = j)
      BY <1>16, <2>1, <2>3
    <3>2. nx1[i] = nx[O(i)]
      BY <2>1, <2>3
    <3>3. PICK x, y \in 1..N : x = O(i) /\ y = O(j)
      BY <3>1
    <3>4. x = y \/ nx[x] = 0
      BY ONLY <1>1, <3>1, <3>3
    <3>5. QED
      BY ONLY <3>1, <3>2, <3>3, <3>4
  <2>4. QED
    BY <2>2, <2>3
<1>17. ChainTypes(N, nx1, af1)
  BY ONLY <1>1, <1>6, <1>8, <1>12, <1>16 DEF ChainTypes
<1>18. ChainSteps(N, nx1, af1)
  BY ONLY <1>10, <1>11 DEF ChainSteps
<1>19. ChainOrder(N, nx1, af1)
  BY ONLY <1>13, <1>14, <1>15 DEF ChainOrder
<1>20. QED
  BY ONLY <1>17, <1>18, <1>19 DEF Ordered, af1

\* Node f, which is in no chain, comes second after mp.
Added(aft, mp, f) ==
  [i \in DOMAIN aft |-> CASE i = f -> aft[mp]
                          [] i # f /\ (i = mp \/ mp \in aft[i]) -> aft[i] \cup {f}
                          [] OTHER -> aft[i]]
\* The links after that.
AddedLinks(N, nx, nx1, mp, f) ==
  /\ mp \in 1..N /\ f \in 1..N /\ mp # f /\ Loose(N, nx, f)
  /\ nx1 \in [0..N -> 0..N] /\ nx1[0] = 0 /\ nx1[f] = nx[mp] /\ nx1[mp] = f
  /\ \A i \in 1..N : i \notin {f, mp} => nx1[i] = nx[i]

\* Chains stay chains when a node is put behind another one (collide).
LEMMA CollideOrdered ==
  ASSUME NEW N, NEW nx, NEW aft, Ordered(N, nx, aft), NEW nx1, NEW mp, NEW f, AddedLinks(N, nx, nx1, mp, f)
  PROVE  Ordered(N, nx1, Added(aft, mp, f))
<1> USE DEF AddedLinks
<1> DEFINE af1 == Added(aft, mp, f)
<1>1. /\ N \in Nat /\ nx \in [0..N -> 0..N] /\ nx[0] = 0 /\ aft \in [1..N -> SUBSET (1..N)]
      /\ \A i \in 1..N : i \notin aft[i]
      /\ \A i, j \in 1..N : nx[i] = nx[j] => i = j \/ nx[i] = 0
      /\ \A i \in 1..N : nx[i] \in 0..N /\ i # 0 /\ aft[i] \subseteq 1..N
  <2>1. ChainTypes(N, nx, aft)
    BY DEF Ordered
  <2>2. N \in Nat /\ nx \in [0..N -> 0..N] /\ aft \in [1..N -> SUBSET (1..N)]
    BY <2>1 DEF ChainTypes
  <2>3. ASSUME NEW i \in 1..N PROVE nx[i] \in 0..N /\ i # 0 /\ aft[i] \subseteq 1..N
    <3>1. i \in 0..N /\ i # 0
      BY <2>2
    <3>2. QED
      BY <2>2, <3>1
  <2>4. QED
    BY <2>1, <2>3 DEF ChainTypes
<1>2. /\ \A i \in 1..N : nx[i] = 0 => aft[i] = {}
      /\ \A i \in 1..N : nx[i] # 0 => aft[i] = {nx[i]} \cup aft[nx[i]]
  BY DEF Ordered, ChainSteps
<1>3. /\ \A i \in 1..N : \A j \in aft[i] : aft[j] \subseteq aft[i]
      /\ \A i \in 1..N : \A x, y \in aft[i] : x = y \/ x \in aft[y] \/ y \in aft[x]
      /\ \A i \in 1..N : \A j \in aft[i] : \E m \in {i} \cup aft[i] : nx[m] = j
  BY DEF Ordered, ChainOrder
<1>4. aft[f] = {} /\ (\A i \in 1..N : f \notin aft[i]) /\ nx[f] = 0 /\ \A i \in 1..N : nx[i] # f
  BY LooseIs DEF Loose
<1>5. f # 0 /\ mp # 0 /\ mp \notin aft[mp] /\ f \notin aft[mp]
  BY <1>1, <1>4
<1>6. /\ af1[f] = aft[mp]
      /\ \A i \in 1..N : i # f => af1[i] = IF i = mp \/ mp \in aft[i] THEN aft[i] \cup {f} ELSE aft[i]
      /\ DOMAIN af1 = 1..N
  BY <1>1, <1>5 DEF Added
<1>7. af1 \in [1..N -> SUBSET (1..N)]
  <2>1. \A i \in 1..N : af1[i] \in SUBSET (1..N)
    <3>1. SUFFICES ASSUME NEW i \in 1..N PROVE af1[i] \subseteq 1..N
      OBVIOUS
    <3>2. aft[i] \subseteq 1..N /\ aft[mp] \subseteq 1..N
      BY <1>1
    <3> HIDE DEF af1
    <3>3. QED
      BY <1>6, <3>2
  <2>2. af1 = [i \in 1..N |-> af1[i]]
    BY <1>6 DEF Added
  <2>3. QED
    BY <2>1, <2>2
<1> HIDE DEF af1
<1>8. ASSUME NEW i \in 1..N, NEW j \in af1[i]
      PROVE  /\ j \in 1..N
             /\ (j # f => IF i = f THEN j \in aft[mp] ELSE j \in aft[i])
             /\ (j = f => i # f /\ (i = mp \/ mp \in aft[i]))
  <2>1. aft[i] \subseteq 1..N /\ aft[mp] \subseteq 1..N /\ f \notin aft[i] /\ f \notin aft[mp]
    BY <1>1, <1>4
  <2>2. CASE i = f
    BY <1>6, <1>8, <2>1, <2>2
  <2>3. CASE i # f
    BY <1>6, <1>8, <2>1, <2>3
  <2>4. QED
    BY <2>2, <2>3
<1>9. ASSUME NEW i \in 1..N, nx1[i] = 0 PROVE af1[i] = {}
  <2>1. i # mp
    BY <1>5, <1>9
  <2>2. CASE i = f
    BY <1>2, <1>6, <1>9, <2>2
  <2>3. CASE i # f
    BY <1>2, <1>6, <1>9, <2>1, <2>3
  <2>4. QED
    BY <2>2, <2>3
<1>10. ASSUME NEW i \in 1..N, nx1[i] # 0 PROVE af1[i] = {nx1[i]} \cup af1[nx1[i]]
  <2>1. CASE i = f
    <3>1. nx[mp] # 0 /\ nx[mp] \in 1..N
      BY <1>1, <1>10, <2>1
    <3>2. aft[mp] = {nx[mp]} \cup aft[nx[mp]]
      BY <1>2, <3>1
    <3>3. nx[mp] # f /\ nx[mp] # mp /\ mp \notin aft[nx[mp]]
      BY <1>4, <1>5, <3>2
    <3>4. af1[nx[mp]] = aft[nx[mp]]
      BY <1>6, <3>1, <3>3
    <3>5. QED
      BY <1>6, <2>1, <3>2, <3>4
  <2>2. CASE i = mp
    BY <1>5, <1>6, <2>2
  <2>3. CASE i \notin {f, mp}
    <3>1. nx1[i] = nx[i] /\ nx[i] # 0
      BY <1>10, <2>3
    <3>2. nx[i] \in 0..N /\ nx[i] # f
      BY <1>1, <1>4
    <3>3. nx[i] \in 1..N
      BY <1>1, <3>1, <3>2
    <3>4. aft[i] = {nx[i]} \cup aft[nx[i]]
      BY <1>2, <3>1
    <3>5. QED
      BY <1>6, <2>3, <3>1, <3>2, <3>3, <3>4
  <2>4. QED
    BY <2>1, <2>2, <2>3
<1>11. ASSUME NEW i \in 1..N PROVE i \notin af1[i]
  <2>1. i \notin aft[i] /\ f \notin aft[mp]
    BY <1>1, <1>4
  <2>2. QED
    BY <1>6, <2>1
<1>12. ASSUME NEW i \in 1..N, NEW j \in af1[i] PROVE af1[j] \subseteq af1[i]
  <2>1. CASE j = f
    <3>1. i # f /\ (i = mp \/ mp \in aft[i])
      BY <1>8, <2>1
    <3>2. aft[mp] \subseteq aft[i]
      BY <1>3, <3>1
    <3>3. QED
      BY <1>6, <2>1, <3>1, <3>2
  <2>2. CASE j # f /\ i = f
    <3>1. j \in aft[mp] /\ j \in 1..N
      BY <1>8, <2>2
    <3>2. aft[j] \subseteq aft[mp] /\ j # mp /\ mp \notin aft[j]
      BY <1>3, <1>5, <3>1
    <3>3. QED
      BY <1>6, <2>2, <3>1, <3>2
  <2>3. CASE j # f /\ i # f
    <3>1. j \in aft[i] /\ j \in 1..N
      BY <1>8, <2>3
    <3>2. aft[j] \subseteq aft[i]
      BY <1>3, <3>1
    <3>3. (j = mp \/ mp \in aft[j]) => mp \in aft[i]
      BY <3>1, <3>2
    <3>4. QED
      BY <1>6, <2>3, <3>1, <3>2, <3>3
  <2>4. QED
    BY <2>1, <2>2, <2>3
<1>13. ASSUME NEW i \in 1..N, NEW x \in af1[i], NEW y \in af1[i] PROVE x = y \/ x \in af1[y] \/ y \in af1[x]
  <2>1. ASSUME NEW v \in af1[i], v # f, f \in af1[i] PROVE v \in af1[f] \/ f \in af1[v]
    <3>1. i # f
      BY <1>11, <2>1
    <3>2. QED
      <4>1. v \in aft[i] /\ v \in 1..N /\ (i = mp \/ mp \in aft[i])
        BY <1>8, <2>1, <3>1
      <4>2. CASE i = mp
        BY <1>6, <4>1, <4>2
      <4>3. CASE i # mp
        <5>1. v = mp \/ v \in aft[mp] \/ mp \in aft[v]
          BY <1>3, <4>1, <4>3
        <5>2. QED
          BY <1>6, <2>1, <4>1, <5>1
      <4>4. QED
        BY <4>2, <4>3
  <2>2. CASE x # f /\ y # f
    <3>1. IF i = f THEN x \in aft[mp] /\ y \in aft[mp] ELSE x \in aft[i] /\ y \in aft[i]
      BY <1>8, <2>2
    <3>2. x = y \/ x \in aft[y] \/ y \in aft[x]
      BY <1>3, <3>1
    <3>3. x \in 1..N /\ y \in 1..N
      BY <1>8
    <3>4. QED
      BY <1>6, <2>2, <3>2, <3>3
  <2>3. QED
    BY <2>1, <2>2
<1>14. ASSUME NEW i \in 1..N, NEW j \in af1[i] PROVE \E m \in {i} \cup af1[i] : nx1[m] = j
  <2>1. CASE j = f
    <3>1. i # f /\ (i = mp \/ mp \in aft[i])
      BY <1>8, <2>1
    <3>2. mp \in {i} \cup af1[i]
      BY <1>6, <3>1
    <3>3. QED
      BY <2>1, <3>2
  <2>2. CASE j # f
    <3> DEFINE c == IF i = f THEN mp ELSE i
    <3>1. j \in aft[c] /\ c \in 1..N /\ aft[c] \subseteq 1..N
      BY <1>1, <1>8, <2>2
    <3>2. PICK m \in {c} \cup aft[c] : nx[m] = j
      BY <1>3, <3>1
    <3>3. m \in 1..N /\ m # f /\ j # 0
      <4>1. m \in 1..N /\ j \in 1..N
        BY <1>8, <3>1, <3>2
      <4>2. j # 0
        BY <1>1, <4>1
      <4>3. QED
        BY <1>4, <3>2, <4>1, <4>2
    <3>4. CASE m = mp
      <4>1. nx1[f] = j /\ f \in {i} \cup af1[i]
        BY <1>6, <3>2, <3>4
      <4>2. QED
        BY <4>1
    <3>5. CASE m # mp
      <4>1. nx1[m] = j /\ m \in {i} \cup af1[i]
        BY <1>6, <3>2, <3>3, <3>5
      <4>2. QED
        BY <4>1
    <3>6. QED
      BY <3>4, <3>5
  <2>3. QED
    BY <2>1, <2>2
<1>15. ASSUME NEW i \in 1..N, NEW j \in 1..N, nx1[i] = nx1[j] PROVE i = j \/ nx1[i] = 0
  <2> DEFINE O(z) == IF z = f THEN mp ELSE z
  <2>1. ASSUME NEW z \in 1..N, z # mp PROVE nx1[z] = nx[O(z)] /\ nx1[z] # f
    BY <1>4, <1>5, <2>1
  <2>2. CASE i = mp \/ j = mp
    BY <1>15, <2>1, <2>2
  <2>3. CASE i # mp /\ j # mp
    <3>1. nx[O(i)] = nx[O(j)] /\ O(i) \in 1..N /\ O(j) \in 1..N /\ (O(i) = O(j) => i = j)
      BY <1>15, <2>1, <2>3
    <3>2. QED
      BY <1>1, <2>1, <2>3, <3>1
  <2>4. QED
    BY <2>2, <2>3
<1>16. QED
  BY <1>1, <1>7, <1>9, <1>10, <1>11, <1>12, <1>13, <1>14, <1>15 DEF Ordered, ChainTypes, ChainSteps, ChainOrder, af1

-----------------------------------------------------------------------------
(* The invariant of a table.                                               *)

Vals   == Keys \cup {Nil}
Nodes  == [k : Vals, dead : BOOLEAN, v : Vals, nx : Nat]
Tables == [arr : Seq(Vals), node : Seq(Nodes), free : Nat]

\* Every key, living or dead, is in the chain from its main position, where there is a
\* key that belongs there; of two nodes with one key the second is dead.
Linked(u, aft) ==
  /\ Ordered(sizenode(u), links(u), aft)
  /\ \A i \in DOMAIN u.node : u.node[i].k # Nil =>
       LET p == mainposition(u, u.node[i].k)
       IN (i = p \/ i \in aft[p]) /\ u.node[p].k # Nil /\ mainposition(u, u.node[p].k) = p
  /\ \A i \in DOMAIN u.node : \A j \in aft[i] :
       u.node[i].k = u.node[j].k /\ u.node[i].k # Nil => u.node[j].dead
\* A node without a key is in no chain; what is dead has no value; the hash part has no key of
\* the array part; no free node is behind the place where the search goes on.
Filled(u) ==
  /\ \A i \in DOMAIN u.node : u.node[i].k = Nil =>
       u.node[i].v = Nil /\ ~u.node[i].dead /\ Loose(sizenode(u), links(u), i)
  /\ \A i \in DOMAIN u.node : u.node[i].dead => u.node[i].v = Nil
  /\ \A i \in DOMAIN u.node : u.node[i].k # Nil => ~inarray(u, u.node[i].k)
  /\ u.free \in 1..(sizenode(u) + 1) /\ \A i \in u.free..sizenode(u) : u.node[i].k # Nil
  /\ \A i \in DOMAIN u.arr : u.arr[i] # Nil => i \in Ints
TableInv(u) == u \in Tables /\ Filled(u) /\ \E aft : Linked(u, aft)

\* What can be looked for: keys and all integers.
Wanted == Keys \cup Int

\* The types of the parts of a table.
LEMMA Parts ==
  ASSUME NEW u \in Tables
  PROVE  /\ sizenode(u) \in Nat /\ DOMAIN u.node = 1..sizenode(u) /\ Len(u.arr) \in Nat
         /\ DOMAIN u.arr = 1..Len(u.arr) /\ \A i \in DOMAIN u.arr : u.arr[i] \in Vals
         /\ \A i \in DOMAIN u.node : /\ u.node[i] \in Nodes /\ u.node[i].k \in Vals /\ u.node[i].v \in Vals
                                     /\ u.node[i].dead \in BOOLEAN /\ u.node[i].nx \in Nat
                                     /\ links(u)[i] = u.node[i].nx
         /\ links(u)[0] = 0 /\ (isdummy(u) <=> sizenode(u) = 0)
<1>1. u.node \in Seq(Nodes) /\ u.arr \in Seq(Vals)
  BY DEF Tables
<1>2. /\ sizenode(u) \in Nat /\ DOMAIN u.node = 1..sizenode(u) /\ Len(u.arr) \in Nat
      /\ DOMAIN u.arr = 1..Len(u.arr) /\ (isdummy(u) <=> sizenode(u) = 0)
  BY <1>1 DEF sizenode, isdummy
<1>3. \A i \in DOMAIN u.arr : u.arr[i] \in Vals
  BY <1>1
<1>4. ASSUME NEW i \in DOMAIN u.node
      PROVE  /\ u.node[i] \in Nodes /\ u.node[i].k \in Vals /\ u.node[i].v \in Vals
             /\ u.node[i].dead \in BOOLEAN /\ u.node[i].nx \in Nat
             /\ links(u)[i] = u.node[i].nx
  <2>1. u.node[i] \in Nodes
    BY <1>1
  <2>2. i \in 0..sizenode(u) /\ i # 0
    BY <1>2
  <2>3. QED
    BY <2>1, <2>2 DEF Nodes, links
<1>5. links(u)[0] = 0
  BY <1>2 DEF links
<1>6. QED
  BY <1>2, <1>3, <1>4, <1>5

\* Nil is no key, and integers are no objects.
LEMMA KeyFacts ==
  /\ Nil \notin Wanted /\ Keys \subseteq Wanted /\ Ints \subseteq Int /\ Objects \subseteq Keys
  /\ \A k \in Wanted : k \in Objects \/ (k \in Int /\ k \notin Objects)
  /\ \A k \in Int : k \notin Objects
  /\ \A k \in Objects : Hash[k] \in Nat
BY TableAssumption DEF Wanted, Keys

\* The main position is one of the nodes, and depends on their number only.
LEMMA Main ==
  ASSUME NEW u, sizenode(u) \in Nat \ {0}, NEW k \in Wanted
  PROVE  mainposition(u, k) \in 1..sizenode(u)
<1> DEFINE n == sizenode(u)
<1>1. k \notin Objects => k \in Int /\ k % n \in 0..(n - 1)
  BY KeyFacts
<1>2. k \in Objects => Hash[k] % n \in 0..(n - 1)
  BY KeyFacts
<1>3. Max({n - 1, 1}) \in Int /\ Max({n - 1, 1}) >= 1 /\ Max({n - 1, 1}) <= n
  <2>1. {n - 1, 1} \in SUBSET Int /\ {n - 1, 1} # {}
    OBVIOUS
  <2>2. IsFiniteSet({n - 1, 1})
    <3>1. IsFiniteSet({n - 1})
      BY FS_Singleton
    <3>2. IsFiniteSet({n - 1} \cup {1}) /\ {n - 1} \cup {1} = {n - 1, 1}
      BY <3>1, FS_AddElement
    <3>3. QED
      BY <3>2
  <2> DEFINE m == Max({n - 1, 1})
  <2>3. m \in {n - 1, 1} /\ \A x \in {n - 1, 1} : x <= m
    BY <2>1, <2>2, MaxIs
  <2> HIDE DEF m
  <2>4. m \in Int /\ m >= 1 /\ m <= n
    BY <2>3
  <2>5. QED
    BY <2>4 DEF m
<1>4. k \in Objects => Hash[k] % Max({n - 1, 1}) \in 0..(n - 1)
  <2> DEFINE m == Max({n - 1, 1})
  <2> HIDE DEF m
  <2>1. m \in Int /\ m >= 1 /\ m <= n
    BY <1>3 DEF m
  <2>2. k \in Objects => Hash[k] % m \in 0..(m - 1)
    BY <2>1, KeyFacts
  <2>3. QED
    BY <2>1, <2>2 DEF m
<1> HIDE DEF n
<1>5. CASE k \notin Objects
  <2> DEFINE c == CASE k \notin Objects -> k % n
                    [] k \in Pointers   -> Hash[k] % Max({n - 1, 1})
                    [] OTHER            -> Hash[k] % n
  <2>1. k \notin Pointers
    BY <1>5, TableAssumption
  <2>2. c = k % n
    BY ONLY <1>5, <2>1
  <2>3. mainposition(u, k) = 1 + c
    BY DEF mainposition, n
  <2> HIDE DEF c
  <2>4. QED
    BY <1>1, <1>5, <2>2, <2>3 DEF n
<1>6. CASE k \in Objects
  <2>1. mainposition(u, k) = 1 + (Hash[k] % Max({n - 1, 1})) \/ mainposition(u, k) = 1 + (Hash[k] % n)
    BY <1>6 DEF mainposition, n
  <2>2. QED
    BY <1>2, <1>4, <1>6, <2>1 DEF n
<1>7. QED
  BY <1>5, <1>6

\* Tables with as many nodes have the same main positions.
LEMMA SameMain ==
  ASSUME NEW u, NEW w, sizenode(u) = sizenode(w), NEW k
  PROVE  mainposition(u, k) = mainposition(w, k)
BY DEF mainposition

\* The node of a key is found; other nodes with the key are dead.
LEMMA NodeIs ==
  ASSUME NEW u, TableInv(u), NEW k \in Wanted, NEW dead \in BOOLEAN, NEW i, i = nodeof(u, k, dead)
  PROVE  /\ i = 0 => \A j \in DOMAIN u.node : u.node[j].k = k => u.node[j].dead /\ ~dead
         /\ i # 0 => /\ i \in DOMAIN u.node /\ u.node[i].k = k /\ (u.node[i].dead => dead)
                     /\ \A j \in DOMAIN u.node : u.node[j].k = k => i = j \/ u.node[j].dead
<1> DEFINE N == sizenode(u)
           p == mainposition(u, k)
           S == {j \in DOMAIN u.node : u.node[j].k = k /\ (u.node[j].dead => dead)}
<1>1. PICK aft : Linked(u, aft)
  BY DEF TableInv
<1>2. u \in Tables /\ N \in Nat /\ DOMAIN u.node = 1..N /\ (isdummy(u) <=> N = 0) /\ k # Nil
  BY Parts, KeyFacts DEF TableInv
<1>3. CASE N = 0
  BY <1>2, <1>3 DEF nodeof
<1>4. CASE N # 0
  <2>1. p \in 1..N /\ S \in SUBSET (1..N) /\ Ordered(N, links(u), aft)
    BY <1>1, <1>2, <1>4, Main DEF Linked
  <2>2. i = firstof(chain(links(u), p), S)
    BY <1>2, <1>4 DEF nodeof
  <2>3. \A j \in DOMAIN u.node : u.node[j].k = k => j = p \/ j \in aft[p]
    BY <1>1, <1>2 DEF Linked
  <2>4. \A j \in DOMAIN u.node : \A m \in aft[j] : u.node[j].k = k /\ u.node[m].k = k => u.node[m].dead
    BY <1>1, <1>2 DEF Linked
  <2>5. IF \E x \in S : x = p \/ x \in aft[p]
        THEN /\ i \in S /\ (i = p \/ i \in aft[p])
             /\ \A x \in S : x = p \/ x \in aft[p] => x = i \/ x \in aft[i]
        ELSE i = 0
    <3> HIDE DEF S, p, N
    <3> QED
      BY <2>1, <2>2, FirstIs
  <2>6. CASE S # {}
    <3>1. i \in S /\ \A x \in S : x = i \/ x \in aft[i]
      BY <2>3, <2>5, <2>6
    <3>2. i \in DOMAIN u.node /\ u.node[i].k = k /\ (u.node[i].dead => dead) /\ i # 0
      BY <1>2, <3>1
    <3>3. ASSUME NEW j \in DOMAIN u.node, u.node[j].k = k PROVE i = j \/ u.node[j].dead
      <4>1. CASE j \in S
        BY <2>4, <3>1, <3>2, <3>3, <4>1
      <4>2. CASE j \notin S
        BY <3>3, <4>2
      <4>3. QED
        BY <4>1, <4>2
    <3>4. QED
      BY <3>2, <3>3
  <2>7. CASE S = {}
    <3>1. i = 0
      BY <2>5, <2>7
    <3>2. ASSUME NEW j \in DOMAIN u.node, u.node[j].k = k PROVE u.node[j].dead /\ ~dead
      <4>1. u.node[j].dead \in BOOLEAN /\ j \notin S
        BY <1>2, <2>7, Parts
      <4>2. QED
        BY <3>2, <4>1
    <3>3. QED
      BY <3>1, <3>2
  <2>8. QED
    BY <2>6, <2>7
<1>5. QED
  BY <1>3, <1>4

\* What luaH_get gives: what is in the array, or the value of the node that has one.
LEMMA GetIs ==
  ASSUME NEW u, TableInv(u), NEW k \in Wanted
  PROVE  /\ inarray(u, k) => luaH_get(u, k) = u.arr[k]
         /\ ~inarray(u, k) =>
              /\ \A i \in DOMAIN u.node : u.node[i].k = k /\ u.node[i].v # Nil => luaH_get(u, k) = u.node[i].v
              /\ luaH_get(u, k) # Nil => \E i \in DOMAIN u.node : u.node[i].k = k /\ u.node[i].v = luaH_get(u, k)
<1> DEFINE n == nodeof(u, k, FALSE)
<1>1. /\ n = 0 => \A j \in DOMAIN u.node : u.node[j].k = k => u.node[j].dead
      /\ n # 0 => /\ n \in DOMAIN u.node /\ u.node[n].k = k
                  /\ \A j \in DOMAIN u.node : u.node[j].k = k => n = j \/ u.node[j].dead
  <2>1. FALSE \in BOOLEAN
    OBVIOUS
  <2>2. QED
    <3>1. /\ n = 0 => \A j \in DOMAIN u.node : u.node[j].k = k => u.node[j].dead /\ ~FALSE
          /\ n # 0 => /\ n \in DOMAIN u.node /\ u.node[n].k = k /\ (u.node[n].dead => FALSE)
                      /\ \A j \in DOMAIN u.node : u.node[j].k = k => n = j \/ u.node[j].dead
      BY <2>1, NodeIs, Zenon
    <3>2. QED
      BY <3>1
<1>2. \A i \in DOMAIN u.node : u.node[i].v # Nil => ~u.node[i].dead
  BY DEF TableInv, Filled
<1>3. inarray(u, k) => luaH_get(u, k) = u.arr[k]
  BY DEF luaH_get
<1>4. ~inarray(u, k) => luaH_get(u, k) = IF n = 0 THEN Nil ELSE u.node[n].v
  BY DEF luaH_get
<1> HIDE DEF n
<1>5. QED
  BY <1>1, <1>2, <1>3, <1>4

-----------------------------------------------------------------------------
(* What the operations change.                                             *)

\* A table with other nodes.
LEMMA WithNodes ==
  ASSUME NEW u \in Tables, NEW nodes \in Seq(Nodes), NEW w, w = [u EXCEPT !.node = nodes]
  PROVE  w \in Tables /\ w.arr = u.arr /\ w.node = nodes /\ w.free = u.free
BY DEF Tables

\* w is u with another value in node i, which may be dead.
SameKeys(u, w, i, v, dead) ==
  /\ w \in Tables /\ w.arr = u.arr /\ w.free = u.free /\ DOMAIN w.node = DOMAIN u.node
  /\ \A j \in DOMAIN u.node : w.node[j].k = u.node[j].k /\ w.node[j].nx = u.node[j].nx
  /\ \A j \in DOMAIN u.node : j # i => w.node[j] = u.node[j]
  /\ w.node[i].v = v /\ w.node[i].dead = dead
\* A node is replaced by one with the same key and link.
LEMMA OneNode ==
  ASSUME NEW u \in Tables, NEW i \in DOMAIN u.node, NEW nd \in Nodes, nd.k = u.node[i].k, nd.nx = u.node[i].nx,
         NEW w, w = [u EXCEPT !.node = [u.node EXCEPT ![i] = nd]]
  PROVE  SameKeys(u, w, i, nd.v, nd.dead)
<1>1. u.node \in Seq(Nodes) /\ u.arr \in Seq(Vals) /\ u.free \in Nat /\ DOMAIN u.node = 1..Len(u.node)
  BY DEF Tables
<1>2. PICK nodes : nodes = [u.node EXCEPT ![i] = nd]
  OBVIOUS
<1>3. w \in Tables /\ w.arr = u.arr /\ w.node = nodes /\ w.free = u.free
  <2>1. nodes \in Seq(Nodes) /\ w = [u EXCEPT !.node = nodes]
    BY <1>1, <1>2
  <2>2. QED
    BY ONLY u \in Tables, <2>1, WithNodes
<1>4. DOMAIN w.node = DOMAIN u.node /\ w.node[i] = nd /\ \A j \in DOMAIN u.node : j # i => w.node[j] = u.node[j]
  BY <1>1, <1>2, <1>3
<1>5. \A j \in DOMAIN u.node : w.node[j].k = u.node[j].k /\ w.node[j].nx = u.node[j].nx
  BY <1>4
<1>6. QED
  BY <1>3, <1>4, <1>5 DEF SameKeys
\* Changing the value of a node, and making it dead.
LEMMA SetNodeIs ==
  ASSUME NEW u \in Tables, NEW i \in DOMAIN u.node, NEW v \in Vals
  PROVE  /\ SameKeys(u, [u EXCEPT !.node[i].v = v], i, v, u.node[i].dead)
         /\ SameKeys(u, [u EXCEPT !.node[i].dead = TRUE], i, u.node[i].v, TRUE)
         /\ SameKeys(u, [u EXCEPT !.node[i].v = v, !.node[i].dead = TRUE], i, v, TRUE)
<1> DEFINE nd1 == [u.node[i] EXCEPT !.v = v]
           nd2 == [u.node[i] EXCEPT !.dead = TRUE]
           nd3 == [u.node[i] EXCEPT !.v = v, !.dead = TRUE]
<1>1. u.node \in Seq(Nodes) /\ u.node[i] \in Nodes
  BY DEF Tables
<1>2. nd1 \in Nodes /\ nd2 \in Nodes /\ nd3 \in Nodes
  BY <1>1 DEF Nodes
<1>3. /\ nd1.k = u.node[i].k /\ nd1.nx = u.node[i].nx /\ nd1.v = v /\ nd1.dead = u.node[i].dead
      /\ nd2.k = u.node[i].k /\ nd2.nx = u.node[i].nx /\ nd2.v = u.node[i].v /\ nd2.dead = TRUE
      /\ nd3.k = u.node[i].k /\ nd3.nx = u.node[i].nx /\ nd3.v = v /\ nd3.dead = TRUE
  BY <1>1 DEF Nodes
<1>4. [u EXCEPT !.node[i].v = v, !.node[i].dead = TRUE] = [u EXCEPT !.node = [u.node EXCEPT ![i] = nd3]]
  BY <1>1 DEF Tables
<1>5. SameKeys(u, [u EXCEPT !.node[i].v = v], i, nd1.v, nd1.dead)
  <2>1. [u EXCEPT !.node[i].v = v] = [u EXCEPT !.node = [u.node EXCEPT ![i] = nd1]]
    OBVIOUS
  <2> HIDE DEF nd1
  <2>2. QED
    BY <1>2, <1>3, <2>1, OneNode
<1>6. SameKeys(u, [u EXCEPT !.node[i].dead = TRUE], i, nd2.v, nd2.dead)
  <2>1. [u EXCEPT !.node[i].dead = TRUE] = [u EXCEPT !.node = [u.node EXCEPT ![i] = nd2]]
    OBVIOUS
  <2> HIDE DEF nd2
  <2>2. QED
    BY <1>2, <1>3, <2>1, OneNode
<1>7. SameKeys(u, [u EXCEPT !.node[i].v = v, !.node[i].dead = TRUE], i, nd3.v, nd3.dead)
  <2> HIDE DEF nd3
  <2>1. QED
    BY <1>2, <1>3, <1>4, OneNode
<1> HIDE DEF nd1, nd2, nd3
<1>8. QED
  BY <1>3, <1>5, <1>6, <1>7

\* A key that settles in its main position.
LEMMA SettleIs ==
  ASSUME NEW u \in Tables, NEW mp \in DOMAIN u.node, NEW k \in Vals, NEW v \in Vals, NEW w, w = settle(u, mp, k, v)
  PROVE  /\ w \in Tables /\ w.arr = u.arr /\ w.free = u.free /\ DOMAIN w.node = DOMAIN u.node
         /\ w.node[mp] = Node(k, v, u.node[mp].nx)
         /\ \A i \in DOMAIN u.node : i # mp => w.node[i] = u.node[i]
<1>1. u.node \in Seq(Nodes) /\ u.arr \in Seq(Vals) /\ u.free \in Nat
  BY DEF Tables
<1>2. w = [u EXCEPT !.node = [u.node EXCEPT ![mp] = Node(k, v, u.node[mp].nx)]]
  BY DEF settle
<1>3. Node(k, v, u.node[mp].nx) \in Nodes
  <2>1. u.node[mp] \in Nodes
    BY <1>1
  <2>2. u.node[mp].nx \in Nat
    BY <2>1 DEF Nodes
  <2>3. QED
    BY <2>2 DEF Node, Nodes
<1>4. [u.node EXCEPT ![mp] = Node(k, v, u.node[mp].nx)] \in Seq(Nodes)
  BY <1>1, <1>3
<1>5. w \in Tables /\ w.arr = u.arr /\ w.node = [u.node EXCEPT ![mp] = Node(k, v, u.node[mp].nx)] /\ w.free = u.free
  <2>1. PICK nodes : nodes = [u.node EXCEPT ![mp] = Node(k, v, u.node[mp].nx)]
    OBVIOUS
  <2>2. nodes \in Seq(Nodes) /\ w = [u EXCEPT !.node = nodes]
    BY <1>2, <1>4, <2>1
  <2>3. w \in Tables /\ w.arr = u.arr /\ w.node = nodes /\ w.free = u.free
    BY ONLY u \in Tables, <2>2, WithNodes
  <2>4. QED
    BY <2>1, <2>3
<1>6. QED
  BY <1>5

\* A key that takes its main position from a node of another chain.
LEMMA EvictIs ==
  ASSUME NEW u \in Tables, NEW mp \in DOMAIN u.node, NEW f \in DOMAIN u.node, NEW k \in Vals, NEW v \in Vals,
         NEW b, b = before(u, mainposition(u, u.node[mp].k), mp), b \in DOMAIN u.node, b # f, b # mp, f # mp,
         NEW w, w = evict(u, mp, f, k, v)
  PROVE  /\ w \in Tables /\ w.arr = u.arr /\ w.free = f /\ DOMAIN w.node = DOMAIN u.node
         /\ w.node[mp] = Node(k, v, 0) /\ w.node[f] = u.node[mp]
         /\ w.node[b] = [u.node[b] EXCEPT !.nx = f]
         /\ \A i \in DOMAIN u.node : i \notin {mp, b, f} => w.node[i] = u.node[i]
<1>1. u.node \in Seq(Nodes) /\ u.arr \in Seq(Vals) /\ u.free \in Nat /\ DOMAIN u.node = 1..Len(u.node)
  BY DEF Tables
<1> DEFINE n1 == [u.node EXCEPT ![b] = [u.node[b] EXCEPT !.nx = f]]
           n2 == [n1 EXCEPT ![f] = u.node[mp]]
           n3 == [n2 EXCEPT ![mp] = Node(k, v, 0)]
<1>2. w = [u EXCEPT !.node = n3, !.free = f]
  BY DEF evict
<1>3. Node(k, v, 0) \in Nodes /\ [u.node[b] EXCEPT !.nx = f] \in Nodes /\ u.node[mp] \in Nodes /\ f \in Nat
  <2>1. u.node[mp] \in Nodes /\ u.node[b] \in Nodes /\ f \in Nat
    BY <1>1
  <2>2. QED
    BY <2>1 DEF Node, Nodes
<1>4. n1 \in Seq(Nodes) /\ n2 \in Seq(Nodes) /\ n3 \in Seq(Nodes)
  BY <1>1, <1>3
<1>5. w \in Tables /\ w.arr = u.arr /\ w.node = n3 /\ w.free = f
  <2>1. PICK nodes : nodes = n3
    OBVIOUS
  <2>2. nodes \in Seq(Nodes) /\ f \in Nat /\ w = [u EXCEPT !.node = nodes, !.free = f]
    BY <1>2, <1>3, <1>4, <2>1
  <2>3. w \in Tables /\ w.arr = u.arr /\ w.node = nodes /\ w.free = f
    BY ONLY u \in Tables, <2>2 DEF Tables
  <2>4. QED
    BY <2>1, <2>3
<1>6. QED
  BY <1>5

\* A key that comes second in the chain from its main position.
LEMMA CollideIs ==
  ASSUME NEW u \in Tables, NEW mp \in DOMAIN u.node, NEW f \in DOMAIN u.node, NEW k \in Vals, NEW v \in Vals,
         f # mp, NEW w, w = collide(u, mp, f, k, v)
  PROVE  /\ w \in Tables /\ w.arr = u.arr /\ w.free = f /\ DOMAIN w.node = DOMAIN u.node
         /\ w.node[f] = Node(k, v, u.node[mp].nx) /\ w.node[mp] = [u.node[mp] EXCEPT !.nx = f]
         /\ \A i \in DOMAIN u.node : i \notin {mp, f} => w.node[i] = u.node[i]
<1>1. u.node \in Seq(Nodes) /\ u.arr \in Seq(Vals) /\ u.free \in Nat /\ DOMAIN u.node = 1..Len(u.node)
  BY DEF Tables
<1> DEFINE n1 == [u.node EXCEPT ![f] = Node(k, v, u.node[mp].nx)]
           n2 == [n1 EXCEPT ![mp] = [u.node[mp] EXCEPT !.nx = f]]
<1>2. w = [u EXCEPT !.node = n2, !.free = f]
  BY DEF collide
<1>3. Node(k, v, u.node[mp].nx) \in Nodes /\ [u.node[mp] EXCEPT !.nx = f] \in Nodes /\ f \in Nat
  <2>1. u.node[mp] \in Nodes /\ f \in Nat
    BY <1>1
  <2>2. u.node[mp].nx \in Nat
    BY <2>1 DEF Nodes
  <2>3. QED
    BY <2>1, <2>2 DEF Node, Nodes
<1>4. n1 \in Seq(Nodes) /\ n2 \in Seq(Nodes)
  BY <1>1, <1>3
<1>5. w \in Tables /\ w.arr = u.arr /\ w.node = n2 /\ w.free = f
  <2>1. PICK nodes : nodes = n2
    OBVIOUS
  <2>2. nodes \in Seq(Nodes) /\ f \in Nat /\ w = [u EXCEPT !.node = nodes, !.free = f]
    BY <1>2, <1>3, <1>4, <2>1
  <2>3. w \in Tables /\ w.arr = u.arr /\ w.node = nodes /\ w.free = f
    BY ONLY u \in Tables, <2>2 DEF Tables
  <2>4. QED
    BY <2>1, <2>3
<1>6. QED
  BY <1>5

-----------------------------------------------------------------------------
(* Insertion keeps the invariant.                                          *)

\* A node has key x and value y.
Has(u, x, y) == \E i \in DOMAIN u.node : u.node[i].k = x /\ u.node[i].v = y
\* No living node has key k.
Absent(u, k) == \A i \in DOMAIN u.node : u.node[i].k = k => u.node[i].dead
\* Every key has a value.
AllInUse(u) == \A i \in DOMAIN u.node : u.node[i].k # Nil => u.node[i].v # Nil
\* The keys of the nodes.
NodeKeys(u) == {u.node[i].k : i \in DOMAIN u.node} \ {Nil}
\* w is u with key k, which had no value, and value v in the hash part.
Put(u, w, k, v) ==
  /\ TableInv(w) /\ w.arr = u.arr /\ DOMAIN w.node = DOMAIN u.node
  /\ \A x \in Vals : \A y \in Vals \ {Nil} : Has(w, x, y) <=> Has(u, x, y) \/ (x = k /\ y = v)
  /\ NodeKeys(w) \subseteq NodeKeys(u) \cup {k}
  /\ AllInUse(u) /\ v # Nil => AllInUse(w)

\* What luaH_get gives for a key that is not in the array: the value some node has.
LEMMA GetHas ==
  ASSUME NEW u, TableInv(u), NEW x \in Wanted, ~inarray(u, x)
  PROVE  luaH_get(u, x) \in Vals /\ \A y \in Vals \ {Nil} : luaH_get(u, x) = y <=> Has(u, x, y)
<1>1. u \in Tables /\ \A i \in DOMAIN u.node : u.node[i].v \in Vals
  BY Parts DEF TableInv
<1>2. /\ \A i \in DOMAIN u.node : u.node[i].k = x /\ u.node[i].v # Nil => luaH_get(u, x) = u.node[i].v
      /\ luaH_get(u, x) # Nil => \E i \in DOMAIN u.node : u.node[i].k = x /\ u.node[i].v = luaH_get(u, x)
  BY GetIs
<1>3. QED
  BY <1>1, <1>2 DEF Has, Vals

\* Tables whose arrays and values are the same have the same contents.
LEMMA SameGet ==
  ASSUME NEW u, TableInv(u), NEW w, TableInv(w), NEW x \in Wanted, w.arr = u.arr,
         \A y \in Vals \ {Nil} : Has(w, x, y) <=> Has(u, x, y)
  PROVE  luaH_get(w, x) = luaH_get(u, x)
<1>1. inarray(w, x) <=> inarray(u, x)
  BY DEF inarray
<1>2. CASE inarray(u, x)
  BY <1>1, <1>2 DEF luaH_get
<1>3. CASE ~inarray(u, x)
  <2>1. luaH_get(u, x) \in Vals /\ \A y \in Vals \ {Nil} : luaH_get(u, x) = y <=> Has(u, x, y)
    BY <1>3, GetHas
  <2>2. luaH_get(w, x) \in Vals /\ \A y \in Vals \ {Nil} : luaH_get(w, x) = y <=> Has(w, x, y)
    BY <1>1, <1>3, GetHas
  <2>3. QED
    BY <2>1, <2>2
<1>4. QED
  BY <1>2, <1>3

\* Tables with as many nodes.
LEMMA SameSize ==
  ASSUME NEW u \in Tables, NEW w \in Tables, DOMAIN w.node = DOMAIN u.node
  PROVE  sizenode(w) = sizenode(u)
<1>1. DOMAIN u.node = 1..sizenode(u) /\ sizenode(u) \in Nat
  BY Parts
<1>2. DOMAIN w.node = 1..sizenode(w) /\ sizenode(w) \in Nat
  BY Parts
<1>3. QED
  BY <1>1, <1>2

\* Nodes with the same links are in the same chains.
LEMMA SameLinks ==
  ASSUME NEW u, NEW w, DOMAIN w.node = DOMAIN u.node, DOMAIN u.node = 1..sizenode(u), sizenode(w) = sizenode(u),
         \A j \in DOMAIN u.node : w.node[j].nx = u.node[j].nx
  PROVE  links(w) = links(u)
<1>1. sizenode(w) = sizenode(u)
  OBVIOUS
<1>2. \A i \in 0..sizenode(u) : i # 0 => i \in DOMAIN u.node
  OBVIOUS
<1>3. QED
  BY <1>1, <1>2 DEF links

\* Links are links of nodes.
LEMMA LinksIn ==
  ASSUME NEW u \in Tables, \A i \in DOMAIN u.node : u.node[i].nx \in 0..sizenode(u)
  PROVE  links(u) \in [0..sizenode(u) -> 0..sizenode(u)]
<1>1. sizenode(u) \in Nat /\ DOMAIN u.node = 1..sizenode(u)
  BY Parts
<1>2. \A i \in 0..sizenode(u) : (IF i = 0 THEN 0 ELSE u.node[i].nx) \in 0..sizenode(u)
  BY <1>1
<1>3. QED
  BY <1>2 DEF links

\* A value changes, or a node becomes dead: keys and links stay.
LEMMA KeptInv ==
  ASSUME NEW u, TableInv(u), NEW w \in Tables, w.arr = u.arr, w.free = u.free, DOMAIN w.node = DOMAIN u.node,
         \A j \in DOMAIN u.node : w.node[j].k = u.node[j].k /\ w.node[j].nx = u.node[j].nx,
         \A j \in DOMAIN u.node : u.node[j].k = Nil => w.node[j] = u.node[j],
         \A j \in DOMAIN u.node : (u.node[j].dead => w.node[j].dead) /\ (w.node[j].dead => w.node[j].v = Nil)
  PROVE  TableInv(w)
<1>1. PICK aft : Linked(u, aft)
  BY DEF TableInv
<1>2. u \in Tables /\ DOMAIN u.node = 1..sizenode(u) /\ DOMAIN w.node = 1..sizenode(w) /\ sizenode(w) \in Nat /\ sizenode(u) \in Nat
  BY Parts DEF TableInv
<1>3. sizenode(w) = sizenode(u)
  BY <1>2
<1>4. links(w) = links(u)
  BY <1>2, <1>3, SameLinks
<1>5. \A k : mainposition(w, k) = mainposition(u, k)
  BY <1>3, SameMain
<1>6. \A k : inarray(w, k) <=> inarray(u, k)
  BY DEF inarray
<1>7. Linked(w, aft)
  <2>1. Ordered(sizenode(w), links(w), aft)
    BY <1>1, <1>3, <1>4 DEF Linked
  <2>2. \A i \in DOMAIN u.node : aft[i] \subseteq DOMAIN u.node
    <3>1. aft \in [1..sizenode(u) -> SUBSET (1..sizenode(u))]
      BY <1>1 DEF Linked, Ordered, ChainTypes
    <3>2. QED
      BY <1>2, <3>1
  <2>3. ASSUME NEW i \in DOMAIN w.node, w.node[i].k # Nil, NEW p, p = mainposition(w, w.node[i].k)
        PROVE  (i = p \/ i \in aft[p]) /\ w.node[p].k # Nil /\ mainposition(w, w.node[p].k) = p
    <3>1. w.node[i].k = u.node[i].k /\ p = mainposition(u, u.node[i].k)
      BY <1>5, <2>3
    <3>2. (i = p \/ i \in aft[p]) /\ u.node[p].k # Nil /\ mainposition(u, u.node[p].k) = p
      BY <1>1, <2>3, <3>1 DEF Linked
    <3>3. p \in DOMAIN u.node
      <4>1. u.node[i].k \in Wanted /\ sizenode(u) \in Nat \ {0}
        <5>1. u.node[i].k \in Vals
          BY <1>2, Parts
        <5>2. QED
          BY <1>2, <2>3, <3>1, <5>1 DEF Vals, Wanted
      <4>2. QED
        BY <1>2, <3>1, <4>1, Main
    <3>4. QED
      BY <1>5, <3>2, <3>3
  <2>4. ASSUME NEW i \in DOMAIN w.node, NEW j \in aft[i], w.node[i].k = w.node[j].k, w.node[i].k # Nil
        PROVE  w.node[j].dead
    <3>1. j \in DOMAIN u.node /\ u.node[j].k = u.node[i].k /\ u.node[i].k # Nil
      BY <2>2, <2>4
    <3>2. u.node[j].dead
      BY <1>1, <2>4, <3>1 DEF Linked
    <3>3. QED
      BY <3>1, <3>2
  <2>5. QED
    BY <2>1, <2>3, <2>4 DEF Linked
<1>8. Filled(w)
  <2>1. Filled(u)
    BY DEF TableInv
  <2>2. ASSUME NEW i \in DOMAIN w.node, w.node[i].k = Nil
        PROVE  w.node[i].v = Nil /\ ~w.node[i].dead /\ Loose(sizenode(w), links(w), i)
    <3>1. w.node[i] = u.node[i] /\ u.node[i].k = Nil
      BY <2>2
    <3>2. u.node[i].v = Nil /\ ~u.node[i].dead /\ Loose(sizenode(u), links(u), i)
      BY <2>1, <2>2, <3>1 DEF Filled
    <3>3. QED
      BY <1>3, <1>4, <3>1, <3>2
  <2>3. \A i \in DOMAIN w.node : w.node[i].k # Nil => ~inarray(w, w.node[i].k)
    BY <1>6, <2>1 DEF Filled
  <2>4. w.free \in 1..(sizenode(w) + 1) /\ \A i \in w.free..sizenode(w) : w.node[i].k # Nil
    <3>1. u.free \in 1..(sizenode(u) + 1) /\ \A i \in u.free..sizenode(u) : u.node[i].k # Nil
      BY <2>1 DEF Filled
    <3>2. \A i \in u.free..sizenode(u) : i \in DOMAIN u.node
      BY <1>2, <3>1
    <3>3. QED
      BY <1>3, <3>1, <3>2
  <2>5. \A i \in DOMAIN w.arr : w.arr[i] # Nil => i \in Ints
    BY <2>1 DEF Filled
  <2>6. QED
    BY <2>2, <2>3, <2>4, <2>5 DEF Filled
<1>9. QED
  BY <1>7, <1>8 DEF TableInv

\* The last free node, if there is one, and no other is free behind it.
LEMMA FreeIs ==
  ASSUME NEW u, TableInv(u), NEW f, f = getfreepos(u)
  PROVE  /\ f = 0 => \A i \in DOMAIN u.node : u.node[i].k # Nil
         /\ f # 0 => /\ f \in DOMAIN u.node /\ u.node[f].k = Nil /\ f \in Nat
                     /\ \A i \in (f + 1)..sizenode(u) : u.node[i].k # Nil
<1> DEFINE N == sizenode(u)
           S == {i \in 1..u.free - 1 : u.node[i].k = Nil}
           T == {0} \cup S
<1>1. /\ N \in Nat /\ DOMAIN u.node = 1..N /\ u.free \in 1..(N + 1)
      /\ \A i \in u.free..N : u.node[i].k # Nil
  BY Parts DEF TableInv, Filled
<1>2. T \in SUBSET Int /\ T # {} /\ IsFiniteSet(T)
  <2>1. T \in SUBSET (0..N) /\ T # {}
    BY <1>1
  <2> HIDE DEF T, N
  <2>2. 0 \in Int /\ N \in Int
    BY <1>1
  <2>3. IsFiniteSet(0..N)
    BY ONLY <2>2, FS_Interval
  <2>4. IsFiniteSet(T)
    BY ONLY <2>1, <2>3, FS_Subset
  <2>5. QED
    BY ONLY <2>1, <2>2, <2>4
<1>3. f = Max(T)
  BY DEF getfreepos
<1> HIDE DEF S, T
<1>4. f \in T /\ \A x \in T : x <= f
  BY <1>2, <1>3, MaxIs
<1>5. f \in {0} \cup S /\ \A x \in {0} \cup S : x <= f
  BY <1>4 DEF T
<1>6. ASSUME NEW i \in 1..N, u.node[i].k = Nil PROVE i \in S
  BY <1>1, <1>6 DEF S
<1>7. f # 0 => f \in 1..N /\ u.node[f].k = Nil
  BY <1>1, <1>5 DEF S
<1>8. QED
  BY <1>1, <1>5, <1>6, <1>7

\* What is known of the nodes of a table and of their chains, aft.
Chained(u, aft, N) ==
  /\ N \in Nat /\ DOMAIN u.node = 1..N /\ Ordered(N, links(u), aft)
  /\ \A i \in 1..N : i # 0 /\ aft[i] \subseteq 1..N /\ i \notin aft[i] /\ u.node[i].nx \in 0..N /\ links(u)[i] = u.node[i].nx
  /\ \A i \in 1..N : \A j \in aft[i] : aft[j] \subseteq aft[i]
  /\ \A i \in 1..N : u.node[i].k # Nil =>
       /\ u.node[i].k \in Keys /\ mainposition(u, u.node[i].k) \in 1..N
       /\ i = mainposition(u, u.node[i].k) \/ i \in aft[mainposition(u, u.node[i].k)]
       /\ u.node[mainposition(u, u.node[i].k)].k # Nil
       /\ mainposition(u, u.node[mainposition(u, u.node[i].k)].k) = mainposition(u, u.node[i].k)
  /\ \A i \in 1..N : \A j \in aft[i] : u.node[i].k = u.node[j].k /\ u.node[i].k # Nil => u.node[j].dead
  /\ links(u) \in [0..N -> 0..N] /\ links(u)[0] = 0
\* What is known of their fields.
Fields(u, N) ==
  /\ \A i \in 1..N : u.node[i].k = Nil =>
       u.node[i].v = Nil /\ ~u.node[i].dead /\ u.node[i].nx = 0 /\ \A j \in 1..N : u.node[j].nx # i
  /\ \A i \in 1..N : u.node[i].dead => u.node[i].v = Nil
  /\ \A i \in 1..N : u.node[i].k # Nil => ~inarray(u, u.node[i].k)
  /\ u.free \in 1..(N + 1) /\ \A i \in u.free..N : u.node[i].k # Nil
  /\ \A i \in DOMAIN u.arr : u.arr[i] # Nil => i \in Ints
  /\ N \in Nat /\ DOMAIN u.node = 1..N
  /\ \A i \in 1..N : u.node[i] \in Nodes /\ u.node[i].k \in Vals /\ u.node[i].v \in Vals /\ u.node[i].dead \in BOOLEAN

\* The links and the chains of a table agree.
LEMMA LinkedIs ==
  ASSUME NEW u, TableInv(u), NEW aft, Linked(u, aft), NEW N, N = sizenode(u)
  PROVE  Chained(u, aft, N)
<1>1. u \in Tables /\ N \in Nat /\ DOMAIN u.node = 1..N /\ Ordered(N, links(u), aft)
  BY Parts DEF TableInv, Linked
<1>2. /\ links(u) \in [0..N -> 0..N] /\ links(u)[0] = 0 /\ aft \in [1..N -> SUBSET (1..N)]
      /\ \A i \in 1..N : i \notin aft[i]
  BY <1>1 DEF Ordered, ChainTypes
<1>3. \A i \in 1..N : \A j \in aft[i] : aft[j] \subseteq aft[i]
  BY <1>1 DEF Ordered, ChainOrder
<1>4. ASSUME NEW i \in 1..N
      PROVE  i # 0 /\ aft[i] \subseteq 1..N /\ u.node[i].nx \in 0..N /\ links(u)[i] = u.node[i].nx
  <2>1. i \in 0..N /\ i # 0
    BY <1>1
  <2>2. links(u)[i] = u.node[i].nx
    BY <1>1, Parts
  <2>3. QED
    BY <1>2, <2>1, <2>2
<1>5. ASSUME NEW i \in 1..N, u.node[i].k # Nil PROVE u.node[i].k \in Keys /\ mainposition(u, u.node[i].k) \in 1..N
  <2>1. u.node[i].k \in Keys /\ sizenode(u) \in Nat \ {0}
    BY <1>1, <1>5, Parts DEF Vals
  <2>2. QED
    BY <2>1, Main, KeyFacts
<1>6. \A i \in 1..N : u.node[i].k # Nil =>
              /\ i = mainposition(u, u.node[i].k) \/ i \in aft[mainposition(u, u.node[i].k)]
              /\ u.node[mainposition(u, u.node[i].k)].k # Nil
              /\ mainposition(u, u.node[mainposition(u, u.node[i].k)].k) = mainposition(u, u.node[i].k)
  BY <1>1 DEF Linked
<1>7. \A i \in 1..N : \A j \in aft[i] : u.node[i].k = u.node[j].k /\ u.node[i].k # Nil => u.node[j].dead
  BY <1>1 DEF Linked
<1>8. QED
  BY <1>1, <1>2, <1>3, <1>4, <1>5, <1>6, <1>7 DEF Chained

\* The fields of a table are as Filled says.
LEMMA FilledIs ==
  ASSUME NEW u, TableInv(u), NEW N, N = sizenode(u)
  PROVE  Fields(u, N)
<1>1. u \in Tables /\ Filled(u)
  BY DEF TableInv
<1>2. /\ N \in Nat /\ DOMAIN u.node = 1..N
      /\ \A i \in 1..N : /\ u.node[i] \in Nodes /\ u.node[i].k \in Vals /\ u.node[i].v \in Vals /\ u.node[i].dead \in BOOLEAN
                         /\ links(u)[i] = u.node[i].nx
  BY <1>1, Parts
<1>3. \A i \in 1..N : u.node[i].k = Nil => u.node[i].v = Nil /\ ~u.node[i].dead /\ Loose(N, links(u), i)
  BY <1>1, <1>2 DEF Filled
<1>4. \A i \in 1..N : u.node[i].k = Nil => u.node[i].nx = 0 /\ \A j \in 1..N : u.node[j].nx # i
  BY <1>2, <1>3 DEF Loose
<1>5. QED
  BY <1>1, <1>2, <1>3, <1>4 DEF Filled, Fields

\* From the parts of the invariant to the invariant.
LEMMA InvFrom ==
  ASSUME NEW w \in Tables, NEW N, N = sizenode(w), NEW aft, Ordered(N, links(w), aft),
         \A i \in 1..N : w.node[i].k # Nil =>
              /\ i = mainposition(w, w.node[i].k) \/ i \in aft[mainposition(w, w.node[i].k)]
              /\ w.node[mainposition(w, w.node[i].k)].k # Nil
              /\ mainposition(w, w.node[mainposition(w, w.node[i].k)].k) = mainposition(w, w.node[i].k),
         \A i \in 1..N : \A j \in aft[i] : w.node[i].k = w.node[j].k /\ w.node[i].k # Nil => w.node[j].dead,
         \A i \in 1..N : w.node[i].k = Nil =>
              /\ w.node[i].v = Nil /\ ~w.node[i].dead /\ w.node[i].nx = 0
              /\ \A j \in 1..N : w.node[j].nx # i,
         \A i \in 1..N : w.node[i].dead => w.node[i].v = Nil,
         \A i \in 1..N : w.node[i].k # Nil => ~inarray(w, w.node[i].k),
         w.free \in 1..(N + 1), \A i \in w.free..N : w.node[i].k # Nil,
         \A i \in DOMAIN w.arr : w.arr[i] # Nil => i \in Ints
  PROVE  TableInv(w)
<1>1. DOMAIN w.node = 1..N /\ \A i \in 1..N : links(w)[i] = w.node[i].nx
  BY Parts
<1>2. \A i \in 1..N : w.node[i].k = Nil => Loose(N, links(w), i)
  BY <1>1 DEF Loose
<1>3. Filled(w)
  BY <1>1, <1>2 DEF Filled
<1>4. Linked(w, aft)
  BY <1>1 DEF Linked
<1>5. QED
  BY <1>3, <1>4 DEF TableInv

\* One node, n, is new; the others have the keys and values that were there.
OneNew(u, w, N, n) ==
  /\ n \in 1..N /\ w.arr = u.arr /\ DOMAIN u.node = 1..N /\ DOMAIN w.node = 1..N
  /\ \A i \in 1..N : i = n \/ \E o \in 1..N : w.node[i].k = u.node[o].k /\ w.node[i].v = u.node[o].v
  /\ \A o \in 1..N : \/ u.node[o].v = Nil
                    \/ \E i \in 1..N : i # n /\ w.node[i].k = u.node[o].k /\ w.node[i].v = u.node[o].v

\* That is what Put says of key and value of the new node.
LEMMA PutFrom ==
  ASSUME NEW u, NEW w, NEW N, NEW n, TableInv(w), OneNew(u, w, N, n)
  PROVE  Put(u, w, w.node[n].k, w.node[n].v)
<1> USE DEF OneNew
<1> DEFINE k == w.node[n].k
           v == w.node[n].v
<1>1. ASSUME NEW x, NEW y, y # Nil PROVE Has(w, x, y) <=> Has(u, x, y) \/ (x = k /\ y = v)
  <2>1. ASSUME NEW i \in 1..N, w.node[i].k = x, w.node[i].v = y PROVE Has(u, x, y) \/ (x = k /\ y = v)
    <3>1. CASE i = n
      BY <2>1, <3>1
    <3>2. CASE i # n
      <4>1. PICK o \in 1..N : w.node[i].k = u.node[o].k /\ w.node[i].v = u.node[o].v
        BY <3>2
      <4>2. QED
        BY <2>1, <4>1 DEF Has
    <3>3. QED
      BY <3>1, <3>2
  <2>2. ASSUME NEW o \in 1..N, u.node[o].k = x, u.node[o].v = y PROVE Has(w, x, y)
    <3>1. PICK i \in 1..N : w.node[i].k = u.node[o].k /\ w.node[i].v = u.node[o].v
      BY <1>1, <2>2
    <3>2. QED
      BY <2>2, <3>1 DEF Has
  <2>3. x = k /\ y = v => Has(w, x, y)
    BY DEF Has
  <2>4. QED
    BY <2>1, <2>2, <2>3 DEF Has
<1>2. NodeKeys(w) \subseteq NodeKeys(u) \cup {k}
  <2>1. ASSUME NEW i \in 1..N, w.node[i].k # Nil, i # n PROVE w.node[i].k \in NodeKeys(u)
    <3>1. PICK o \in 1..N : w.node[i].k = u.node[o].k
      BY <2>1
    <3>2. QED
      BY <2>1, <3>1 DEF NodeKeys
  <2>2. QED
    BY <2>1 DEF NodeKeys
<1>3. ASSUME AllInUse(u), v # Nil PROVE AllInUse(w)
  <2>1. ASSUME NEW i \in 1..N, w.node[i].k # Nil PROVE w.node[i].v # Nil
    <3>1. CASE i = n
      BY <1>3, <3>1
    <3>2. CASE i # n
      <4>1. PICK o \in 1..N : w.node[i].k = u.node[o].k /\ w.node[i].v = u.node[o].v
        BY <3>2
      <4>2. QED
        BY <1>3, <2>1, <4>1 DEF AllInUse
    <3>3. QED
      BY <3>1, <3>2
  <2>2. QED
    BY <2>1 DEF AllInUse
<1>4. QED
  BY <1>1, <1>2, <1>3 DEF Put

\* The main position has no value: the key settles there.
LEMMA SettlePuts ==
  ASSUME NEW u, TableInv(u), NEW k \in Keys, NEW v \in Vals, ~inarray(u, k), Absent(u, k), ~isdummy(u),
         NEW mp, mp = mainposition(u, k), u.node[mp].v = Nil, NEW w, w = settle(u, mp, k, v)
  PROVE  Put(u, w, k, v)
<1> DEFINE N == sizenode(u)
<1>1. PICK aft : Linked(u, aft)
  BY DEF TableInv
<1>2. Chained(u, aft, N) /\ N \in Nat /\ DOMAIN u.node = 1..N
  BY <1>1, LinkedIs DEF Chained
<1>3. Fields(u, N)
  BY FilledIs
<1>4. u \in Tables /\ N # 0 /\ k # Nil /\ k \in Wanted /\ k \in Vals
  BY Parts, KeyFacts DEF TableInv, Vals
<1>5. mp \in 1..N
  BY <1>2, <1>4, Main
<1>6. /\ w \in Tables /\ w.arr = u.arr /\ w.free = u.free /\ DOMAIN w.node = 1..N
      /\ w.node[mp] = Node(k, v, u.node[mp].nx)
      /\ \A i \in 1..N : i # mp => w.node[i] = u.node[i]
  BY <1>2, <1>4, <1>5, SettleIs
<1>7. w.node[mp].k = k /\ w.node[mp].v = v /\ ~w.node[mp].dead /\ \A i \in 1..N : w.node[i].nx = u.node[i].nx
  BY <1>6 DEF Node
<1>8. sizenode(w) = N
  BY <1>2, <1>6, Parts
<1>9. links(w) = links(u)
  BY <1>2, <1>6, <1>7, <1>8, SameLinks
<1>10. \A x : mainposition(w, x) = mainposition(u, x)
  BY <1>8, SameMain
<1>11. \A x : inarray(w, x) <=> inarray(u, x)
  BY <1>6 DEF inarray
<1> HIDE DEF N
<1> USE DEF Chained, Fields
<1>12. ASSUME NEW i \in 1..N, w.node[i].k # Nil, NEW p, p = mainposition(w, w.node[i].k)
       PROVE  (i = p \/ i \in aft[p]) /\ w.node[p].k # Nil /\ mainposition(w, w.node[p].k) = p
  <2>1. CASE i = mp
    BY <1>4, <1>7, <1>10, <1>12, <2>1
  <2>2. CASE i # mp
    <3>1. p = mainposition(u, u.node[i].k) /\ u.node[i].k # Nil
      BY <1>6, <1>10, <1>12, <2>2
    <3>2. p \in 1..N /\ (i = p \/ i \in aft[p]) /\ u.node[p].k # Nil /\ mainposition(u, u.node[p].k) = p
      BY <1>2, <3>1
    <3>3. CASE p = mp
      BY <1>4, <1>7, <1>10, <3>2, <3>3
    <3>4. CASE p # mp
      BY <1>6, <1>10, <3>2, <3>4
    <3>5. QED
      BY <3>3, <3>4
  <2>3. QED
    BY <2>1, <2>2
<1>13. ASSUME NEW i \in 1..N, NEW j \in aft[i], w.node[i].k = w.node[j].k, w.node[i].k # Nil PROVE w.node[j].dead
  <2>1. j \in 1..N /\ i # j
    BY <1>2
  <2>2. CASE i = mp
    <3>1. u.node[j].k = k /\ w.node[j] = u.node[j]
      BY <1>6, <1>7, <1>13, <2>1, <2>2
    <3>2. QED
      BY <1>2, <2>1, <3>1 DEF Absent
  <2>3. CASE j = mp
    <3>1. u.node[i].k = k /\ i # mp
      BY <1>6, <1>7, <1>13, <2>1, <2>3
    <3>2. i \in aft[mp]
      BY <1>2, <1>4, <3>1
    <3>3. mp \in aft[mp]
      BY <1>2, <1>5, <2>3, <3>2
    <3>4. QED
      BY <1>2, <1>5, <3>3
  <2>4. CASE i # mp /\ j # mp
    BY <1>2, <1>6, <1>13, <2>1, <2>4
  <2>5. QED
    BY <2>2, <2>3, <2>4
<1>14. ASSUME NEW i \in 1..N, w.node[i].k = Nil
       PROVE  w.node[i].v = Nil /\ ~w.node[i].dead /\ w.node[i].nx = 0 /\ \A j \in 1..N : w.node[j].nx # i
  <2>1. i # mp
    BY <1>4, <1>7, <1>14
  <2>2. QED
    BY <1>3, <1>6, <1>7, <1>14, <2>1
<1>15. \A i \in 1..N : w.node[i].dead => w.node[i].v = Nil
  BY <1>3, <1>6, <1>7
<1>16. \A i \in 1..N : w.node[i].k # Nil => ~inarray(w, w.node[i].k)
  BY <1>3, <1>6, <1>7, <1>11
<1>17. \A i \in w.free..N : w.node[i].k # Nil
  <2>1. \A i \in w.free..N : i \in 1..N /\ u.node[i].k # Nil
    BY <1>2, <1>3, <1>6
  <2>2. QED
    BY <1>4, <1>6, <1>7, <2>1
<1>18. TableInv(w)
  <2>1. Ordered(N, links(w), aft) /\ w.free \in 1..(N + 1) /\ \A i \in DOMAIN w.arr : w.arr[i] # Nil => i \in Ints
    BY <1>2, <1>3, <1>6, <1>9
  <2>2. QED
    BY <1>6, <1>8, <1>12, <1>13, <1>14, <1>15, <1>16, <1>17, <2>1, InvFrom
<1> HIDE DEF Chained, Fields
<1>19. \A i \in 1..N : i = mp \/ \E o \in 1..N : w.node[i].k = u.node[o].k /\ w.node[i].v = u.node[o].v
  BY ONLY <1>6
<1>20. \A o \in 1..N : \/ u.node[o].v = Nil
                      \/ \E i \in 1..N : i # mp /\ w.node[i].k = u.node[o].k /\ w.node[i].v = u.node[o].v
  <2>1. \A o \in 1..N : o = mp => u.node[o].v = Nil
    OBVIOUS
  <2>2. QED
    BY ONLY <1>6, <2>1
<1>21. DOMAIN w.node = 1..N /\ DOMAIN u.node = 1..N /\ w.arr = u.arr
  BY <1>2, <1>6
<1>22. Put(u, w, w.node[mp].k, w.node[mp].v)
  <2>1. OneNew(u, w, N, mp)
    BY ONLY <1>5, <1>19, <1>20, <1>21 DEF OneNew
  <2>2. QED
    BY ONLY <1>18, <2>1, PutFrom
<1>23. QED
  BY <1>7, <1>22

\* The main position is taken by a key of another chain: that key moves, and its chain leads to it.
LEMMA EvictPuts ==
  ASSUME NEW u, TableInv(u), NEW k \in Keys, NEW v \in Vals, ~inarray(u, k), Absent(u, k), ~isdummy(u),
         NEW mp, mp = mainposition(u, k), u.node[mp].v # Nil,
         NEW p, p = mainposition(u, u.node[mp].k), p # mp, NEW f, f = getfreepos(u), f # 0,
         NEW w, w = evict(u, mp, f, k, v)
  PROVE  Put(u, w, k, v)
<1> DEFINE N == sizenode(u)
<1>1. PICK b : b = before(u, p, mp)
  OBVIOUS
<1>2. PICK aft : Linked(u, aft)
  BY DEF TableInv
<1>3. Chained(u, aft, N) /\ N \in Nat /\ DOMAIN u.node = 1..N
  BY <1>2, LinkedIs DEF Chained
<1>4. Fields(u, N)
  BY FilledIs
<1>5. u \in Tables /\ N # 0 /\ k # Nil /\ k \in Wanted /\ k \in Vals
  BY Parts, KeyFacts DEF TableInv, Vals
<1>6. mp \in 1..N
  BY <1>3, <1>5, Main
<1>7. f \in 1..N /\ u.node[f].k = Nil /\ \A i \in (f + 1)..N : u.node[i].k # Nil
  BY <1>3, FreeIs
<1>8. u.node[mp].k # Nil /\ f # mp /\ p \in 1..N /\ mp \in aft[p] /\ u.node[p].k # Nil
  BY <1>3, <1>4, <1>6, <1>7 DEF Chained, Fields
<1>9. b \in 1..N /\ u.node[b].nx = mp
  <2> DEFINE S == {j \in DOMAIN u.node : u.node[j].nx = mp}
  <2>1. \E m \in {p} \cup aft[p] : links(u)[m] = mp
    BY <1>3, <1>8 DEF Chained, Ordered, ChainOrder
  <2>2. \E m \in S : m = p \/ m \in aft[p]
    BY <1>3, <1>8, <2>1 DEF Chained
  <2>3. b = firstof(chain(links(u), p), S) /\ S \in SUBSET (1..N)
    BY <1>1, <1>3 DEF before
  <2> HIDE DEF S
  <2>4. b \in S
    BY <1>3, <1>8, <2>2, <2>3, FirstIs DEF Chained
  <2>5. QED
    BY <1>3, <2>4 DEF S
<1> HIDE DEF N
<1>10. b # f /\ b # mp /\ u.node[b].k # Nil
  <2>1. u.node[f].nx = 0 /\ mp # 0
    BY <1>4, <1>6, <1>7, <1>3 DEF Fields
  <2>2. u.node[b].k = Nil => u.node[b].nx = 0
    BY <1>4, <1>9 DEF Fields
  <2>3. b = mp => mp \in aft[mp]
    <3>1. links(u)[b] = mp /\ ChainSteps(N, links(u), aft)
      BY <1>3, <1>9 DEF Chained, Ordered
    <3>2. mp \in aft[b]
      BY <1>9, <2>1, <3>1 DEF ChainSteps
    <3>3. QED
      BY <3>2
  <2>4. mp \notin aft[mp]
    BY <1>3, <1>6 DEF Chained
  <2>5. QED
    BY <1>9, <2>1, <2>2, <2>3, <2>4
<1>11. /\ w \in Tables /\ w.arr = u.arr /\ w.free = f /\ DOMAIN w.node = 1..N
       /\ w.node[mp] = Node(k, v, 0) /\ w.node[f] = u.node[mp]
       /\ w.node[b] = [u.node[b] EXCEPT !.nx = f]
       /\ \A i \in 1..N : i \notin {mp, b, f} => w.node[i] = u.node[i]
  <2>1. /\ u \in Tables /\ mp \in DOMAIN u.node /\ f \in DOMAIN u.node /\ b \in DOMAIN u.node /\ k \in Vals /\ v \in Vals
        /\ b = before(u, mainposition(u, u.node[mp].k), mp) /\ b # f /\ b # mp /\ f # mp
    BY <1>1, <1>3, <1>5, <1>6, <1>7, <1>8, <1>9, <1>10
  <2>2. /\ w \in Tables /\ w.arr = u.arr /\ w.free = f /\ DOMAIN w.node = DOMAIN u.node
        /\ w.node[mp] = Node(k, v, 0) /\ w.node[f] = u.node[mp]
        /\ w.node[b] = [u.node[b] EXCEPT !.nx = f]
        /\ \A i \in DOMAIN u.node : i \notin {mp, b, f} => w.node[i] = u.node[i]
    BY ONLY <2>1, w = evict(u, mp, f, k, v), EvictIs
  <2>3. QED
    BY <1>3, <2>2
<1>12. /\ w.node[mp].k = k /\ w.node[mp].v = v /\ ~w.node[mp].dead /\ w.node[mp].nx = 0
       /\ w.node[b].k = u.node[b].k /\ w.node[b].v = u.node[b].v /\ w.node[b].dead = u.node[b].dead /\ w.node[b].nx = f
       /\ w.node[f].k = u.node[mp].k /\ w.node[f].v = u.node[mp].v /\ w.node[f].dead = u.node[mp].dead
       /\ w.node[f].nx = u.node[mp].nx
       /\ \A i \in 1..N : i \notin {mp, b, f} => w.node[i] = u.node[i]
  <2>1. u.node[b] \in Nodes
    BY <1>4, <1>9 DEF Fields
  <2>2. QED
    BY <1>11, <2>1 DEF Node, Nodes
<1>13. sizenode(w) = N
  BY <1>3, <1>11, Parts
<1>14. \A x : mainposition(w, x) = mainposition(u, x)
  BY <1>13, SameMain DEF N
<1>15. \A x : inarray(w, x) <=> inarray(u, x)
  BY <1>11 DEF inarray
<1> DEFINE aft1 == Moved(aft, mp, f)
<1>16. Loose(N, links(u), f)
  <2>1. u.node[f].nx = 0 /\ \A j \in 1..N : u.node[j].nx # f
    BY <1>4, <1>7 DEF Fields
  <2>2. \A j \in 1..N : links(u)[j] = u.node[j].nx
    BY <1>3 DEF Chained
  <2>3. QED
    BY <1>7, <2>1, <2>2 DEF Loose
<1>17. Ordered(N, links(w), aft1)
  <2>1. \A i \in 1..N : u.node[i].nx \in 0..N /\ i \in 0..N
    BY <1>3 DEF Chained
  <2>2. ASSUME NEW i \in 1..N PROVE w.node[i].nx \in 0..N
    <3>1. f \in 0..N /\ u.node[mp].nx \in 0..N /\ u.node[i].nx \in 0..N /\ 0 \in 0..N
      BY <1>3, <1>6, <1>7, <2>1
    <3>2. CASE i \in {mp, b, f}
      BY <1>12, <3>1, <3>2
    <3>3. CASE i \notin {mp, b, f}
      BY <1>12, <3>1, <3>3
    <3>4. QED
      BY <3>2, <3>3
  <2>3. links(w) \in [0..N -> 0..N] /\ links(w)[0] = 0 /\ \A i \in 1..N : links(w)[i] = w.node[i].nx
    BY <1>11, <1>13, <2>2, LinksIn, Parts
  <2>4. Loose(N, links(u), f)
    BY <1>16
  <2>5. Ordered(N, links(u), aft) /\ links(u)[b] = mp /\ \A i \in 1..N : links(u)[i] = u.node[i].nx
    BY <1>3, <1>9 DEF Chained
  <2>6. links(w)[b] = f /\ links(w)[f] = links(u)[mp] /\ links(w)[mp] = 0
    BY <1>6, <1>7, <1>9, <1>12, <2>3, <2>5
  <2>7. \A i \in 1..N : i \notin {b, f, mp} => links(w)[i] = links(u)[i]
    BY <1>12, <2>3, <2>5
  <2>8. Ordered(N, links(w), Moved(aft, mp, f))
    <3>1. MovedLinks(N, links(u), links(w), b, mp, f)
      BY ONLY <1>6, <1>7, <1>9, <2>3, <2>4, <2>5, <2>6, <2>7 DEF MovedLinks
    <3>2. QED
      BY ONLY <2>5, <3>1, EvictOrdered
  <2>9. QED
    BY <2>8
<1>18. f \notin aft[mp] /\ \A i \in 1..N : f \notin aft[i]
  <2>1. Ordered(N, links(u), aft) /\ Loose(N, links(u), f)
    BY <1>3, <1>16 DEF Chained
  <2>2. QED
    BY <1>6, <1>7, <2>1, LooseIs
<1>19. /\ aft1[f] = aft[mp] /\ aft1[mp] = {}
       /\ \A i \in 1..N : i \notin {f, mp} => aft1[i] = IF mp \in aft[i] THEN (aft[i] \ {mp}) \cup {f} ELSE aft[i]
  <2>1. DOMAIN aft = 1..N
    BY <1>3 DEF Chained, Ordered, ChainTypes
  <2>2. QED
    BY <1>6, <1>7, <1>8, <2>1 DEF Moved
<1> HIDE DEF aft1
\* What was where.
<1> DEFINE O(i) == IF i = f THEN mp ELSE i
<1>20. ASSUME NEW i \in 1..N, i # mp
       PROVE  /\ w.node[i].k = u.node[O(i)].k /\ w.node[i].v = u.node[O(i)].v
              /\ w.node[i].dead = u.node[O(i)].dead /\ O(i) \in 1..N
  BY <1>6, <1>11, <1>12, <1>20
<1>21. ASSUME NEW i \in 1..N, u.node[i].k # Nil PROVE mainposition(u, u.node[i].k) # mp
  BY <1>3, <1>21 DEF Chained
<1>22. ASSUME NEW i \in 1..N, w.node[i].k # Nil, NEW q, q = mainposition(w, w.node[i].k)
       PROVE  (i = q \/ i \in aft1[q]) /\ w.node[q].k # Nil /\ mainposition(w, w.node[q].k) = q
  <2>1. CASE i = mp
    BY <1>5, <1>12, <1>14, <1>22, <2>1
  <2>2. CASE i # mp
    <3>1. u.node[O(i)].k # Nil /\ q = mainposition(u, u.node[O(i)].k) /\ O(i) \in 1..N
      BY <1>14, <1>20, <1>22, <2>2
    <3>2. /\ q \in 1..N /\ (O(i) = q \/ O(i) \in aft[q]) /\ u.node[q].k # Nil
          /\ mainposition(u, u.node[q].k) = q
      BY <1>3, <3>1 DEF Chained
    <3>3. q # mp /\ q # f
      BY <1>7, <1>21, <3>1, <3>2
    <3>4. w.node[q].k # Nil /\ mainposition(w, w.node[q].k) = q
      BY <1>14, <1>20, <3>2, <3>3
    <3>5. i = q \/ i \in aft1[q]
      BY <1>8, <1>19, <2>2, <3>2, <3>3
    <3>6. QED
      BY <3>4, <3>5
  <2>3. QED
    BY <2>1, <2>2
<1>23. ASSUME NEW i \in 1..N, NEW j \in aft1[i], w.node[i].k = w.node[j].k, w.node[i].k # Nil PROVE w.node[j].dead
  <2>1. i # mp /\ j # mp /\ j \in 1..N /\ O(j) \in aft[O(i)]
    <3>1. i # mp
      BY <1>19, <1>23
    <3>2. CASE i = f
      <4>1. j \in aft[mp] /\ mp \notin aft[mp] /\ aft[mp] \subseteq 1..N
        BY <1>3, <1>6, <1>19, <1>23, <3>2 DEF Chained
      <4>2. QED
        BY <1>8, <1>18, <3>1, <3>2, <4>1
    <3>3. CASE i # f
      <4>1. aft[i] \subseteq 1..N
        BY <1>3 DEF Chained
      <4>2. j \in (IF mp \in aft[i] THEN (aft[i] \ {mp}) \cup {f} ELSE aft[i])
        BY <1>19, <1>23, <3>1, <3>3
      <4>3. QED
        BY <1>7, <1>8, <1>18, <3>1, <3>3, <4>1, <4>2
    <3>4. QED
      BY <3>2, <3>3
  <2>2. /\ w.node[i].k = u.node[O(i)].k /\ w.node[j].k = u.node[O(j)].k
        /\ w.node[j].dead = u.node[O(j)].dead /\ O(i) \in 1..N
    BY <1>20, <2>1
  <2>3. u.node[O(j)].dead
    BY <1>3, <1>23, <2>1, <2>2 DEF Chained
  <2>4. QED
    BY <2>2, <2>3
<1>24. ASSUME NEW i \in 1..N, w.node[i].k = Nil
       PROVE  w.node[i].v = Nil /\ ~w.node[i].dead /\ w.node[i].nx = 0 /\ \A j \in 1..N : w.node[j].nx # i
  <2>1. i \notin {mp, f, b}
    BY <1>5, <1>8, <1>10, <1>11, <1>12, <1>24
  <2>2. w.node[i] = u.node[i] /\ u.node[i].k = Nil
    BY <1>11, <1>24, <2>1
  <2>3. u.node[i].v = Nil /\ ~u.node[i].dead /\ u.node[i].nx = 0 /\ \A j \in 1..N : u.node[j].nx # i
    BY <1>4, <2>2 DEF Fields
  <2>4. ASSUME NEW j \in 1..N PROVE w.node[j].nx # i
    <3>1. i # 0
      BY <1>3
    <3>2. j \in {mp, b, f} => w.node[j].nx \in {0, f, u.node[mp].nx}
      BY <1>12
    <3>3. j \notin {mp, b, f} => w.node[j].nx = u.node[j].nx
      BY <1>12
    <3>4. QED
      BY <1>6, <2>1, <2>3, <3>1, <3>2, <3>3
  <2>5. QED
    BY <2>2, <2>3, <2>4
<1>25. \A i \in 1..N : w.node[i].dead => w.node[i].v = Nil
  <2>1. \A i \in 1..N : u.node[i].dead => u.node[i].v = Nil
    BY <1>4 DEF Fields
  <2>2. QED
    BY <1>12, <1>20, <2>1
<1>26. \A i \in 1..N : w.node[i].k # Nil => ~inarray(w, w.node[i].k)
  <2>1. \A i \in 1..N : u.node[i].k # Nil => ~inarray(u, u.node[i].k)
    BY <1>4 DEF Fields
  <2>2. QED
    BY <1>12, <1>15, <1>20, <2>1
<1>27. w.free \in 1..(N + 1) /\ \A i \in w.free..N : w.node[i].k # Nil
  <2>1. w.free \in 1..(N + 1)
    BY <1>3, <1>7, <1>11
  <2>2. ASSUME NEW i \in f..N PROVE w.node[i].k # Nil
    <3>1. i \in 1..N /\ (i = f \/ i \in (f + 1)..N)
      BY <1>3, <1>7
    <3>2. CASE i = mp
      BY <1>5, <1>12, <3>2
    <3>3. CASE i # mp
      BY <1>7, <1>8, <1>20, <3>1, <3>3
    <3>4. QED
      BY <3>2, <3>3
  <2>3. QED
    BY <1>11, <2>1, <2>2
<1>28. TableInv(w)
  <2>1. \A i \in DOMAIN w.arr : w.arr[i] # Nil => i \in Ints
    BY <1>4, <1>11 DEF Fields
  <2>2. QED
    BY <1>11, <1>13, <1>17, <1>22, <1>23, <1>24, <1>25, <1>26, <1>27, <2>1, InvFrom
<1>29. \A i \in 1..N : i = mp \/ \E o \in 1..N : w.node[i].k = u.node[o].k /\ w.node[i].v = u.node[o].v
  BY <1>20
<1>30. \A o \in 1..N : \/ u.node[o].v = Nil
                      \/ \E i \in 1..N : i # mp /\ w.node[i].k = u.node[o].k /\ w.node[i].v = u.node[o].v
  <2>1. ASSUME NEW o \in 1..N, u.node[o].v # Nil
        PROVE  \E i \in 1..N : i # mp /\ w.node[i].k = u.node[o].k /\ w.node[i].v = u.node[o].v
    <3>1. CASE o = mp
      BY <1>7, <1>8, <1>11, <3>1
    <3>2. CASE o # mp
      <4>1. o # f
        BY <1>4, <1>7, <2>1 DEF Fields
      <4>2. QED
        BY <1>20, <3>2, <4>1
    <3>3. QED
      BY <3>1, <3>2
  <2>2. QED
    BY <2>1
<1>31. DOMAIN w.node = 1..N /\ DOMAIN u.node = 1..N /\ w.arr = u.arr
  BY <1>3, <1>11
<1>32. Put(u, w, w.node[mp].k, w.node[mp].v)
  <2>1. OneNew(u, w, N, mp)
    BY ONLY <1>6, <1>29, <1>30, <1>31 DEF OneNew
  <2>2. QED
    BY ONLY <1>28, <2>1, PutFrom
<1>33. QED
  BY <1>12, <1>32

\* The main position is taken by a key that belongs there: the new key comes second.
LEMMA CollidePuts ==
  ASSUME NEW u, TableInv(u), NEW k \in Keys, NEW v \in Vals, ~inarray(u, k), Absent(u, k), ~isdummy(u),
         NEW mp, mp = mainposition(u, k), u.node[mp].v # Nil, mainposition(u, u.node[mp].k) = mp,
         NEW f, f = getfreepos(u), f # 0, NEW w, w = collide(u, mp, f, k, v)
  PROVE  Put(u, w, k, v)
<1> DEFINE N == sizenode(u)
<1>1. PICK aft : Linked(u, aft)
  BY DEF TableInv
<1>2. Chained(u, aft, N) /\ N \in Nat /\ DOMAIN u.node = 1..N
  BY <1>1, LinkedIs DEF Chained
<1>3. Fields(u, N)
  BY FilledIs
<1>4. u \in Tables /\ N # 0 /\ k # Nil /\ k \in Wanted /\ k \in Vals
  BY Parts, KeyFacts DEF TableInv, Vals
<1>5. mp \in 1..N
  BY <1>2, <1>4, Main
<1>6. f \in 1..N /\ u.node[f].k = Nil /\ \A i \in (f + 1)..N : u.node[i].k # Nil
  BY <1>2, FreeIs
<1> HIDE DEF N
<1>7. u.node[mp].k # Nil /\ f # mp
  BY <1>2, <1>3, <1>5, <1>6 DEF Fields
<1>8. /\ w \in Tables /\ w.arr = u.arr /\ w.free = f /\ DOMAIN w.node = 1..N
      /\ w.node[f] = Node(k, v, u.node[mp].nx) /\ w.node[mp] = [u.node[mp] EXCEPT !.nx = f]
      /\ \A i \in 1..N : i \notin {mp, f} => w.node[i] = u.node[i]
  <2>1. /\ u \in Tables /\ mp \in DOMAIN u.node /\ f \in DOMAIN u.node /\ k \in Vals /\ v \in Vals /\ f # mp
    BY <1>2, <1>4, <1>5, <1>6, <1>7
  <2>2. /\ w \in Tables /\ w.arr = u.arr /\ w.free = f /\ DOMAIN w.node = DOMAIN u.node
        /\ w.node[f] = Node(k, v, u.node[mp].nx) /\ w.node[mp] = [u.node[mp] EXCEPT !.nx = f]
        /\ \A i \in DOMAIN u.node : i \notin {mp, f} => w.node[i] = u.node[i]
    BY ONLY <2>1, w = collide(u, mp, f, k, v), CollideIs
  <2>3. QED
    BY <1>2, <2>2
<1>9. /\ w.node[f].k = k /\ w.node[f].v = v /\ ~w.node[f].dead /\ w.node[f].nx = u.node[mp].nx
      /\ w.node[mp].k = u.node[mp].k /\ w.node[mp].v = u.node[mp].v /\ w.node[mp].dead = u.node[mp].dead
      /\ w.node[mp].nx = f
      /\ \A i \in 1..N : i \notin {mp, f} => w.node[i] = u.node[i]
  <2>1. u.node[mp] \in Nodes
    BY <1>3, <1>5 DEF Fields
  <2>2. QED
    BY <1>8, <2>1 DEF Node, Nodes
<1>10. sizenode(w) = N
  BY <1>2, <1>8, Parts
<1>11. \A x : mainposition(w, x) = mainposition(u, x)
  BY <1>10, SameMain DEF N
<1>12. \A x : inarray(w, x) <=> inarray(u, x)
  BY <1>8 DEF inarray
<1> DEFINE aft1 == Added(aft, mp, f)
<1>13. Loose(N, links(u), f) /\ Ordered(N, links(u), aft) /\ \A j \in 1..N : links(u)[j] = u.node[j].nx
  <2>1. u.node[f].nx = 0 /\ \A j \in 1..N : u.node[j].nx # f
    BY <1>3, <1>6 DEF Fields
  <2>2. Ordered(N, links(u), aft) /\ \A j \in 1..N : links(u)[j] = u.node[j].nx
    BY <1>2 DEF Chained
  <2>3. QED
    BY <1>6, <2>1, <2>2 DEF Loose
<1>14. Ordered(N, links(w), aft1)
  <2>1. \A i \in 1..N : u.node[i].nx \in 0..N /\ i \in 0..N
    BY <1>2 DEF Chained
  <2>2. ASSUME NEW i \in 1..N PROVE w.node[i].nx \in 0..N
    <3>1. f \in 0..N /\ u.node[mp].nx \in 0..N /\ u.node[i].nx \in 0..N
      BY <1>2, <1>5, <1>6, <2>1
    <3>2. CASE i \in {mp, f}
      BY <1>9, <3>1, <3>2
    <3>3. CASE i \notin {mp, f}
      BY <1>9, <3>1, <3>3
    <3>4. QED
      BY <3>2, <3>3
  <2>3. links(w) \in [0..N -> 0..N] /\ links(w)[0] = 0 /\ \A i \in 1..N : links(w)[i] = w.node[i].nx
    BY <1>8, <1>10, <2>2, LinksIn, Parts
  <2>4. links(w)[f] = links(u)[mp] /\ links(w)[mp] = f /\ \A i \in 1..N : i \notin {f, mp} => links(w)[i] = links(u)[i]
    BY <1>5, <1>6, <1>9, <1>13, <2>3
  <2>5. AddedLinks(N, links(u), links(w), mp, f)
    BY ONLY <1>5, <1>6, <1>7, <1>13, <2>3, <2>4 DEF AddedLinks
  <2>6. Ordered(N, links(w), Added(aft, mp, f))
    BY ONLY <1>13, <2>5, CollideOrdered
  <2>7. QED
    BY <2>6
<1>15. f \notin aft[mp] /\ \A i \in 1..N : f \notin aft[i]
  BY <1>5, <1>6, <1>13, LooseIs
<1>16. /\ aft1[f] = aft[mp]
       /\ \A i \in 1..N : i # f => aft1[i] = IF i = mp \/ mp \in aft[i] THEN aft[i] \cup {f} ELSE aft[i]
  <2>1. DOMAIN aft = 1..N
    BY <1>2 DEF Chained, Ordered, ChainTypes
  <2>2. QED
    BY <1>5, <1>6, <1>7, <2>1 DEF Added
<1> HIDE DEF aft1
<1>17. ASSUME NEW i \in 1..N, i # f
       PROVE  w.node[i].k = u.node[i].k /\ w.node[i].v = u.node[i].v /\ w.node[i].dead = u.node[i].dead
  BY <1>9, <1>17
<1>18. ASSUME NEW i \in 1..N, w.node[i].k # Nil, NEW q, q = mainposition(w, w.node[i].k)
       PROVE  (i = q \/ i \in aft1[q]) /\ w.node[q].k # Nil /\ mainposition(w, w.node[q].k) = q
  <2>1. CASE i = f
    <3>1. q = mp
      BY <1>9, <1>11, <1>18, <2>1
    <3>2. i \in aft1[mp]
      BY <1>5, <1>7, <1>16, <2>1
    <3>3. w.node[mp].k = u.node[mp].k
      BY <1>9
    <3>4. QED
      BY <1>7, <1>11, <3>1, <3>2, <3>3
  <2>2. CASE i # f
    <3>1. u.node[i].k # Nil /\ q = mainposition(u, u.node[i].k)
      BY <1>11, <1>17, <1>18, <2>2
    <3>2. /\ q \in 1..N /\ (i = q \/ i \in aft[q]) /\ u.node[q].k # Nil
          /\ mainposition(u, u.node[q].k) = q
      BY <1>2, <3>1 DEF Chained
    <3>3. q # f
      BY <1>6, <3>2
    <3>4. QED
      BY <1>11, <1>16, <1>17, <3>2, <3>3
  <2>3. QED
    BY <2>1, <2>2
<1>19. ASSUME NEW i \in 1..N, u.node[i].k = k, i = mp \/ mp \in aft[i] PROVE FALSE
  <2>1. u.node[mp].k = k => u.node[mp].dead
    BY <1>2, <1>5 DEF Absent
  <2>2. u.node[mp].dead => u.node[mp].v = Nil
    BY <1>3, <1>5 DEF Fields
  <2>3. i # mp
    BY <1>19, <2>1, <2>2
  <2>4. i \in aft[mp] /\ mp \notin aft[mp] /\ aft[i] \subseteq aft[mp]
    BY <1>2, <1>4, <1>5, <1>19, <2>3 DEF Chained
  <2>5. QED
    BY <1>19, <2>3, <2>4
<1>20. ASSUME NEW i \in 1..N, NEW j \in aft1[i], w.node[i].k = w.node[j].k, w.node[i].k # Nil PROVE w.node[j].dead
  <2>1. CASE i = f
    <3>1. j \in aft[mp] /\ aft[mp] \subseteq 1..N /\ j # f
      BY <1>2, <1>5, <1>15, <1>16, <1>20, <2>1 DEF Chained
    <3>2. w.node[j].k = u.node[j].k /\ w.node[j].dead = u.node[j].dead /\ j \in 1..N /\ u.node[j].k = k
      BY <1>9, <1>17, <1>20, <2>1, <3>1
    <3>3. QED
      BY <1>2, <3>2 DEF Absent
  <2>2. CASE i # f
    <3>1. w.node[i].k = u.node[i].k /\ aft[i] \subseteq 1..N
      BY <1>2, <1>17, <2>2 DEF Chained
    <3>2. CASE j = f
      <4>1. i = mp \/ mp \in aft[i]
        BY <1>15, <1>16, <1>20, <2>2, <3>2
      <4>2. u.node[i].k = k
        BY <1>9, <1>20, <3>1, <3>2
      <4>3. QED
        BY <1>19, <4>1, <4>2
    <3>3. CASE j # f
      <4>1. j \in aft[i]
        BY <1>16, <1>20, <2>2, <3>3
      <4>2. w.node[j].k = u.node[j].k /\ w.node[j].dead = u.node[j].dead
        BY <1>17, <3>1, <3>3, <4>1
      <4>3. QED
        BY <1>2, <1>20, <3>1, <4>1, <4>2 DEF Chained
    <3>4. QED
      BY <3>2, <3>3
  <2>3. QED
    BY <2>1, <2>2
<1>21. ASSUME NEW i \in 1..N, w.node[i].k = Nil
       PROVE  w.node[i].v = Nil /\ ~w.node[i].dead /\ w.node[i].nx = 0 /\ \A j \in 1..N : w.node[j].nx # i
  <2>1. i \notin {mp, f}
    BY <1>4, <1>5, <1>7, <1>9, <1>21
  <2>2. w.node[i] = u.node[i] /\ u.node[i].k = Nil
    BY <1>9, <1>21, <2>1
  <2>3. u.node[i].v = Nil /\ ~u.node[i].dead /\ u.node[i].nx = 0 /\ \A j \in 1..N : u.node[j].nx # i
    BY <1>3, <2>2 DEF Fields
  <2>4. ASSUME NEW j \in 1..N PROVE w.node[j].nx # i
    <3>1. j \in {mp, f} => w.node[j].nx \in {f, u.node[mp].nx}
      BY <1>9
    <3>2. j \notin {mp, f} => w.node[j].nx = u.node[j].nx
      BY <1>9
    <3>3. QED
      BY <1>5, <2>1, <2>3, <3>1, <3>2
  <2>5. QED
    BY <2>2, <2>3, <2>4
<1>22. \A i \in 1..N : w.node[i].dead => w.node[i].v = Nil
  <2>1. \A i \in 1..N : u.node[i].dead => u.node[i].v = Nil
    BY <1>3 DEF Fields
  <2>2. QED
    BY <1>9, <1>17, <2>1
<1>23. \A i \in 1..N : w.node[i].k # Nil => ~inarray(w, w.node[i].k)
  <2>1. \A i \in 1..N : u.node[i].k # Nil => ~inarray(u, u.node[i].k)
    BY <1>3 DEF Fields
  <2>2. QED
    BY <1>9, <1>12, <1>17, <2>1
<1>24. w.free \in 1..(N + 1) /\ \A i \in w.free..N : w.node[i].k # Nil
  <2>1. w.free \in 1..(N + 1)
    BY <1>2, <1>6, <1>8
  <2>2. ASSUME NEW i \in f..N PROVE w.node[i].k # Nil
    <3>1. i \in 1..N /\ (i = f \/ i \in (f + 1)..N)
      BY <1>2, <1>6
    <3>2. QED
      BY <1>4, <1>6, <1>9, <1>17, <3>1
  <2>3. QED
    BY <1>8, <2>1, <2>2
<1>25. TableInv(w)
  <2>1. \A i \in DOMAIN w.arr : w.arr[i] # Nil => i \in Ints
    BY <1>3, <1>8 DEF Fields
  <2>2. QED
    BY <1>8, <1>10, <1>14, <1>18, <1>20, <1>21, <1>22, <1>23, <1>24, <2>1, InvFrom
<1>26. \A i \in 1..N : i = f \/ \E o \in 1..N : w.node[i].k = u.node[o].k /\ w.node[i].v = u.node[o].v
  BY <1>17
<1>27. \A o \in 1..N : \/ u.node[o].v = Nil
                      \/ \E i \in 1..N : i # f /\ w.node[i].k = u.node[o].k /\ w.node[i].v = u.node[o].v
  <2>1. ASSUME NEW o \in 1..N, u.node[o].v # Nil PROVE o # f
    BY <1>3, <1>6, <2>1 DEF Fields
  <2>2. QED
    BY <1>17, <2>1
<1>28. DOMAIN w.node = 1..N /\ DOMAIN u.node = 1..N /\ w.arr = u.arr
  BY <1>2, <1>8
<1>29. Put(u, w, w.node[f].k, w.node[f].v)
  <2>1. OneNew(u, w, N, f)
    BY ONLY <1>6, <1>26, <1>27, <1>28 DEF OneNew
  <2>2. QED
    BY ONLY <1>25, <2>1, PutFrom
<1>30. QED
  BY <1>9, <1>29

\* luaH_newkey, where there is room.
LEMMA NewKeyPuts ==
  ASSUME NEW u, TableInv(u), NEW k \in Keys, NEW v \in Vals, ~inarray(u, k), Absent(u, k), hasroom(u, k),
         NEW w, w = newkey(u, k, v)
  PROVE  Put(u, w, k, v)
<1> DEFINE mp == mainposition(u, k)
<1>1. ~isdummy(u) /\ (u.node[mp].v = Nil \/ getfreepos(u) # 0)
  BY DEF hasroom
<1>2. CASE u.node[mp].v = Nil
  BY <1>1, <1>2, SettlePuts DEF newkey
<1>3. CASE u.node[mp].v # Nil /\ mainposition(u, u.node[mp].k) # mp
  BY <1>1, <1>3, EvictPuts DEF newkey
<1>4. CASE u.node[mp].v # Nil /\ mainposition(u, u.node[mp].k) = mp
  BY <1>1, <1>4, CollidePuts DEF newkey
<1>5. QED
  BY <1>2, <1>3, <1>4

\* Nodes found for a living key.
LEMMA LivingIs ==
  ASSUME NEW u, TableInv(u), NEW k \in Wanted, NEW i, i = nodeof(u, k, FALSE)
  PROVE  /\ i = 0 => Absent(u, k)
         /\ i # 0 => /\ i \in DOMAIN u.node /\ u.node[i].k = k /\ ~u.node[i].dead
                     /\ \A j \in DOMAIN u.node : u.node[j].k = k => i = j \/ u.node[j].dead
<1>1. FALSE \in BOOLEAN
  OBVIOUS
<1>2. /\ i = 0 => \A j \in DOMAIN u.node : u.node[j].k = k => u.node[j].dead /\ ~FALSE
      /\ i # 0 => /\ i \in DOMAIN u.node /\ u.node[i].k = k /\ (u.node[i].dead => FALSE)
                  /\ \A j \in DOMAIN u.node : u.node[j].k = k => i = j \/ u.node[j].dead
  <2> DEFINE dead == FALSE
  <2>1. dead \in BOOLEAN /\ i = nodeof(u, k, dead)
    OBVIOUS
  <2> HIDE DEF dead
  <2>2. /\ i = 0 => \A j \in DOMAIN u.node : u.node[j].k = k => u.node[j].dead /\ ~dead
        /\ i # 0 => /\ i \in DOMAIN u.node /\ u.node[i].k = k /\ (u.node[i].dead => dead)
                    /\ \A j \in DOMAIN u.node : u.node[j].k = k => i = j \/ u.node[j].dead
    BY <2>1, NodeIs
  <2>3. QED
    BY <2>2 DEF dead
<1>3. QED
  BY <1>2 DEF Absent

\* w is u with value v under key k.
Stores(u, w, k, v) ==
  /\ TableInv(w) /\ Len(w.arr) = Len(u.arr) /\ sizenode(w) = sizenode(u)
  /\ \A x \in Wanted : luaH_get(w, x) = IF x = k THEN v ELSE luaH_get(u, x)
  /\ NodeKeys(w) \subseteq NodeKeys(u) \cup (IF inarray(u, k) THEN {} ELSE {k})
  /\ AllInUse(u) /\ v # Nil => AllInUse(w)

\* A store in the array part.
LEMMA ArrayStores ==
  ASSUME NEW u, TableInv(u), NEW k \in Keys, NEW v \in Vals, inarray(u, k), NEW w, w = [u EXCEPT !.arr[k] = v]
  PROVE  Stores(u, w, k, v)
<1>1. u \in Tables /\ u.arr \in Seq(Vals) /\ k \in DOMAIN u.arr /\ k \in Ints
  BY DEF TableInv, Tables, inarray, Keys
<1>2. /\ w.arr = [u.arr EXCEPT ![k] = v] /\ w.node = u.node /\ w.free = u.free
      /\ w.arr \in Seq(Vals) /\ w \in Tables
  <2>1. PICK arr : arr = [u.arr EXCEPT ![k] = v]
    OBVIOUS
  <2>2. arr \in Seq(Vals) /\ w = [u EXCEPT !.arr = arr]
    BY <1>1, <2>1
  <2>3. w \in Tables /\ w.arr = arr /\ w.node = u.node /\ w.free = u.free
    BY ONLY <1>1, <2>2 DEF Tables
  <2>4. QED
    BY <2>1, <2>2, <2>3
<1>3. DOMAIN w.arr = DOMAIN u.arr /\ Len(w.arr) = Len(u.arr) /\ \A i \in DOMAIN u.arr : w.arr[i] = IF i = k THEN v ELSE u.arr[i]
  BY <1>1, <1>2
<1>4. sizenode(w) = sizenode(u) /\ links(w) = links(u) /\ \A x : inarray(w, x) <=> inarray(u, x)
  BY <1>2, <1>3 DEF sizenode, links, inarray
<1>5. \A x : mainposition(w, x) = mainposition(u, x)
  BY <1>4, SameMain
<1>6. TableInv(w)
  <2>1. PICK aft : Linked(u, aft)
    BY DEF TableInv
  <2>2. Linked(w, aft)
    <3>1. w.node = u.node
      BY <1>2
    <3>2. QED
      BY ONLY <1>4, <1>5, <2>1, <3>1 DEF Linked
  <2>3. Filled(u)
    BY DEF TableInv
  <2>4. \A i \in DOMAIN w.arr : w.arr[i] # Nil => i \in Ints
    BY <1>1, <1>3, <2>3 DEF Filled
  <2>5. Filled(w)
    BY <1>2, <1>4, <2>3, <2>4 DEF Filled
  <2>6. QED
    BY <1>2, <2>2, <2>5 DEF TableInv
<1>7. ASSUME NEW x \in Wanted PROVE luaH_get(w, x) = IF x = k THEN v ELSE luaH_get(u, x)
  <2>1. CASE inarray(u, x)
    BY <1>3, <1>4, <2>1 DEF luaH_get, inarray
  <2>2. CASE ~inarray(u, x)
    <3>1. luaH_get(u, x) \in Vals /\ \A y \in Vals \ {Nil} : luaH_get(u, x) = y <=> Has(u, x, y)
      BY <2>2, GetHas
    <3>2. luaH_get(w, x) \in Vals /\ \A y \in Vals \ {Nil} : luaH_get(w, x) = y <=> Has(w, x, y)
      BY <1>4, <1>6, <2>2, GetHas
    <3>3. \A y : Has(w, x, y) <=> Has(u, x, y)
      BY <1>2 DEF Has
    <3>4. x # k
      BY <2>2
    <3>5. QED
      BY <3>1, <3>2, <3>3, <3>4
  <2>3. QED
    BY <2>1, <2>2
<1>8. NodeKeys(w) = NodeKeys(u) /\ (AllInUse(w) <=> AllInUse(u))
  BY <1>2 DEF NodeKeys, AllInUse
<1>9. QED
  BY <1>3, <1>4, <1>6, <1>7, <1>8 DEF Stores

\* A store in a node that has the key.
LEMMA NodeStores ==
  ASSUME NEW u, TableInv(u), NEW k \in Keys, NEW v \in Vals, ~inarray(u, k),
         NEW i, i = nodeof(u, k, FALSE), i # 0, NEW w, w = [u EXCEPT !.node[i].v = v]
  PROVE  Stores(u, w, k, v)
<1>1. /\ i \in DOMAIN u.node /\ u.node[i].k = k /\ ~u.node[i].dead /\ k \in Wanted /\ k # Nil
      /\ \A j \in DOMAIN u.node : u.node[j].k = k => i = j \/ u.node[j].dead
  BY LivingIs, KeyFacts
<1>2. /\ u \in Tables /\ \A j \in DOMAIN u.node : u.node[j].dead => u.node[j].v = Nil
      /\ sizenode(u) \in Nat /\ DOMAIN u.node = 1..sizenode(u)
  BY Parts DEF TableInv, Filled
<1>3. /\ w \in Tables /\ w.arr = u.arr /\ w.free = u.free /\ DOMAIN w.node = DOMAIN u.node
      /\ \A j \in DOMAIN u.node : w.node[j].k = u.node[j].k /\ w.node[j].nx = u.node[j].nx
      /\ \A j \in DOMAIN u.node : j # i => w.node[j] = u.node[j]
      /\ w.node[i].v = v /\ w.node[i].dead = u.node[i].dead
  <2>1. SameKeys(u, w, i, v, u.node[i].dead)
    BY <1>1, <1>2, SetNodeIs
  <2>2. QED
    BY ONLY <2>1 DEF SameKeys
<1>4. TableInv(w)
  <2>1. \A j \in DOMAIN u.node : u.node[j].k = Nil => w.node[j] = u.node[j]
    BY <1>1, <1>3
  <2>2. \A j \in DOMAIN u.node : (u.node[j].dead => w.node[j].dead) /\ (w.node[j].dead => w.node[j].v = Nil)
    BY <1>1, <1>2, <1>3
  <2>3. QED
    BY <1>3, <2>1, <2>2, KeptInv
<1>5. sizenode(w) = sizenode(u)
  BY ONLY <1>2, <1>3, SameSize
<1>6. ASSUME NEW x \in Wanted PROVE luaH_get(w, x) = IF x = k THEN v ELSE luaH_get(u, x)
  <2>1. CASE x # k
    <3>1. \A y : Has(w, x, y) <=> Has(u, x, y)
      BY <1>1, <1>3, <2>1 DEF Has
    <3>2. QED
      BY <1>3, <1>4, <2>1, <3>1, SameGet
  <2>2. CASE x = k
    <3>1. ~inarray(w, k)
      BY <1>3 DEF inarray
    <3>2. luaH_get(w, k) \in Vals /\ \A y \in Vals \ {Nil} : luaH_get(w, k) = y <=> Has(w, k, y)
      BY <1>1, <1>4, <3>1, GetHas
    <3>3. \A y \in Vals \ {Nil} : Has(w, k, y) => y = v
      <4>1. ASSUME NEW j \in DOMAIN w.node, w.node[j].k = k, w.node[j].v # Nil PROVE j = i
        <5>1. j # i => u.node[j].k = k /\ u.node[j].v # Nil
          BY ONLY <1>3, <4>1
        <5>2. QED
          BY ONLY <1>1, <1>2, <1>3, <4>1, <5>1
      <4>2. QED
        BY ONLY <1>3, <4>1 DEF Has
    <3>4. Has(w, k, v)
      BY <1>1, <1>3 DEF Has
    <3>5. QED
      BY <2>2, <3>2, <3>3, <3>4
  <2>3. QED
    BY <2>1, <2>2
<1>7. NodeKeys(w) = NodeKeys(u)
  <2>1. DOMAIN w.node = DOMAIN u.node /\ \A j \in DOMAIN u.node : w.node[j].k = u.node[j].k
    BY ONLY <1>3
  <2>2. QED
    BY ONLY <2>1 DEF NodeKeys
<1>8. AllInUse(u) /\ v # Nil => AllInUse(w)
  <2>1. \A j \in DOMAIN u.node : w.node[j].k = u.node[j].k /\ (w.node[j].v = u.node[j].v \/ w.node[j].v = v)
    BY <1>3
  <2>2. QED
    BY <1>3, <2>1 DEF AllInUse
<1>9. Len(w.arr) = Len(u.arr) /\ NodeKeys(w) \subseteq NodeKeys(u) \cup (IF inarray(u, k) THEN {} ELSE {k})
  BY ONLY <1>3, <1>7
<1>10. QED
  BY ONLY <1>4, <1>5, <1>6, <1>8, <1>9 DEF Stores

\* luaH_set, where there is a place: it stores the value.
LEMMA StoredStores ==
  ASSUME NEW u, TableInv(u), NEW k \in Keys, NEW v \in Vals,
         inarray(u, k) \/ nodeof(u, k, FALSE) # 0 \/ hasroom(u, k), NEW w, w = stored(u, k, v)
  PROVE  Stores(u, w, k, v)
<1>1. CASE inarray(u, k)
  BY <1>1, ArrayStores DEF stored
<1>2. CASE ~inarray(u, k) /\ nodeof(u, k, FALSE) # 0
  BY <1>2, NodeStores DEF stored
<1>3. CASE ~inarray(u, k) /\ nodeof(u, k, FALSE) = 0
  <2>1. Absent(u, k) /\ k \in Wanted /\ k # Nil
    BY <1>3, LivingIs, KeyFacts
  <2>2. Put(u, w, k, v)
    <3>1. w = newkey(u, k, v) /\ hasroom(u, k)
      BY <1>3 DEF stored
    <3>2. QED
      BY <1>3, <2>1, <3>1, NewKeyPuts
  <2>3. u \in Tables /\ \A j \in DOMAIN u.node : u.node[j].dead => u.node[j].v = Nil
    BY DEF TableInv, Filled
  <2>4. sizenode(w) = sizenode(u)
    <3>1. w \in Tables /\ DOMAIN w.node = DOMAIN u.node
      BY <2>2 DEF Put, TableInv
    <3>2. QED
      BY <2>3, <3>1, SameSize
  <2>5. ASSUME NEW x \in Wanted PROVE luaH_get(w, x) = IF x = k THEN v ELSE luaH_get(u, x)
    <3>1. TableInv(w) /\ w.arr = u.arr
      BY <2>2 DEF Put
    <3>2. CASE x # k
      <4>1. x \in Vals => \A y \in Vals \ {Nil} : Has(w, x, y) <=> Has(u, x, y)
        BY <2>2, <3>2 DEF Put
      <4>2. CASE x \in Vals
        BY <3>1, <3>2, <4>1, <4>2, SameGet
      <4>3. CASE x \notin Vals
        <5>1. \A y : ~Has(w, x, y) /\ ~Has(u, x, y)
          <6>1. w \in Tables
            BY <3>1 DEF TableInv
          <6>2. QED
            BY <2>3, <4>3, <6>1, Parts DEF Has
        <5>2. QED
          BY <3>1, <3>2, <5>1, SameGet
      <4>4. QED
        BY <4>2, <4>3
    <3>3. CASE x = k
      <4>1. ~inarray(w, k)
        BY <1>3, <3>1 DEF inarray
      <4>2. luaH_get(w, k) \in Vals /\ \A y \in Vals \ {Nil} : luaH_get(w, k) = y <=> Has(w, k, y)
        BY <2>1, <3>1, <4>1, GetHas
      <4>3. \A y \in Vals \ {Nil} : ~Has(u, k, y)
        BY <2>1, <2>3 DEF Has, Absent
      <4>4. \A y \in Vals \ {Nil} : Has(w, k, y) <=> y = v
        BY <2>1, <2>2, <4>3 DEF Put, Vals
      <4>5. QED
        BY <3>3, <4>2, <4>4
    <3>4. QED
      BY <3>2, <3>3
  <2>6. QED
    BY <1>3, <2>2, <2>4, <2>5 DEF Put, Stores
<1>4. QED
  BY <1>1, <1>2, <1>3

-----------------------------------------------------------------------------
(* luaH_resize makes room for all that it inserts.                         *)

\* Two nodes with values have different keys.
LEMMA KeysDiffer ==
  ASSUME NEW u, TableInv(u), NEW i \in DOMAIN u.node, NEW j \in DOMAIN u.node, u.node[i].k = u.node[j].k,
         u.node[i].k # Nil, u.node[i].v # Nil, u.node[j].v # Nil
  PROVE  i = j
<1>1. /\ u \in Tables /\ u.node[i].k \in Wanted
      /\ \A m \in DOMAIN u.node : u.node[m].dead => u.node[m].v = Nil
  BY Parts, KeyFacts DEF TableInv, Filled, Vals
<1>2. PICK k \in Wanted : k = u.node[i].k
  BY <1>1
<1>3. PICK n : n = nodeof(u, k, FALSE)
  OBVIOUS
<1>4. n = 0 => Absent(u, k)
  BY ONLY TableInv(u), <1>3, k \in Wanted, LivingIs
<1>5. n # 0 => \A m \in DOMAIN u.node : u.node[m].k = k => n = m \/ u.node[m].dead
  BY ONLY TableInv(u), <1>3, k \in Wanted, LivingIs
<1>6. ~u.node[i].dead /\ ~u.node[j].dead /\ u.node[j].k = k
  BY <1>1, <1>2
<1>7. QED
  BY <1>2, <1>4, <1>5, <1>6 DEF Absent

\* With no more keys than nodes there is a place for one more of these keys.
LEMMA RoomLeft ==
  ASSUME NEW u, TableInv(u), AllInUse(u), NEW S, IsFiniteSet(S), Cardinality(S) <= sizenode(u),
         NodeKeys(u) \subseteq S, NEW k \in Keys, k \in S, k \notin NodeKeys(u)
  PROVE  hasroom(u, k)
<1> DEFINE N == sizenode(u)
<1>1. u \in Tables /\ N \in Nat /\ DOMAIN u.node = 1..N /\ (isdummy(u) <=> N = 0)
  BY Parts DEF TableInv
<1>2. IsFiniteSet(S \ {k}) /\ Cardinality(S \ {k}) = Cardinality(S) - 1 /\ Cardinality(S) \in Nat
      /\ Cardinality(S \ {k}) \in Nat
  BY FS_RemoveElement, FS_CardinalityType
<1>3. N # 0 /\ Cardinality(S \ {k}) < N
  BY <1>1, <1>2
<1>4. ASSUME \A i \in DOMAIN u.node : u.node[i].k # Nil PROVE FALSE
  <2> DEFINE f == [i \in 1..N |-> u.node[i].k]
  <2>1. \A i \in 1..N : u.node[i].k \in S \ {k}
    BY <1>1, <1>4 DEF NodeKeys
  <2>2. f \in [1..N -> S \ {k}]
    BY <2>1
  <2>3. IsFiniteSet(1..N) /\ Cardinality(1..N) = N
    BY <1>1, FS_Interval
  <2>4. \E x, y \in 1..N : x # y /\ f[x] = f[y]
    <3> HIDE DEF f
    <3>1. Cardinality(S \ {k}) < Cardinality(1..N)
      BY <1>3, <2>3
    <3> HIDE DEF N
    <3>2. QED
      BY ONLY <1>2, <2>2, <2>3, <3>1, FS_PigeonHole
  <2>5. PICK x, y \in 1..N : x # y /\ u.node[x].k = u.node[y].k
    BY <2>4
  <2>6. \A i \in 1..N : u.node[i].v # Nil
    BY <1>1, <1>4 DEF AllInUse
  <2>7. QED
    BY <1>1, <1>4, <2>5, <2>6, KeysDiffer
<1>5. getfreepos(u) # 0
  BY <1>4, FreeIs
<1>6. QED
  BY <1>1, <1>3, <1>5 DEF hasroom

\* A size that luaH_resize is called with.
Fits(size) == size \in Nat /\ (size <= Cardinality(Keys) \/ size <= MaxHint)

\* A new hash part is large enough and empty.
LEMMA VectorIs ==
  ASSUME NEW size, Fits(size), NEW nodes, nodes = setnodevector(size)
  PROVE  /\ nodes \in Seq(Nodes) /\ Len(nodes) >= size /\ Len(nodes) \in Nat
         /\ \A i \in 1..Len(nodes) : nodes[i] = Node(Nil, Nil, 0)
<1>1. Node(Nil, Nil, 0) \in Nodes
  BY DEF Node, Nodes, Vals
<1>2. CASE size = 0
  BY <1>2 DEF setnodevector, Fits
<1>3. CASE size # 0
  <2> DEFINE P == {p \in PowersOf2 : p >= size}
             m == Min(P)
  <2>1. P \in SUBSET Nat /\ P # {}
    <3>1. PICK p \in PowersOf2 : p >= Cardinality(Keys) /\ p >= MaxHint
      BY TableAssumption
    <3>2. p \in Nat /\ MaxHint \in Nat /\ Cardinality(Keys) \in Nat /\ size \in Nat /\ PowersOf2 \subseteq Nat
      BY TableAssumption, FS_CardinalityType DEF Fits
    <3>3. p >= size
      BY <3>1, <3>2 DEF Fits
    <3>4. QED
      BY <3>2, <3>3
  <2> HIDE DEF P
  <2>2. m \in P
    BY <2>1, MinIs
  <2>3. m \in Nat /\ m >= size
    BY <2>1, <2>2 DEF P
  <2>4. nodes = [i \in 1..m |-> Node(Nil, Nil, 0)]
    BY <1>3 DEF setnodevector, P
  <2> HIDE DEF m
  <2>5. nodes \in Seq(Nodes) /\ Len(nodes) = m
    BY <1>1, <2>3, <2>4
  <2>6. QED
    BY <2>3, <2>4, <2>5
<1>4. QED
  BY <1>2, <1>3

\* The parts of the new table, before something is inserted.
Blank(u, nasize, nhsize) ==
  [arr |-> setarrayvector(u.arr, nasize), node |-> setnodevector(nhsize), free |-> Len(setnodevector(nhsize)) + 1]

\* It holds what is in both array parts.
LEMMA BlankIs ==
  ASSUME NEW u, TableInv(u), NEW nasize \in Nat, NEW nhsize, Fits(nhsize), NEW w, w = Blank(u, nasize, nhsize)
  PROVE  /\ TableInv(w) /\ Len(w.arr) = nasize /\ sizenode(w) >= nhsize /\ NodeKeys(w) = {} /\ AllInUse(w)
         /\ \A k \in Wanted : luaH_get(w, k) = IF inarray(w, k) /\ inarray(u, k) THEN u.arr[k] ELSE Nil
<1>1. PICK nodes : nodes = setnodevector(nhsize)
  OBVIOUS
<1>2. /\ nodes \in Seq(Nodes) /\ Len(nodes) >= nhsize /\ Len(nodes) \in Nat
      /\ \A i \in 1..Len(nodes) : nodes[i] = Node(Nil, Nil, 0)
  BY <1>1, VectorIs
<1>3. u \in Tables /\ u.arr \in Seq(Vals) /\ Len(u.arr) \in Nat /\ DOMAIN u.arr = 1..Len(u.arr)
  BY DEF TableInv, Tables
<1>4. PICK arr : arr = setarrayvector(u.arr, nasize)
  OBVIOUS
<1>5. arr \in Seq(Vals) /\ Len(arr) = nasize /\ \A i \in 1..nasize : arr[i] = IF i <= Len(u.arr) THEN u.arr[i] ELSE Nil
  <2>1. \A i \in 1..nasize : (IF i <= Len(u.arr) THEN u.arr[i] ELSE Nil) \in Vals
    BY <1>3 DEF Vals
  <2>2. QED
    BY <1>4, <2>1 DEF setarrayvector
<1>6. w.arr = arr /\ w.node = nodes /\ w.free = Len(nodes) + 1
  BY <1>1, <1>4 DEF Blank
<1>7. w \in Tables
  BY <1>1, <1>2, <1>4, <1>5 DEF Blank, Tables
<1> DEFINE N == Len(nodes)
<1>8. sizenode(w) = N /\ DOMAIN w.node = 1..N
  BY <1>2, <1>6 DEF sizenode
<1>9. \A i \in 1..N : w.node[i].k = Nil /\ w.node[i].v = Nil /\ w.node[i].dead = FALSE /\ w.node[i].nx = 0
  BY <1>2, <1>6 DEF Node
<1>10. links(w) = [i \in 0..N |-> 0]
  BY <1>8, <1>9 DEF links
<1>11. \A i \in DOMAIN w.arr : w.arr[i] # Nil => i \in Ints
  <2>1. \A i \in DOMAIN u.arr : u.arr[i] # Nil => i \in Ints
    BY DEF TableInv, Filled
  <2>2. QED
    BY <1>3, <1>5, <1>6, <2>1
<1>12. TableInv(w)
  <2> DEFINE aft == [i \in 1..N |-> {}]
  <2>1. Ordered(N, links(w), aft)
    BY <1>2, <1>10, NewOrdered
  <2>2. Linked(w, aft)
    BY <1>8, <1>9, <2>1 DEF Linked
  <2>3. w.free \in 1..(N + 1) /\ \A i \in w.free..N : w.node[i].k # Nil
    BY <1>2, <1>6
  <2>4. \A i \in 1..N : i # 0 /\ i \in 0..N
    BY <1>2
  <2>5. \A i \in 1..N : Loose(N, links(w), i)
    BY <1>10, <2>4 DEF Loose
  <2>6. Filled(w)
    BY <1>8, <1>9, <1>11, <2>3, <2>5 DEF Filled
  <2>7. QED
    BY <1>7, <2>2, <2>6 DEF TableInv
<1>13. NodeKeys(w) = {} /\ AllInUse(w)
  BY <1>8, <1>9 DEF NodeKeys, AllInUse
<1>14. ASSUME NEW k \in Wanted PROVE luaH_get(w, k) = IF inarray(w, k) /\ inarray(u, k) THEN u.arr[k] ELSE Nil
  <2>1. CASE inarray(w, k)
    <3>1. k \in 1..nasize /\ k \notin Objects /\ luaH_get(w, k) = arr[k]
      BY <1>5, <1>6, <2>1 DEF inarray, luaH_get
    <3>2. inarray(u, k) <=> k <= Len(u.arr)
      BY <1>3, <3>1 DEF inarray
    <3>3. QED
      BY <1>5, <2>1, <3>1, <3>2
  <2>2. CASE ~inarray(w, k)
    <3>1. luaH_get(w, k) \in Vals /\ \A y \in Vals \ {Nil} : luaH_get(w, k) = y <=> Has(w, k, y)
      BY <1>12, <2>2, GetHas
    <3>2. \A y \in Vals \ {Nil} : ~Has(w, k, y)
      BY <1>8, <1>9 DEF Has
    <3>3. QED
      BY <2>2, <3>1, <3>2
  <2>3. QED
    BY <2>1, <2>2
<1>15. QED
  BY <1>2, <1>5, <1>6, <1>8, <1>12, <1>13, <1>14

\* One step of luaH_resize.
Rebuilt(u, nasize, new, tab, n) == IF n = 0 THEN new ELSE reinserted(tab[n - 1], entry(u, nasize, n))

\* The recursive function in luaH_resize is what its definition says.
LEMMA ResizeIs ==
  ASSUME NEW u \in Tables, NEW nasize \in Nat, NEW nhsize, NEW last, last = vanishing(u, nasize) + sizenode(u)
  PROVE  /\ last \in Nat /\ vanishing(u, nasize) \in Nat
         /\ \E tab : /\ tab = [n \in 0..last |-> Rebuilt(u, nasize, Blank(u, nasize, nhsize), tab, n)]
                     /\ luaH_resize(u, nasize, nhsize) = tab[last]
<1> DEFINE new == Blank(u, nasize, nhsize)
           S == {n \in 0..last : \E f : f = [k \in 0..n |-> Rebuilt(u, nasize, new, f, k)]}
<1>1. last \in Nat /\ vanishing(u, nasize) \in Nat
  BY Parts DEF vanishing
<1> HIDE DEF new
<1>2. 0 \in S
  <2> DEFINE f == [k \in 0..0 |-> new]
  <2>1. f = [k \in 0..0 |-> Rebuilt(u, nasize, new, f, k)]
    BY DEF Rebuilt
  <2>2. QED
    BY <1>1, <2>1
<1>3. ASSUME NEW n \in 0..(last - 1), n \in S PROVE n + 1 \in S
  <2>1. PICK f : f = [k \in 0..n |-> Rebuilt(u, nasize, new, f, k)]
    BY <1>3
  <2> DEFINE longer == [k \in 0..(n + 1) |-> IF k <= n THEN f[k] ELSE Rebuilt(u, nasize, new, f, n + 1)]
  <2>2. ASSUME NEW k \in 0..(n + 1) PROVE longer[k] = Rebuilt(u, nasize, new, longer, k)
    BY <1>1, <2>1 DEF Rebuilt
  <2>3. longer = [k \in 0..(n + 1) |-> Rebuilt(u, nasize, new, longer, k)]
    BY <2>2
  <2>4. n + 1 \in 0..last
    BY <1>1
  <2>5. \E h : h = [k \in 0..(n + 1) |-> Rebuilt(u, nasize, new, h, k)]
    BY <2>3
  <2>6. QED
    BY <2>4, <2>5
<1>4. last \in S
  <2>1. \A k \in 0..last : k \in S
    <3> HIDE DEF S
    <3> QED
      BY <1>1, <1>2, <1>3, Upto
  <2>2. QED
    BY <1>1, <2>1
<1>5. \E f : f = [k \in 0..last |-> Rebuilt(u, nasize, new, f, k)]
  BY <1>4
<1>6. QED
  BY <1>1, <1>5 DEF luaH_resize, Rebuilt, Blank, new

\* What luaH_resize inserts is in the old table.
LEMMA EntryIs ==
  ASSUME NEW u, TableInv(u), NEW nasize \in Nat, NEW n \in 1..(vanishing(u, nasize) + sizenode(u)),
         NEW e, e = entry(u, nasize, n)
  PROVE  e.v # Nil => e.k \in Keys /\ e.v \in Vals /\ luaH_get(u, e.k) = e.v
<1>1. u \in Tables /\ Filled(u)
  BY DEF TableInv
<1>2. /\ sizenode(u) \in Nat /\ DOMAIN u.node = 1..sizenode(u) /\ Len(u.arr) \in Nat
      /\ DOMAIN u.arr = 1..Len(u.arr) /\ \A i \in DOMAIN u.arr : u.arr[i] \in Vals
      /\ \A i \in DOMAIN u.node : u.node[i].k \in Vals /\ u.node[i].v \in Vals
  BY <1>1, Parts
<1>3. PICK van : van = vanishing(u, nasize)
  OBVIOUS
<1>4. van \in Nat /\ (van # 0 => van = Len(u.arr) - nasize)
  BY <1>2, <1>3 DEF vanishing
<1>5. CASE n <= van
  <2>1. PICK k : k = nasize + n
    OBVIOUS
  <2>2. e = [k |-> k, v |-> u.arr[k]] /\ k \in DOMAIN u.arr /\ k \in Int
    BY <1>2, <1>3, <1>4, <1>5, <2>1 DEF entry
  <2>3. e.v # Nil => k \in Ints
    BY <1>1, <2>2 DEF Filled
  <2>4. k \in Wanted /\ inarray(u, k)
    BY <2>2, KeyFacts DEF inarray, Wanted
  <2>5. luaH_get(u, k) = u.arr[k]
    BY <2>4 DEF luaH_get
  <2>6. QED
    BY <1>2, <2>2, <2>3, <2>5 DEF Keys
<1>6. CASE ~(n <= van)
  <2>1. PICK i : i = 1 + van + sizenode(u) - n
    OBVIOUS
  <2>2. e = [k |-> u.node[i].k, v |-> u.node[i].v]
    BY <1>3, <1>6, <2>1 DEF entry
  <2>3. i \in DOMAIN u.node
    BY <1>2, <1>3, <1>4, <1>6, <2>1
  <2>4. e.v # Nil => u.node[i].k # Nil /\ ~inarray(u, u.node[i].k) /\ u.node[i].k \in Keys
    BY <1>1, <1>2, <2>2, <2>3 DEF Filled, Vals
  <2>5. e.v # Nil => luaH_get(u, u.node[i].k) = u.node[i].v
    BY <2>2, <2>3, <2>4, GetIs, KeyFacts
  <2>6. QED
    BY <1>2, <2>2, <2>3, <2>4, <2>5
<1>7. QED
  BY <1>5, <1>6

\* What is in the old table and not in the array part that stays is inserted.
LEMMA EntryOf ==
  ASSUME NEW u, TableInv(u), NEW nasize \in Nat, NEW k \in Wanted, luaH_get(u, k) # Nil,
         ~(inarray(u, k) /\ k <= nasize)
  PROVE  \E n \in 1..(vanishing(u, nasize) + sizenode(u)) :
           entry(u, nasize, n).k = k /\ entry(u, nasize, n).v = luaH_get(u, k)
<1>1. u \in Tables
  BY DEF TableInv
<1>2. /\ sizenode(u) \in Nat /\ DOMAIN u.node = 1..sizenode(u) /\ Len(u.arr) \in Nat
      /\ DOMAIN u.arr = 1..Len(u.arr)
  BY <1>1, Parts
<1>3. PICK van : van = vanishing(u, nasize)
  OBVIOUS
<1>4. van = IF nasize < Len(u.arr) THEN Len(u.arr) - nasize ELSE 0
  BY <1>3 DEF vanishing
<1>5. CASE inarray(u, k)
  <2>1. k \in 1..Len(u.arr) /\ ~(k <= nasize) /\ luaH_get(u, k) = u.arr[k]
    BY <1>2, <1>5 DEF inarray, luaH_get
  <2>2. PICK n : n = k - nasize
    OBVIOUS
  <2>3. n \in 1..(van + sizenode(u)) /\ n <= van /\ nasize + n = k
    BY <1>2, <1>4, <2>1, <2>2
  <2>4. entry(u, nasize, n) = [k |-> k, v |-> u.arr[k]]
    BY <1>3, <2>3 DEF entry
  <2>5. QED
    BY <1>3, <2>1, <2>3, <2>4
<1>6. CASE ~inarray(u, k)
  <2>1. PICK i \in DOMAIN u.node : u.node[i].k = k /\ u.node[i].v = luaH_get(u, k)
    BY <1>6, GetIs
  <2>2. PICK n : n = 1 + van + sizenode(u) - i
    OBVIOUS
  <2>3. n \in 1..(van + sizenode(u)) /\ ~(n <= van) /\ 1 + van + sizenode(u) - n = i
    BY <1>2, <1>4, <2>1, <2>2
  <2>4. entry(u, nasize, n) = [k |-> u.node[i].k, v |-> u.node[i].v]
    BY <1>3, <2>3 DEF entry
  <2>5. QED
    BY <1>3, <2>1, <2>3, <2>4
<1>7. QED
  BY <1>5, <1>6

\* Of table u the array part up to nasize and n entries are in w.
Building(u, w, nasize, size, S, n) ==
  /\ TableInv(w) /\ Len(w.arr) = nasize /\ sizenode(w) = size /\ AllInUse(w) /\ NodeKeys(w) \subseteq S
  /\ \A k \in Wanted : luaH_get(w, k) \in {Nil, luaH_get(u, k)}
  /\ \A k \in Wanted : inarray(w, k) /\ inarray(u, k) => luaH_get(w, k) = luaH_get(u, k)
  /\ \A m \in 1..n : entry(u, nasize, m).v # Nil => luaH_get(w, entry(u, nasize, m).k) = entry(u, nasize, m).v
\* S has the keys that need a node, and no more than there are.
Suffices(u, nasize, size, S) ==
  /\ IsFiniteSet(S) /\ Cardinality(S) <= size
  /\ \A k \in Keys : luaH_get(u, k) # Nil => k \in S \/ k \in 1..nasize

\* Each entry finds its place.
LEMMA Builds ==
  ASSUME NEW u, TableInv(u), NEW nasize \in Nat, NEW size, NEW S, Suffices(u, nasize, size, S),
         NEW n \in 1..(vanishing(u, nasize) + sizenode(u)),
         NEW x, Building(u, x, nasize, size, S, n - 1), NEW w, w = reinserted(x, entry(u, nasize, n))
  PROVE  Building(u, w, nasize, size, S, n)
<1>1. PICK e : e = entry(u, nasize, n)
  OBVIOUS
<1>2. vanishing(u, nasize) + sizenode(u) \in Int
  BY Parts DEF vanishing, TableInv
<1>3. \A m \in 1..n : m = n \/ m \in 1..(n - 1)
  BY <1>2
<1>4. CASE e.v = Nil
  <2>1. w = x
    BY <1>1, <1>4 DEF reinserted
  <2>2. QED
    BY <1>1, <1>3, <1>4, <2>1 DEF Building
<1>5. CASE e.v # Nil
  <2>1. PICK k, v : k = e.k /\ v = e.v
    OBVIOUS
  <2>2. k \in Keys /\ v \in Vals /\ luaH_get(u, k) = v /\ v # Nil /\ k \in Wanted
    BY <1>1, <1>5, <2>1, EntryIs, KeyFacts
  <2>3. w = stored(x, k, v)
    BY <1>1, <1>5, <2>1 DEF reinserted
  <2>4. TableInv(x) /\ AllInUse(x) /\ NodeKeys(x) \subseteq S /\ Len(x.arr) = nasize /\ sizenode(x) = size
    BY DEF Building
  <2>5. inarray(x, k) <=> k \in 1..nasize
    <3>1. DOMAIN x.arr = 1..nasize
      BY <2>4, Parts DEF TableInv
    <3>2. k \in 1..nasize => k \notin Objects
      BY KeyFacts
    <3>3. QED
      BY <3>1, <3>2 DEF inarray
  <2>6. ~inarray(x, k) => k \in S
    BY <2>2, <2>5 DEF Suffices
  <2>7. inarray(x, k) \/ nodeof(x, k, FALSE) # 0 \/ hasroom(x, k)
    <3>1. SUFFICES ASSUME ~inarray(x, k), nodeof(x, k, FALSE) = 0 PROVE hasroom(x, k)
      OBVIOUS
    <3>2. Absent(x, k)
      BY ONLY <2>2, <2>4, <3>1, LivingIs
    <3>3. \A i \in DOMAIN x.node : x.node[i].dead => x.node[i].v = Nil
      BY <2>4 DEF TableInv, Filled
    <3>4. k # Nil
      BY <2>2, KeyFacts
    <3>5. k \notin NodeKeys(x)
      BY ONLY <2>4, <3>2, <3>3, <3>4 DEF Absent, NodeKeys, AllInUse
    <3>6. IsFiniteSet(S) /\ Cardinality(S) <= sizenode(x)
      BY <2>4 DEF Suffices
    <3>7. QED
      BY ONLY <2>2, <2>4, <2>6, <3>1, <3>5, <3>6, RoomLeft
  <2>8. Stores(x, w, k, v)
    BY ONLY <2>2, <2>3, <2>4, <2>7, StoredStores
  <2>9. /\ TableInv(w) /\ Len(w.arr) = nasize /\ sizenode(w) = size /\ AllInUse(w) /\ NodeKeys(w) \subseteq S
        /\ \A y \in Wanted : luaH_get(w, y) = IF y = k THEN v ELSE luaH_get(x, y)
    BY ONLY <2>2, <2>4, <2>6, <2>8 DEF Stores
  <2>10. \A y : inarray(w, y) <=> inarray(x, y)
    <3>1. DOMAIN x.arr = 1..Len(x.arr) /\ DOMAIN w.arr = 1..Len(w.arr)
      BY <2>4, <2>9, Parts DEF TableInv
    <3>2. QED
      BY <2>4, <2>9, <3>1 DEF inarray
  <2>11. \A y \in Wanted : luaH_get(w, y) \in {Nil, luaH_get(u, y)}
    BY <2>2, <2>9 DEF Building
  <2>12. \A y \in Wanted : inarray(w, y) /\ inarray(u, y) => luaH_get(w, y) = luaH_get(u, y)
    BY <2>2, <2>9, <2>10 DEF Building
  <2>13. ASSUME NEW m \in 1..n, entry(u, nasize, m).v # Nil
         PROVE  luaH_get(w, entry(u, nasize, m).k) = entry(u, nasize, m).v
    <3>1. CASE m = n
      BY <1>1, <2>1, <2>2, <2>9, <3>1
    <3>2. CASE m \in 1..(n - 1)
      <4>1. m \in 1..(vanishing(u, nasize) + sizenode(u))
        BY <1>2, <3>2
      <4>2. PICK f : f = entry(u, nasize, m)
        OBVIOUS
      <4>3. f.k \in Wanted /\ luaH_get(u, f.k) = f.v
        BY <2>13, <4>1, <4>2, EntryIs, KeyFacts
      <4>4. luaH_get(x, f.k) = f.v
        BY <2>13, <3>2, <4>2 DEF Building
      <4>5. luaH_get(w, f.k) = f.v
        BY <2>2, <2>9, <4>3, <4>4
      <4>6. QED
        BY <4>2, <4>5
    <3>3. QED
      BY <1>3, <3>1, <3>2
  <2>14. QED
    BY ONLY <2>9, <2>11, <2>12, <2>13 DEF Building
<1>6. QED
  BY <1>4, <1>5

\* luaH_resize: the new table holds what the old one did.
LEMMA ResizeRight ==
  ASSUME NEW u, TableInv(u), NEW nasize \in Nat, NEW nhsize, Fits(nhsize),
         NEW S, Suffices(u, nasize, nhsize, S), NEW w, w = luaH_resize(u, nasize, nhsize)
  PROVE  /\ TableInv(w) /\ Len(w.arr) = nasize /\ sizenode(w) >= nhsize /\ AllInUse(w) /\ NodeKeys(w) \subseteq S
         /\ \A k \in Wanted : luaH_get(w, k) = luaH_get(u, k)
<1>1. PICK last : last = vanishing(u, nasize) + sizenode(u)
  OBVIOUS
<1>2. PICK new : new = Blank(u, nasize, nhsize)
  OBVIOUS
<1>3. u \in Tables /\ DOMAIN u.arr = 1..Len(u.arr)
  BY Parts DEF TableInv
<1>4. last \in Nat /\ vanishing(u, nasize) \in Nat
  BY <1>1, <1>3, ResizeIs
<1>5. PICK tab : tab = [n \in 0..last |-> Rebuilt(u, nasize, new, tab, n)] /\ w = tab[last]
  BY <1>1, <1>2, <1>3, ResizeIs
<1>6. /\ TableInv(new) /\ Len(new.arr) = nasize /\ sizenode(new) >= nhsize /\ NodeKeys(new) = {} /\ AllInUse(new)
      /\ \A k \in Wanted : luaH_get(new, k) = IF inarray(new, k) /\ inarray(u, k) THEN u.arr[k] ELSE Nil
  BY <1>2, BlankIs
<1>7. PICK size : size = sizenode(new)
  OBVIOUS
<1>8. size \in Nat /\ size >= nhsize /\ Suffices(u, nasize, size, S)
  <2>1. size \in Nat /\ size >= nhsize /\ nhsize \in Nat
    BY <1>6, <1>7, Parts DEF TableInv, Fits
  <2>2. Cardinality(S) \in Nat
    BY FS_CardinalityType DEF Suffices
  <2>3. QED
    BY <2>1, <2>2 DEF Suffices
<1>9. Building(u, new, nasize, size, S, 0)
  <2>1. \A k \in Wanted : inarray(u, k) => luaH_get(u, k) = u.arr[k]
    BY DEF luaH_get
  <2>2. \A m \in 1..0 : FALSE
    OBVIOUS
  <2>3. QED
    BY <1>6, <1>7, <2>1, <2>2 DEF Building
<1> DEFINE D == {n \in 0..last : Building(u, tab[n], nasize, size, S, n)}
<1>10. 0 \in D
  <2>1. tab[0] = new
    BY <1>4, <1>5 DEF Rebuilt
  <2>2. QED
    BY <1>4, <1>9, <2>1
<1>11. ASSUME NEW n \in 0..(last - 1), n \in D PROVE n + 1 \in D
  <2>1. n + 1 \in 1..last /\ n + 1 \in 0..last /\ (n + 1) - 1 = n
    BY <1>4
  <2>2. tab[n + 1] = reinserted(tab[n], entry(u, nasize, n + 1))
    <3>1. tab[n + 1] = Rebuilt(u, nasize, new, tab, n + 1)
      BY <1>5, <2>1
    <3>2. QED
      BY <2>1, <3>1 DEF Rebuilt
  <2>3. PICK m : m = n + 1
    OBVIOUS
  <2>4. m \in 1..(vanishing(u, nasize) + sizenode(u)) /\ Building(u, tab[n], nasize, size, S, m - 1)
    BY <1>1, <1>11, <2>1, <2>3
  <2>5. Building(u, tab[m], nasize, size, S, m)
    BY ONLY TableInv(u), nasize \in Nat, <1>8, <2>2, <2>3, <2>4, Builds
  <2>6. QED
    BY <2>1, <2>3, <2>5
<1>12. last \in D
  <2>1. \A n \in 0..last : n \in D
    <3> HIDE DEF D
    <3> QED
      BY <1>4, <1>10, <1>11, Upto
  <2>2. QED
    BY <1>4, <2>1
<1>13. Building(u, w, nasize, size, S, last)
  BY <1>5, <1>12
<1>14. /\ TableInv(w) /\ Len(w.arr) = nasize /\ sizenode(w) = size /\ AllInUse(w) /\ NodeKeys(w) \subseteq S
       /\ \A k \in Wanted : luaH_get(w, k) \in {Nil, luaH_get(u, k)}
       /\ \A k \in Wanted : inarray(w, k) /\ inarray(u, k) => luaH_get(w, k) = luaH_get(u, k)
       /\ \A m \in 1..last : entry(u, nasize, m).v # Nil => luaH_get(w, entry(u, nasize, m).k) = entry(u, nasize, m).v
  BY <1>13 DEF Building
<1>15. ASSUME NEW k \in Wanted PROVE luaH_get(w, k) = luaH_get(u, k)
  <2>1. CASE luaH_get(u, k) = Nil
    BY <1>14, <2>1
  <2>2. CASE luaH_get(u, k) # Nil /\ inarray(u, k) /\ k <= nasize
    <3>1. DOMAIN w.arr = 1..nasize
      BY <1>14, Parts DEF TableInv
    <3>2. k \in 1..Len(u.arr)
      BY <1>3, <2>2 DEF inarray
    <3>3. inarray(w, k)
      BY <2>2, <3>1, <3>2 DEF inarray
    <3>4. QED
      BY <1>14, <2>2, <3>3
  <2>3. CASE luaH_get(u, k) # Nil /\ ~(inarray(u, k) /\ k <= nasize)
    <3>1. PICK n \in 1..last : entry(u, nasize, n).k = k /\ entry(u, nasize, n).v = luaH_get(u, k)
      BY <1>1, <2>3, EntryOf
    <3>2. QED
      BY <1>14, <2>3, <3>1
  <2>4. QED
    BY <2>1, <2>2, <2>3
<1>16. QED
  BY <1>8, <1>14, <1>15

-----------------------------------------------------------------------------
(* luaH_set stores, and changes nothing else.                              *)

\* What a table holds has a value of the right kind, and a key.
LEMMA GetKind ==
  ASSUME NEW u, TableInv(u), NEW k \in Wanted
  PROVE  luaH_get(u, k) \in Vals /\ (luaH_get(u, k) # Nil => k \in Keys)
<1>1. u \in Tables /\ Filled(u)
  BY DEF TableInv
<1>2. /\ \A i \in DOMAIN u.arr : u.arr[i] \in Vals
      /\ \A i \in DOMAIN u.node : u.node[i].k \in Vals /\ u.node[i].v \in Vals
  BY <1>1, Parts
<1>3. CASE inarray(u, k)
  <2>1. k \in DOMAIN u.arr /\ luaH_get(u, k) = u.arr[k]
    BY <1>3 DEF inarray, luaH_get
  <2>2. QED
    BY <1>1, <1>2, <2>1 DEF Filled, Keys
<1>4. CASE ~inarray(u, k)
  <2>1. luaH_get(u, k) # Nil => \E i \in DOMAIN u.node : u.node[i].k = k /\ u.node[i].v = luaH_get(u, k)
    BY <1>4, GetIs
  <2>2. Nil \in Vals /\ k # Nil
    BY KeyFacts DEF Vals
  <2>3. QED
    BY <1>2, <2>1, <2>2 DEF Vals
<1>5. QED
  BY <1>3, <1>4

\* The table without parts.
Empty == [arr |-> <<>>, node |-> <<>>, free |-> 1]

\* It is a table, and holds nothing.
LEMMA EmptyIs ==
  TableInv(Empty) /\ \A k \in Wanted : luaH_get(Empty, k) = Nil
<1>1. PICK u : u = Empty
  OBVIOUS
<1>2. u.arr = <<>> /\ u.node = <<>> /\ u.free = 1 /\ u \in Tables
  BY <1>1 DEF Empty, Tables
<1>3. sizenode(u) = 0 /\ DOMAIN u.node = {} /\ DOMAIN u.arr = {}
  BY <1>2 DEF sizenode
<1>4. links(u) = [i \in 0..0 |-> 0]
  BY <1>3 DEF links
<1>5. Linked(u, [i \in 1..0 |-> {}])
  <2>1. Ordered(0, links(u), [i \in 1..0 |-> {}])
    BY <1>4, NewOrdered
  <2>2. QED
    BY <1>3, <2>1 DEF Linked
<1>6. Filled(u)
  <2>1. u.free \in 1..(0 + 1) /\ \A i \in u.free..0 : FALSE
    BY <1>2
  <2>2. QED
    BY <1>3, <2>1 DEF Filled
<1>7. TableInv(u)
  BY <1>2, <1>5, <1>6 DEF TableInv
<1>8. \A k \in Wanted : luaH_get(u, k) = Nil
  <2>1. isdummy(u) /\ \A k : ~inarray(u, k)
    BY <1>2, <1>3 DEF isdummy, inarray
  <2>2. QED
    BY <2>1 DEF luaH_get, nodeof
<1>9. QED
  BY <1>1, <1>7, <1>8

\* rehash chooses sizes with room for all keys and the new one.
LEMMA RehashRight ==
  ASSUME NEW u, TableInv(u), NEW k \in Keys, NEW w, w = rehash(u, k)
  PROVE  /\ TableInv(w) /\ \A x \in Wanted : luaH_get(w, x) = luaH_get(u, x)
         /\ inarray(w, k) \/ nodeof(w, k, FALSE) # 0 \/ hasroom(w, k)
<1>1. u \in Tables /\ Filled(u)
  BY DEF TableInv
<1>2. /\ DOMAIN u.arr = 1..Len(u.arr) /\ \A i \in DOMAIN u.node : u.node[i].k \in Vals
  BY <1>1, Parts
<1>3. PICK used : used = numusearray(u) \cup numusehash(u) \cup {k}
  OBVIOUS
<1>4. used \subseteq Keys /\ k \in used
  <2>1. numusearray(u) \subseteq Ints
    BY <1>1 DEF numusearray, Filled
  <2>2. numusehash(u) \subseteq Keys
    BY <1>1, <1>2 DEF numusehash, Filled, Vals
  <2>3. QED
    BY <1>3, <2>1, <2>2 DEF Keys
<1>5. PICK nasize : nasize = computesizes(used \cap Ints)
  OBVIOUS
<1>6. nasize \in Nat
  <2>1. PICK Q : Q = {n \in PowersOf2 : 2 * Cardinality({i \in used \cap Ints : i \in 1..n}) > n}
    OBVIOUS
  <2>2. Q \subseteq PowersOf2 /\ IsFiniteSet(Q)
    BY <2>1, TableAssumption, FS_Subset
  <2>3. PICK P : P = {0} \cup Q
    OBVIOUS
  <2>4. nasize = Max(P)
    BY <1>5, <2>1, <2>3 DEF computesizes
  <2>5. P \in SUBSET Int /\ P # {} /\ P \subseteq Nat
    BY <2>2, <2>3, TableAssumption
  <2>6. IsFiniteSet(P)
    BY <2>2, <2>3, FS_Singleton, FS_Union
  <2>7. nasize \in P
    BY <2>4, <2>5, <2>6, MaxIs
  <2>8. QED
    BY <2>5, <2>7
<1>7. PICK S : S = used \ 1..nasize
  OBVIOUS
<1>8. PICK nhsize : nhsize = Cardinality(S)
  OBVIOUS
<1>9. w = luaH_resize(u, nasize, nhsize)
  BY <1>3, <1>5, <1>7, <1>8 DEF rehash, newsizes
<1>10. IsFiniteSet(S) /\ nhsize \in Nat /\ Fits(nhsize)
  <2>1. IsFiniteSet(Keys) /\ S \subseteq Keys
    BY <1>4, <1>7, TableAssumption
  <2>2. IsFiniteSet(S) /\ Cardinality(S) <= Cardinality(Keys) /\ Cardinality(S) \in Nat
    BY <2>1, FS_Subset, FS_CardinalityType
  <2>3. QED
    BY <1>8, <2>2 DEF Fits
<1>11. Suffices(u, nasize, nhsize, S)
  <2>1. ASSUME NEW x \in Keys, luaH_get(u, x) # Nil PROVE x \in used
    <3>1. x \in Wanted
      BY KeyFacts
    <3>2. CASE inarray(u, x)
      BY <1>3, <2>1, <3>2 DEF inarray, luaH_get, numusearray
    <3>3. CASE ~inarray(u, x)
      <4>1. PICK i \in DOMAIN u.node : u.node[i].k = x /\ u.node[i].v = luaH_get(u, x)
        BY <2>1, <3>1, <3>3, GetIs
      <4>2. x \in numusehash(u)
        BY <2>1, <4>1 DEF numusehash
      <4>3. QED
        BY <1>3, <4>2
    <3>4. QED
      BY <3>2, <3>3
  <2>2. QED
    BY <1>7, <1>8, <1>10, <2>1 DEF Suffices
<1>12. /\ TableInv(w) /\ Len(w.arr) = nasize /\ sizenode(w) >= nhsize /\ AllInUse(w) /\ NodeKeys(w) \subseteq S
       /\ \A x \in Wanted : luaH_get(w, x) = luaH_get(u, x)
  BY ONLY TableInv(u), <1>6, <1>9, <1>10, <1>11, ResizeRight
<1>13. ASSUME ~inarray(w, k), nodeof(w, k, FALSE) = 0 PROVE hasroom(w, k)
  <2>1. k \in Wanted /\ k # Nil
    BY KeyFacts
  <2>2. Absent(w, k)
    BY ONLY <1>12, <1>13, <2>1, LivingIs
  <2>3. \A i \in DOMAIN w.node : w.node[i].dead => w.node[i].v = Nil
    BY <1>12 DEF TableInv, Filled
  <2>4. k \notin NodeKeys(w)
    BY ONLY <1>12, <2>1, <2>2, <2>3 DEF Absent, NodeKeys, AllInUse
  <2>5. k \in S
    <3>1. DOMAIN w.arr = 1..nasize
      BY <1>12, Parts DEF TableInv
    <3>2. k \in 1..nasize => k \notin Objects
      BY KeyFacts
    <3>3. k \notin 1..nasize
      BY <1>13, <3>1, <3>2 DEF inarray
    <3>4. QED
      BY <1>4, <1>7, <3>3
  <2>6. Cardinality(S) <= sizenode(w)
    BY <1>8, <1>12
  <2>7. QED
    BY ONLY <1>10, <1>12, k \in Keys, <2>4, <2>5, <2>6, RoomLeft
<1>14. QED
  BY <1>12, <1>13

\* luaH_set: the value is found under its key, and all others where they were.
LEMMA SetRight ==
  ASSUME NEW u, TableInv(u), NEW k \in Keys, NEW v \in Vals, NEW w, w = luaH_set(u, k, v)
  PROVE  TableInv(w) /\ \A x \in Wanted : luaH_get(w, x) = IF x = k THEN v ELSE luaH_get(u, x)
<1>1. CASE inarray(u, k) \/ nodeof(u, k, FALSE) # 0 \/ hasroom(u, k)
  <2>1. w = stored(u, k, v)
    BY <1>1 DEF luaH_set
  <2>2. Stores(u, w, k, v)
    BY <1>1, <2>1, StoredStores
  <2>3. QED
    BY <2>2 DEF Stores
<1>2. CASE ~(inarray(u, k) \/ nodeof(u, k, FALSE) # 0 \/ hasroom(u, k))
  <2>1. PICK x : x = rehash(u, k)
    OBVIOUS
  <2>2. w = stored(x, k, v)
    BY <1>2, <2>1 DEF luaH_set
  <2>3. /\ TableInv(x) /\ \A y \in Wanted : luaH_get(x, y) = luaH_get(u, y)
        /\ inarray(x, k) \/ nodeof(x, k, FALSE) # 0 \/ hasroom(x, k)
    BY <2>1, RehashRight
  <2>4. Stores(x, w, k, v)
    BY <2>2, <2>3, StoredStores
  <2>5. QED
    BY <2>3, <2>4 DEF Stores
<1>3. QED
  BY <1>1, <1>2

-----------------------------------------------------------------------------
(* luaH_getn returns a border.                                             *)

\* n is in use or 0, and what comes after it is not.
Border(u, n) == n \in Nat /\ (n = 0 \/ luaH_get(u, n) # Nil) /\ luaH_get(u, n + 1) = Nil
\* A pair with a border in between.
Between(u, b) ==
  /\ b = <<b[1], b[2]>> /\ b[1] \in Nat /\ b[2] \in Nat /\ b[1] < b[2]
  /\ b[1] = 0 \/ luaH_get(u, b[1]) # Nil
Halves(u, first, b, n) == IF n = 0 THEN first ELSE narrowed(u, b[n - 1])
Doubles(u, first, b, n) == IF n = 0 THEN first ELSE doubled(u, b[n - 1])
Halving(u, first, b, last) == b = [n \in 0..last |-> Halves(u, first, b, n)]
Doubling(u, first, b, top) == b = [n \in 0..top |-> Doubles(u, first, b, n)]

\* The recursive function in binsearch is what its definition says.
LEMMA HalvesIs ==
  ASSUME NEW u, NEW i \in Nat, NEW j \in Nat, i < j, NEW last, last = j - i, NEW first, first = <<i, j>>
  PROVE  \E b : Halving(u, first, b, last) /\ binsearch(u, i, j) = b[last][1]
<1> DEFINE S == {n \in 0..last : \E f : f = [k \in 0..n |-> Halves(u, first, f, k)]}
<1>1. last \in Nat
  OBVIOUS
<1>2. 0 \in S
  <2> DEFINE f == [k \in 0..0 |-> first]
  <2>1. f = [k \in 0..0 |-> Halves(u, first, f, k)]
    BY DEF Halves
  <2>2. QED
    BY <1>1, <2>1
<1>3. ASSUME NEW n \in 0..(last - 1), n \in S PROVE n + 1 \in S
  <2>1. PICK f : f = [k \in 0..n |-> Halves(u, first, f, k)]
    BY <1>3
  <2> DEFINE longer == [k \in 0..(n + 1) |-> IF k <= n THEN f[k] ELSE Halves(u, first, f, n + 1)]
  <2>2. ASSUME NEW k \in 0..(n + 1) PROVE longer[k] = Halves(u, first, longer, k)
    BY <1>1, <2>1 DEF Halves
  <2>3. longer = [k \in 0..(n + 1) |-> Halves(u, first, longer, k)]
    BY <2>2
  <2>4. n + 1 \in 0..last
    BY <1>1
  <2>5. \E h : h = [k \in 0..(n + 1) |-> Halves(u, first, h, k)]
    BY <2>3
  <2>6. QED
    BY <2>4, <2>5
<1>4. last \in S
  <2> HIDE DEF S
  <2>1. \A k \in 0..last : k \in S
    BY <1>1, <1>2, <1>3, Upto
  <2>2. last \in 0..last
    BY <1>1
  <2>3. QED
    BY <2>1, <2>2
<1>5. \E f : f = [k \in 0..last |-> Halves(u, first, f, k)]
  BY <1>4
<1>6. QED
  BY <1>1, <1>5 DEF binsearch, Halves, Halving

\* The recursive function in unbound_search is what its definition says.
LEMMA DoublesIs ==
  ASSUME NEW u, NEW j \in Nat, NEW top \in Nat, top = Max({0} \cup Ints), NEW first, first = <<j, j + 1>>
  PROVE  \E b : /\ Doubling(u, first, b, top)
                /\ unbound_search(u, j) = binsearch(u, b[top][1], b[top][2])
<1> DEFINE S == {n \in 0..top : \E f : f = [k \in 0..n |-> Doubles(u, first, f, k)]}
<1>1. 0 \in S
  <2> DEFINE f == [k \in 0..0 |-> first]
  <2>1. f = [k \in 0..0 |-> Doubles(u, first, f, k)]
    BY DEF Doubles
  <2>2. QED
    BY <2>1
<1>2. ASSUME NEW n \in 0..(top - 1), n \in S PROVE n + 1 \in S
  <2>1. PICK f : f = [k \in 0..n |-> Doubles(u, first, f, k)]
    BY <1>2
  <2> DEFINE longer == [k \in 0..(n + 1) |-> IF k <= n THEN f[k] ELSE Doubles(u, first, f, n + 1)]
  <2>2. ASSUME NEW k \in 0..(n + 1) PROVE longer[k] = Doubles(u, first, longer, k)
    BY ONLY top \in Nat, n \in 0..(top - 1), k \in 0..(n + 1), <2>1 DEF Doubles
  <2>3. longer = [k \in 0..(n + 1) |-> Doubles(u, first, longer, k)]
    BY <2>2
  <2>4. n + 1 \in 0..top
    OBVIOUS
  <2>5. \E h : h = [k \in 0..(n + 1) |-> Doubles(u, first, h, k)]
    BY <2>3
  <2>6. QED
    BY <2>4, <2>5
<1>3. top \in S
  <2>1. \A k \in 0..top : k \in S
    <3> HIDE DEF S
    <3> QED
      BY <1>1, <1>2, Upto
  <2>2. top \in 0..top
    OBVIOUS
  <2>3. QED
    BY ONLY <2>1, <2>2
<1>4. \E f : f = [k \in 0..top |-> Doubles(u, first, f, k)]
  BY <1>3
<1>5. QED
  BY <1>4 DEF unbound_search, Doubling, Doubles

\* A pair of which the second is not in use is halved to a border.
LEMMA BinsearchRight ==
  ASSUME NEW u, NEW b0, Between(u, b0), luaH_get(u, b0[2]) = Nil, NEW r, r = binsearch(u, b0[1], b0[2])
  PROVE  Border(u, r)
<1>1. PICK i, j : i = b0[1] /\ j = b0[2]
  OBVIOUS
<1>2. i \in Nat /\ j \in Nat /\ i < j /\ b0 = <<i, j>>
  BY <1>1 DEF Between
<1>3. PICK last : last = j - i
  OBVIOUS
<1>4. PICK b : b = [n \in 0..last |-> Halves(u, b0, b, n)] /\ r = b[last][1]
  <2>1. \E b : Halving(u, b0, b, last) /\ binsearch(u, i, j) = b[last][1]
    BY ONLY <1>2, <1>3, HalvesIs
  <2>2. PICK b : Halving(u, b0, b, last) /\ binsearch(u, i, j) = b[last][1]
    BY <2>1
  <2>3. r = b[last][1]
    BY <1>1, <2>2
  <2>4. QED
    BY <2>2, <2>3 DEF Halving
<1>5. last \in Nat \ {0}
  BY <1>2, <1>3
<1> DEFINE Good(c, n) == Between(u, c) /\ luaH_get(u, c[2]) = Nil /\ (c[2] - c[1] = 1 \/ c[2] - c[1] <= last - n)
           D == {n \in 0..last : Good(b[n], n)}
<1>6. 0 \in D
  <2>1. b[0] = b0
    BY <1>2, <1>4, <1>5 DEF Halves
  <2>2. Good(b0, 0)
    BY <1>1, <1>2, <1>3
  <2>3. QED
    BY <1>5, <2>1, <2>2
<1>7. ASSUME NEW n \in 0..(last - 1), n \in D PROVE n + 1 \in D
  <2>1. PICK c, d, x, y : c = b[n] /\ d = b[n + 1] /\ x = c[1] /\ y = c[2]
    OBVIOUS
  <2>2. Good(c, n)
    BY <1>7, <2>1
  <2>3. x \in Nat /\ y \in Nat /\ x < y /\ (x = 0 \/ luaH_get(u, x) # Nil) /\ luaH_get(u, y) = Nil /\ c = <<x, y>>
    BY <2>1, <2>2 DEF Between
  <2>4. d = narrowed(u, c)
    <3>1. n + 1 \in 0..last /\ n + 1 # 0 /\ (n + 1) - 1 = n
      BY <1>5
    <3>2. b[n + 1] = Halves(u, b0, b, n + 1)
      BY <1>4, <3>1
    <3>3. QED
      BY <2>1, <3>1, <3>2 DEF Halves
  <2>5. Good(d, n + 1)
    <3>1. CASE y - x <= 1
      <4>1. d = c
        BY <2>1, <2>4, <3>1 DEF narrowed
      <4>2. y - x = 1
        BY <2>3, <3>1
      <4>3. QED
        BY <2>1, <2>2, <4>1, <4>2
    <3>2. CASE ~(y - x <= 1)
      <4>1. PICK m : m = (x + y) \div 2
        OBVIOUS
      <4>2. m \in Nat /\ x < m /\ m < y
        BY <2>3, <3>2, <4>1
      <4>3. y - x <= last - n
        BY <2>1, <2>2, <2>3, <3>2
      <4>4. m - x <= last - (n + 1) /\ y - m <= last - (n + 1)
        BY <1>5, <2>3, <4>2, <4>3
      <4>5. d = IF luaH_get(u, m) = Nil THEN <<x, m>> ELSE <<m, y>>
        BY <2>1, <2>4, <3>2, <4>1 DEF narrowed
      <4>6. CASE luaH_get(u, m) = Nil
        <5>1. d = <<x, m>> /\ d[1] = x /\ d[2] = m
          BY <4>5, <4>6
        <5>2. QED
          BY <2>3, <4>2, <4>4, <4>6, <5>1 DEF Between
      <4>7. CASE luaH_get(u, m) # Nil
        <5>1. d = <<m, y>> /\ d[1] = m /\ d[2] = y
          BY <4>5, <4>7
        <5>2. QED
          BY <2>3, <4>2, <4>4, <4>7, <5>1 DEF Between
      <4>8. QED
        BY <4>6, <4>7
    <3>3. QED
      BY <3>1, <3>2
  <2>6. QED
    BY <1>5, <2>1, <2>5
<1>8. last \in D
  <2>1. \A n \in 0..last : n \in D
    <3> HIDE DEF D
    <3> QED
      BY <1>5, <1>6, <1>7, Upto
  <2>2. QED
    BY <1>5, <2>1
<1>9. PICK x, y : x = b[last][1] /\ y = b[last][2]
  OBVIOUS
<1>10. x \in Nat /\ y \in Nat /\ x < y /\ (x = 0 \/ luaH_get(u, x) # Nil) /\ luaH_get(u, y) = Nil /\ (y - x = 1 \/ y - x <= last - last)
  BY <1>8, <1>9 DEF Between
<1>11. y = x + 1
  BY <1>5, <1>10
<1>12. QED
  BY <1>4, <1>9, <1>10, <1>11 DEF Border

\* All integers of the table are below the last pair.
LEMMA UnboundRight ==
  ASSUME NEW u, TableInv(u), NEW j \in Nat, j = 0 \/ luaH_get(u, j) # Nil, NEW r, r = unbound_search(u, j)
  PROVE  Border(u, r)
<1>1. PICK P : P = {0} \cup Ints
  OBVIOUS
<1>2. P \in SUBSET Int /\ P # {} /\ IsFiniteSet(P) /\ 0 \in P
  <2>1. IsFiniteSet(Ints) /\ Ints \subseteq Int
    <3>1. Ints \subseteq Keys
      BY DEF Keys
    <3>2. QED
      BY <3>1, TableAssumption, FS_Subset
  <2>2. IsFiniteSet({0}) /\ IsFiniteSet({0} \cup Ints)
    BY <2>1, FS_Singleton, FS_Union
  <2>3. QED
    BY <1>1, <2>1, <2>2
<1>3. PICK top : top = Max(P)
  OBVIOUS
<1>4. top \in Nat /\ \A n \in Ints : n <= top
  <2>1. top \in P /\ \A n \in P : n <= top
    BY <1>2, <1>3, MaxIs
  <2>2. QED
    BY <1>1, <1>2, <2>1
<1>5. PICK first : first = <<j, j + 1>>
  OBVIOUS
<1>6. PICK b : Doubling(u, first, b, top) /\ r = binsearch(u, b[top][1], b[top][2])
  <2>1. top = Max({0} \cup Ints)
    BY <1>1, <1>3
  <2>2. top \in Nat
    BY <1>4
  <2>3. \E b : Doubling(u, first, b, top) /\ unbound_search(u, j) = binsearch(u, b[top][1], b[top][2])
    BY ONLY j \in Nat, <1>5, <2>1, <2>2, DoublesIs
  <2>4. QED
    BY <2>3
<1> DEFINE Good(c, n) == Between(u, c) /\ (luaH_get(u, c[2]) = Nil \/ c[2] >= n + 1)
           D == {n \in 0..top : Good(b[n], n)}
<1>7. 0 \in D
  <2>1. b[0] = <<j, j + 1>>
    BY <1>4, <1>5, <1>6 DEF Doubling, Doubles
  <2>2. Good(<<j, j + 1>>, 0)
    BY DEF Between
  <2>3. QED
    BY <1>4, <2>1, <2>2
<1>8. ASSUME NEW n \in 0..(top - 1), n \in D PROVE n + 1 \in D
  <2>1. PICK c, d, x, y : c = b[n] /\ d = b[n + 1] /\ x = c[1] /\ y = c[2]
    OBVIOUS
  <2>2. Good(c, n)
    BY <1>8, <2>1
  <2>3. /\ x \in Nat /\ y \in Nat /\ x < y /\ (x = 0 \/ luaH_get(u, x) # Nil) /\ c = <<x, y>>
        /\ luaH_get(u, y) = Nil \/ y >= n + 1
    BY <2>1, <2>2 DEF Between
  <2>4. d = doubled(u, c)
    <3>1. n + 1 \in 0..top /\ n + 1 # 0 /\ (n + 1) - 1 = n
      BY <1>4
    <3>2. b[n + 1] = Doubles(u, first, b, n + 1)
      BY <1>6, <3>1 DEF Doubling
    <3>3. QED
      BY <2>1, <3>1, <3>2 DEF Doubles
  <2>5. Good(d, n + 1)
    <3>1. CASE luaH_get(u, y) = Nil
      <4>1. d = c
        BY <2>1, <2>4, <3>1 DEF doubled
      <4>2. QED
        BY <2>1, <2>2, <3>1, <4>1
    <3>2. CASE luaH_get(u, y) # Nil
      <4>1. d = <<y, 2 * y>> /\ d[1] = y /\ d[2] = 2 * y
        BY <2>1, <2>4, <3>2 DEF doubled
      <4>2. 2 * y \in Nat /\ y < 2 * y /\ 2 * y >= (n + 1) + 1
        BY <2>3, <3>2
      <4>3. QED
        BY <2>3, <3>2, <4>1, <4>2 DEF Between
    <3>3. QED
      BY <3>1, <3>2
  <2>6. QED
    BY <1>4, <2>1, <2>5
<1>9. top \in D
  <2>1. \A n \in 0..top : n \in D
    <3> HIDE DEF D
    <3> QED
      BY <1>4, <1>7, <1>8, Upto
  <2>2. QED
    BY <1>4, <2>1
<1>10. PICK c : c = b[top]
  OBVIOUS
<1>11. Between(u, c) /\ (luaH_get(u, c[2]) = Nil \/ c[2] >= top + 1)
  BY <1>9, <1>10
<1>12. luaH_get(u, c[2]) = Nil
  <2>1. c[2] \in Nat /\ c[2] \in Wanted
    BY <1>11 DEF Between, Wanted
  <2>2. c[2] \in Keys => c[2] \in Ints
    BY <2>1, KeyFacts DEF Keys
  <2>3. c[2] >= top + 1 => c[2] \notin Ints
    BY <1>4, <2>1
  <2>4. QED
    BY <1>11, <2>1, <2>2, <2>3, GetKind
<1>13. r = binsearch(u, c[1], c[2])
  BY <1>6, <1>10
<1>14. QED
  BY ONLY <1>11, <1>12, <1>13, BinsearchRight

\* luaH_getn: the length of a table is a border.
LEMMA LengthRight ==
  ASSUME NEW u, TableInv(u), NEW n, n = luaH_getn(u)
  PROVE  Border(u, n)
<1>1. u \in Tables
  BY DEF TableInv
<1>2. PICK len : len = Len(u.arr)
  OBVIOUS
<1>3. /\ len \in Nat /\ DOMAIN u.arr = 1..len /\ (u.arr = <<>> <=> len = 0)
      /\ (isdummy(u) <=> u.node = <<>>)
  BY <1>1, <1>2 DEF Tables, isdummy
<1>4. \A m \in 1..len : m \in Wanted /\ inarray(u, m) /\ luaH_get(u, m) = u.arr[m]
  <2>1. \A m \in 1..len : m \in Int /\ m \in DOMAIN u.arr
    BY <1>3
  <2>2. \A m \in 1..len : inarray(u, m) /\ m \in Wanted
    BY <2>1, KeyFacts DEF inarray, Wanted
  <2>3. QED
    BY <2>2 DEF luaH_get
<1>5. CASE u.arr # <<>> /\ u.arr[len] = Nil
  <2>1. n = binsearch(u, 0, len)
    BY <1>2, <1>5 DEF luaH_getn
  <2>2. PICK b : b = <<0, len>>
    OBVIOUS
  <2>3. len \in 1..len /\ b[1] = 0 /\ b[2] = len
    BY <1>3, <1>5, <2>2
  <2>4. Between(u, b) /\ luaH_get(u, b[2]) = Nil
    BY <1>3, <1>4, <1>5, <2>2, <2>3 DEF Between
  <2>5. n = binsearch(u, b[1], b[2])
    BY <2>1, <2>3
  <2>6. QED
    BY ONLY <2>4, <2>5, BinsearchRight
<1>6. CASE u.arr = <<>> \/ u.arr[len] # Nil
  <2>1. len = 0 \/ luaH_get(u, len) # Nil
    <3>1. len # 0 => len \in 1..len
      BY <1>3
    <3>2. QED
      BY <1>3, <1>4, <1>6, <3>1
  <2>2. CASE isdummy(u)
    <3>1. n = len
      BY <1>2, <1>6, <2>2 DEF luaH_getn
    <3>2. ~inarray(u, len + 1)
      BY <1>3 DEF inarray
    <3>3. luaH_get(u, len + 1) = Nil
      BY <2>2, <3>2 DEF luaH_get, nodeof
    <3>4. QED
      BY <1>3, <2>1, <3>1, <3>3 DEF Border
  <2>3. CASE ~isdummy(u)
    <3>1. n = unbound_search(u, len)
      BY <1>2, <1>6, <2>3 DEF luaH_getn
    <3>2. QED
      BY ONLY TableInv(u), <1>3, <2>1, <3>1, UnboundRight
  <2>4. QED
    BY <2>2, <2>3
<1>7. QED
  BY <1>5, <1>6

-----------------------------------------------------------------------------
(* Traversal.                                                              *)

\* Up to the slot of key c, the last one, the traversal has seen what is in use.
TravInv(u, c, s) ==
  /\ s \subseteq Keys
  /\ c = Nil => s = {}
  /\ c # Nil => /\ c \in Keys /\ findindex(u, c) # 0
                /\ \A i \in inuse(u) : i <= findindex(u, c) <=> keyat(u, i) \in s

\* Where a key is found.
LEMMA FindIs ==
  ASSUME NEW u, TableInv(u), NEW k \in Wanted
  PROVE  /\ findindex(u, k) \in Nat
         /\ inarray(u, k) => findindex(u, k) = k
         /\ \A j \in DOMAIN u.node :
              ~inarray(u, k) /\ u.node[j].k = k /\ ~u.node[j].dead => findindex(u, k) = Len(u.arr) + j
<1>1. u \in Tables /\ Len(u.arr) \in Nat /\ DOMAIN u.arr = 1..Len(u.arr) /\ DOMAIN u.node = 1..sizenode(u) /\ sizenode(u) \in Nat
  BY Parts DEF TableInv
<1>2. inarray(u, k) => findindex(u, k) = k /\ k \in Nat
  BY <1>1 DEF findindex, inarray
<1> DEFINE dead == TRUE
<1>3. PICK n : n = nodeof(u, k, dead)
  OBVIOUS
<1>4. dead \in BOOLEAN
  OBVIOUS
<1>5. ~inarray(u, k) => findindex(u, k) = IF n = 0 THEN 0 ELSE Len(u.arr) + n
  BY <1>3 DEF findindex
<1>6. dead = TRUE
  OBVIOUS
<1> HIDE DEF dead
<1>7. /\ n = 0 => \A j \in DOMAIN u.node : u.node[j].k = k => u.node[j].dead /\ ~dead
      /\ n # 0 => /\ n \in DOMAIN u.node
                  /\ \A j \in DOMAIN u.node : u.node[j].k = k => n = j \/ u.node[j].dead
  BY ONLY TableInv(u), k \in Wanted, <1>3, <1>4, NodeIs
<1>8. n = 0 \/ n \in 1..sizenode(u)
  BY <1>1, <1>7
<1>9. ~inarray(u, k) => findindex(u, k) \in Nat
  BY <1>1, <1>5, <1>8
<1>10. QED
  BY <1>2, <1>5, <1>6, <1>7, <1>9

\* A slot in use is that of its key.
LEMMA SlotIs ==
  ASSUME NEW u, TableInv(u), NEW i \in inuse(u), NEW k, k = keyat(u, i)
  PROVE  i \in Nat \ {0} /\ k \in Keys /\ findindex(u, k) = i
<1>1. u \in Tables /\ Filled(u)
  BY DEF TableInv
<1>2. /\ Len(u.arr) \in Nat /\ DOMAIN u.arr = 1..Len(u.arr) /\ DOMAIN u.node = 1..sizenode(u) /\ sizenode(u) \in Nat
      /\ \A j \in DOMAIN u.node : u.node[j].k \in Vals
  BY <1>1, Parts
<1>3. CASE i \in DOMAIN u.arr /\ u.arr[i] # Nil
  <2>1. i \in 1..Len(u.arr) /\ i \in Ints /\ i \in Wanted /\ i \notin Objects
    BY <1>1, <1>2, <1>3, KeyFacts DEF Filled, Keys
  <2>2. k = i /\ inarray(u, k)
    BY <1>2, <1>3, <2>1 DEF keyat, inarray
  <2>3. QED
    BY <2>1, <2>2, FindIs DEF Keys
<1>4. ASSUME NEW j \in DOMAIN u.node, u.node[j].v # Nil, i = Len(u.arr) + j
      PROVE  i \in Nat \ {0} /\ k \in Keys /\ findindex(u, k) = i
  <2>1. i \in Nat \ {0} /\ ~(i <= Len(u.arr)) /\ i - Len(u.arr) = j
    BY <1>2, <1>4
  <2>2. k = u.node[j].k
    BY <2>1 DEF keyat
  <2>3. k # Nil /\ ~u.node[j].dead /\ ~inarray(u, k)
    BY <1>1, <1>4, <2>2 DEF Filled
  <2>4. k \in Keys /\ k \in Wanted
    BY <1>2, <2>2, <2>3, KeyFacts DEF Vals
  <2>5. QED
    BY <1>4, <2>1, <2>2, <2>3, <2>4, FindIs
<1>5. QED
  BY <1>3, <1>4 DEF inuse, numusearray

\* What has a value has a slot in use.
LEMMA SlotOf ==
  ASSUME NEW u, TableInv(u), NEW k \in Wanted, luaH_get(u, k) # Nil
  PROVE  \E i \in inuse(u) : keyat(u, i) = k
<1>1. /\ Len(u.arr) \in Nat /\ DOMAIN u.arr = 1..Len(u.arr) /\ DOMAIN u.node = 1..sizenode(u) /\ sizenode(u) \in Nat
  BY Parts DEF TableInv
<1>2. CASE inarray(u, k)
  <2>1. k \in 1..Len(u.arr) /\ u.arr[k] # Nil
    BY <1>1, <1>2 DEF inarray, luaH_get
  <2>2. k \in inuse(u) /\ keyat(u, k) = k
    BY <1>1, <2>1 DEF inuse, numusearray, keyat
  <2>3. QED
    BY <2>2
<1>3. CASE ~inarray(u, k)
  <2>1. PICK j \in DOMAIN u.node : u.node[j].k = k /\ u.node[j].v = luaH_get(u, k)
    BY <1>3, GetIs
  <2>2. PICK i : i = Len(u.arr) + j
    OBVIOUS
  <2>3. ~(i <= Len(u.arr)) /\ i - Len(u.arr) = j
    BY <1>1, <2>2
  <2>4. i \in inuse(u)
    BY <2>1, <2>2 DEF inuse
  <2>5. keyat(u, i) = k
    BY <2>1, <2>3 DEF keyat
  <2>6. QED
    BY <2>4, <2>5
<1>4. QED
  BY <1>2, <1>3

\* The next key is that of the first slot in use after the last one.
LEMMA NextIs ==
  ASSUME NEW u, TableInv(u), NEW c, NEW x, x = luaH_next(u, c),
         NEW rest, rest = {i \in inuse(u) : c = Nil \/ i > findindex(u, c)}
  PROVE  /\ rest = {} => x = Nil
         /\ rest # {} => \E m \in rest : x = keyat(u, m) /\ x \in Keys /\ \A i \in rest : m <= i
<1>1. x = IF rest = {} THEN Nil ELSE keyat(u, Min(rest))
  BY DEF luaH_next
<1>2. rest \in SUBSET Nat
  BY SlotIs
<1>3. rest # {} => Min(rest) \in rest /\ \A i \in rest : Min(rest) <= i
  BY <1>2, MinIs
<1>4. rest # {} => keyat(u, Min(rest)) \in Keys
  BY <1>3, SlotIs
<1>5. QED
  BY <1>1, <1>3, <1>4

\* luaH_next finds a key that is new, as long as there is one.
LEMMA NextRight ==
  ASSUME NEW u, TableInv(u), NEW c, NEW s, TravInv(u, c, s), NEW x, x = luaH_next(u, c)
  PROVE  /\ x \notin s
         /\ c # Nil /\ x = Nil => \A k \in Wanted : luaH_get(u, k) # Nil => k \in s
         /\ TravInv(u, x, IF x = Nil THEN {} ELSE s \cup {x})
<1>1. PICK rest : rest = {i \in inuse(u) : c = Nil \/ i > findindex(u, c)}
  OBVIOUS
<1>2. /\ rest = {} => x = Nil
      /\ rest # {} => \E m \in rest : x = keyat(u, m) /\ x \in Keys /\ \A i \in rest : m <= i
  BY <1>1, NextIs
<1>3. Nil \notin Keys /\ Keys \subseteq Wanted
  BY KeyFacts
<1>4. PICK f : f = findindex(u, c)
  OBVIOUS
<1>5. /\ s \subseteq Keys /\ (c = Nil => s = {})
      /\ c # Nil => f # 0 /\ f \in Nat /\ \A i \in inuse(u) : i <= f <=> keyat(u, i) \in s
  <2>1. c # Nil => f \in Nat
    BY <1>3, <1>4, FindIs DEF TravInv
  <2>2. QED
    BY <1>4, <2>1 DEF TravInv
<1>6. \A i \in inuse(u) : i \in Nat \ {0} /\ findindex(u, keyat(u, i)) = i
  BY SlotIs
<1>7. \A i \in inuse(u) : i \in rest <=> c = Nil \/ ~(i <= f)
  BY <1>1, <1>4, <1>5, <1>6
<1>8. rest \subseteq inuse(u)
  BY <1>1
<1>9. x \notin s
  BY <1>2, <1>3, <1>5, <1>7, <1>8
<1>10. ASSUME c # Nil, x = Nil, NEW k \in Wanted, luaH_get(u, k) # Nil PROVE k \in s
  <2>1. rest = {}
    BY <1>2, <1>3, <1>10
  <2>2. PICK i \in inuse(u) : keyat(u, i) = k
    BY <1>10, SlotOf
  <2>3. QED
    BY <1>5, <1>7, <1>10, <2>1, <2>2
<1>11. ASSUME x # Nil PROVE TravInv(u, x, s \cup {x})
  <2>1. PICK m \in rest : x = keyat(u, m) /\ x \in Keys /\ \A i \in rest : m <= i
    BY <1>2, <1>11
  <2>2. m \in inuse(u) /\ m \in Nat \ {0} /\ findindex(u, x) = m
    BY <1>6, <1>8, <2>1
  <2>3. ASSUME NEW i \in inuse(u) PROVE i <= m <=> keyat(u, i) \in s \cup {x}
    <3>1. i \in Nat \ {0} /\ (i = m <=> keyat(u, i) = x)
      BY <1>6, <2>1, <2>2
    <3>2. i < m => keyat(u, i) \in s
      <4>1. i < m => i \notin rest
        BY <2>1, <2>2, <3>1
      <4>2. QED
        BY <1>5, <1>7, <4>1
    <3>3. keyat(u, i) \in s => i < m
      <4>1. keyat(u, i) \in s => c # Nil /\ i <= f
        BY <1>5
      <4>2. c # Nil => ~(m <= f)
        BY <1>7, <2>1, <2>2
      <4>3. QED
        BY <1>5, <2>2, <3>1, <4>1, <4>2
    <3>4. QED
      BY <2>2, <3>1, <3>2, <3>3
  <2>4. QED
    BY <1>5, <1>11, <2>1, <2>2, <2>3 DEF TravInv
<1>12. x = Nil => TravInv(u, x, {})
  BY DEF TravInv
<1>13. QED
  BY <1>9, <1>10, <1>11, <1>12

\* Keys and links are the same, and what was empty is.
Alike(u, w) ==
  /\ TableInv(w) /\ DOMAIN w.arr = DOMAIN u.arr /\ Len(w.arr) = Len(u.arr) /\ DOMAIN w.node = DOMAIN u.node
  /\ \A i \in DOMAIN u.arr : u.arr[i] = Nil => w.arr[i] = Nil
  /\ \A j \in DOMAIN u.node : w.node[j].k = u.node[j].k /\ w.node[j].nx = u.node[j].nx
  /\ \A j \in DOMAIN u.node : u.node[j].v = Nil => w.node[j].v = Nil

\* That does not disturb a traversal, even if the last key becomes dead.
LEMMA TravKept ==
  ASSUME NEW u, TableInv(u), NEW w, Alike(u, w), NEW c, NEW s, TravInv(u, c, s)
  PROVE  TravInv(w, c, s)
<1>1. /\ u \in Tables /\ w \in Tables /\ DOMAIN w.node = DOMAIN u.node /\ DOMAIN w.arr = DOMAIN u.arr
      /\ Len(w.arr) = Len(u.arr)
      /\ \A j \in DOMAIN u.node : w.node[j].k = u.node[j].k /\ w.node[j].nx = u.node[j].nx
  BY DEF Alike, TableInv
<1>2. /\ DOMAIN u.node = 1..sizenode(u) /\ sizenode(u) \in Nat /\ Len(u.arr) \in Nat
      /\ (isdummy(u) <=> sizenode(u) = 0) /\ (isdummy(w) <=> sizenode(w) = 0)
  BY <1>1, Parts
<1>3. sizenode(w) = sizenode(u)
  BY <1>1, SameSize
<1>4. links(w) = links(u)
  BY <1>1, <1>2, <1>3, SameLinks
<1>5. \A k : mainposition(w, k) = mainposition(u, k)
  BY <1>3, SameMain
<1>6. ASSUME NEW k PROVE findindex(w, k) = findindex(u, k)
  <2> DEFINE dead == TRUE
  <2>1. PICK n, m : n = nodeof(u, k, dead) /\ m = nodeof(w, k, dead)
    OBVIOUS
  <2>2. findindex(u, k) = IF inarray(u, k) THEN k ELSE IF n = 0 THEN 0 ELSE Len(u.arr) + n
    BY <2>1 DEF findindex
  <2>3. findindex(w, k) = IF inarray(w, k) THEN k ELSE IF m = 0 THEN 0 ELSE Len(w.arr) + m
    BY <2>1 DEF findindex
  <2> HIDE DEF dead
  <2>4. PICK S : S = {i \in DOMAIN u.node : u.node[i].k = k /\ (u.node[i].dead => dead)}
    OBVIOUS
  <2>5. S = {i \in DOMAIN w.node : w.node[i].k = k /\ (w.node[i].dead => dead)}
    BY <1>1, <2>4 DEF dead
  <2>6. n = IF isdummy(u) THEN 0 ELSE firstof(chain(links(u), mainposition(u, k)), S)
    BY <2>1, <2>4 DEF nodeof
  <2>7. m = IF isdummy(w) THEN 0 ELSE firstof(chain(links(w), mainposition(w, k)), S)
    BY <2>1, <2>5 DEF nodeof
  <2>8. PICK p, nx : p = mainposition(u, k) /\ nx = links(u)
    OBVIOUS
  <2>9. mainposition(w, k) = p /\ links(w) = nx /\ (isdummy(u) <=> isdummy(w))
    BY <1>2, <1>3, <1>4, <1>5, <2>8
  <2>10. m = n
    BY <2>6, <2>7, <2>8, <2>9
  <2>11. QED
    BY <1>1, <2>2, <2>3, <2>10 DEF inarray
<1>7. \A k : findindex(w, k) = findindex(u, k)
  BY <1>6
<1>8. ASSUME NEW i \in inuse(w) PROVE i \in inuse(u) /\ keyat(w, i) = keyat(u, i)
  <2>1. CASE i \in DOMAIN w.arr /\ w.arr[i] # Nil
    <3>1. i \in DOMAIN u.arr /\ u.arr[i] # Nil /\ i <= Len(u.arr)
      BY <1>1, <2>1, Parts DEF Alike
    <3>2. QED
      BY <1>1, <3>1 DEF inuse, numusearray, keyat
  <2>2. ASSUME NEW j \in DOMAIN w.node, w.node[j].v # Nil, i = Len(w.arr) + j
        PROVE  i \in inuse(u) /\ keyat(w, i) = keyat(u, i)
    <3>1. j \in DOMAIN u.node /\ u.node[j].v # Nil /\ i = Len(u.arr) + j
      BY <1>1, <2>2 DEF Alike
    <3>2. ~(i <= Len(u.arr)) /\ i - Len(u.arr) = j
      BY <1>2, <3>1
    <3>3. QED
      BY <1>1, <3>1, <3>2 DEF inuse, keyat
  <2>3. QED
    BY <2>1, <2>2 DEF inuse, numusearray
<1>9. QED
  BY <1>7, <1>8 DEF TravInv

\* A store in a field that exists changes a value only.
LEMMA SetAlike ==
  ASSUME NEW u, TableInv(u), NEW k \in Keys, NEW v \in Vals, luaH_get(u, k) # Nil, NEW w, w = luaH_set(u, k, v)
  PROVE  Alike(u, w)
<1>1. u \in Tables /\ u.arr \in Seq(Vals) /\ k \in Wanted
  BY KeyFacts DEF TableInv, Tables
<1>2. TableInv(w) /\ w \in Tables
  BY SetRight DEF TableInv
<1>3. CASE inarray(u, k)
  <2>1. w = [u EXCEPT !.arr[k] = v] /\ k \in DOMAIN u.arr /\ u.arr[k] # Nil
    BY <1>3 DEF luaH_set, stored, inarray, luaH_get
  <2>2. Stores(u, w, k, v)
    BY <1>3, <2>1, ArrayStores
  <2>3. w.arr = [u.arr EXCEPT ![k] = v] /\ w.node = u.node
    <3>1. PICK arr : arr = [u.arr EXCEPT ![k] = v]
      OBVIOUS
    <3>2. w = [u EXCEPT !.arr = arr]
      BY <2>1, <3>1
    <3>3. w.arr = arr /\ w.node = u.node
      BY ONLY <1>1, <3>2 DEF Tables
    <3>4. QED
      BY <3>1, <3>3
  <2>4. DOMAIN w.arr = DOMAIN u.arr /\ \A i \in DOMAIN u.arr : u.arr[i] = Nil => w.arr[i] = Nil
    BY <2>1, <2>3
  <2>5. Len(w.arr) = Len(u.arr)
    BY <2>2 DEF Stores
  <2>6. QED
    BY ONLY <1>2, <2>3, <2>4, <2>5 DEF Alike
<1>4. CASE ~inarray(u, k)
  <2>1. PICK i : i = nodeof(u, k, FALSE)
    OBVIOUS
  <2>2. i # 0 /\ u.node[i].v # Nil
    BY <1>4, <2>1 DEF luaH_get
  <2>3. i \in DOMAIN u.node
    BY ONLY TableInv(u), <1>1, <2>1, <2>2, LivingIs
  <2>4. w = [u EXCEPT !.node[i].v = v]
    BY <1>4, <2>1, <2>2 DEF luaH_set, stored
  <2>5. SameKeys(u, w, i, v, u.node[i].dead)
    BY <1>1, <2>3, <2>4, SetNodeIs
  <2>6. QED
    BY ONLY <1>2, <2>2, <2>5 DEF SameKeys, Alike
<1>5. QED
  BY <1>3, <1>4

\* The collector empties a node, or one is empty, and makes it dead.
LEMMA DeadRight ==
  ASSUME NEW u, TableInv(u), NEW i \in DOMAIN u.node, u.node[i].k \in Objects, NEW w, SameKeys(u, w, i, Nil, TRUE)
  PROVE  /\ Alike(u, w)
         /\ \A x \in Wanted : luaH_get(w, x) =
              IF x = u.node[i].k /\ u.node[i].v # Nil THEN Nil ELSE luaH_get(u, x)
<1>1. /\ w \in Tables /\ w.arr = u.arr /\ w.free = u.free /\ DOMAIN w.node = DOMAIN u.node
      /\ \A j \in DOMAIN u.node : w.node[j].k = u.node[j].k /\ w.node[j].nx = u.node[j].nx
      /\ \A j \in DOMAIN u.node : j # i => w.node[j] = u.node[j]
      /\ w.node[i].v = Nil /\ w.node[i].dead = TRUE
  BY DEF SameKeys
<1>2. PICK k : k = u.node[i].k
  OBVIOUS
<1>3. k \in Objects /\ k \in Wanted /\ k # Nil
  BY <1>2, KeyFacts
<1>4. \A j \in DOMAIN u.node : u.node[j].dead => u.node[j].v = Nil
  BY DEF TableInv, Filled
<1>5. TableInv(w)
  <2>1. \A j \in DOMAIN u.node : u.node[j].k = Nil => w.node[j] = u.node[j]
    BY <1>1, <1>2, <1>3
  <2>2. \A j \in DOMAIN u.node : (u.node[j].dead => w.node[j].dead) /\ (w.node[j].dead => w.node[j].v = Nil)
    BY <1>1, <1>4
  <2>3. QED
    BY <1>1, <2>1, <2>2, KeptInv
<1>6. Alike(u, w)
  BY ONLY <1>1, <1>5 DEF Alike
<1>7. ASSUME NEW x \in Wanted, ~(x = k /\ u.node[i].v # Nil) PROVE luaH_get(w, x) = luaH_get(u, x)
  <2>1. \A y \in Vals \ {Nil} : Has(w, x, y) <=> Has(u, x, y)
    BY <1>1, <1>2, <1>7 DEF Has
  <2>2. QED
    BY <1>1, <1>5, <2>1, SameGet
<1>8. u.node[i].v # Nil => luaH_get(w, k) = Nil
  <2>1. ~inarray(w, k)
    BY <1>3 DEF inarray
  <2>2. luaH_get(w, k) \in Vals /\ \A y \in Vals \ {Nil} : luaH_get(w, k) = y <=> Has(w, k, y)
    BY <1>3, <1>5, <2>1, GetHas
  <2>3. ASSUME u.node[i].v # Nil, NEW j \in DOMAIN w.node, w.node[j].k = k PROVE w.node[j].v = Nil
    <3>1. SUFFICES ASSUME j # i, u.node[j].v # Nil PROVE FALSE
      BY <1>1
    <3>2. j \in DOMAIN u.node /\ u.node[j].k = u.node[i].k /\ u.node[i].k # Nil
      BY <1>1, <1>2, <1>3, <2>3
    <3>3. QED
      BY <2>3, <3>1, <3>2, KeysDiffer
  <2>4. u.node[i].v # Nil => \A y \in Vals \ {Nil} : ~Has(w, k, y)
    BY <2>3 DEF Has
  <2>5. QED
    BY <2>2, <2>4
<1>9. QED
  BY <1>2, <1>6, <1>7, <1>8

-----------------------------------------------------------------------------
(* The theorem.                                                            *)

\* The table is one, it holds what was stored, and a traversal has seen what is behind it.
TablesInv ==
  /\ TableInv(t) /\ map \in [Keys -> Vals]
  /\ \A k \in Keys : luaH_get(t, k) = map[k]
  /\ TravInv(t, cur, seen)

\* lua_createtable makes an empty table.
LEMMA TablesInit == TableInit => TablesInv
<1> SUFFICES ASSUME TableInit PROVE TablesInv
  OBVIOUS
<1>1. PICK na, nh \in 0..MaxHint : t = luaH_resize(Empty, na, nh)
  BY DEF TableInit, Empty
<1>2. MaxHint \in Nat /\ na \in Nat /\ nh \in Nat /\ nh <= MaxHint
  BY <1>1, TableAssumption
<1>3. Fits(nh)
  BY <1>2 DEF Fits
<1>4. PICK u : u = Empty
  OBVIOUS
<1>5. TableInv(u) /\ \A k \in Wanted : luaH_get(u, k) = Nil
  BY <1>4, EmptyIs
<1>6. Suffices(u, na, nh, {})
  <2>1. IsFiniteSet({}) /\ Cardinality({}) = 0
    BY FS_EmptySet
  <2>2. QED
    BY <1>2, <1>5, <2>1, KeyFacts DEF Suffices
<1>7. PICK w : w = luaH_resize(u, na, nh)
  OBVIOUS
<1>8. TableInv(w) /\ \A k \in Wanted : luaH_get(w, k) = luaH_get(u, k)
  BY ONLY <1>2, <1>3, <1>5, <1>6, <1>7, ResizeRight
<1>9. t = w /\ map = [k \in Keys |-> Nil] /\ cur = Nil /\ seen = {}
  BY <1>1, <1>4, <1>7 DEF TableInit
<1>10. TravInv(t, cur, seen)
  BY <1>9 DEF TravInv
<1>11. \A k \in Keys : luaH_get(t, k) = map[k]
  BY <1>5, <1>8, <1>9, KeyFacts
<1>12. QED
  BY <1>8, <1>9, <1>10, <1>11 DEF TablesInv, Vals

\* Every operation keeps the invariant.
LEMMA TablesNext == TablesInv /\ [TableNext]_tvars => TablesInv'
<1> SUFFICES ASSUME TablesInv, [TableNext]_tvars PROVE TablesInv'
  OBVIOUS
<1>1. /\ TableInv(t) /\ map \in [Keys -> Vals] /\ TravInv(t, cur, seen)
      /\ \A k \in Keys : luaH_get(t, k) = map[k]
  BY DEF TablesInv
<1>2. ASSUME NEW k \in Keys, NEW v \in Vals, rawset(k, v) PROVE TablesInv'
  <2>1. t' = luaH_set(t, k, v) /\ map' = [map EXCEPT ![k] = v]
    BY <1>2 DEF rawset
  <2>2. TableInv(t') /\ \A x \in Wanted : luaH_get(t', x) = IF x = k THEN v ELSE luaH_get(t, x)
    BY <1>1, <2>1, SetRight
  <2>3. map' \in [Keys -> Vals] /\ \A x \in Keys : luaH_get(t', x) = map'[x]
    BY <1>1, <2>1, <2>2, KeyFacts
  <2>4. TravInv(t', cur', seen')
    <3>1. CASE map[k] = Nil
      <4>1. cur' = Nil /\ seen' = {}
        BY <1>2, <3>1 DEF rawset
      <4>2. QED
        BY <4>1 DEF TravInv
    <3>2. CASE map[k] # Nil
      <4>1. cur' = cur /\ seen' = seen
        BY <1>2, <3>2 DEF rawset
      <4>2. luaH_get(t, k) # Nil
        BY <1>1, <3>2
      <4>3. Alike(t, t')
        BY <1>1, <2>1, <4>2, SetAlike
      <4>4. TravInv(t', cur, seen)
        BY <1>1, <4>3, TravKept
      <4>5. QED
        BY <4>1, <4>4
    <3>3. QED
      BY <3>1, <3>2
  <2>5. QED
    BY <2>2, <2>3, <2>4 DEF TablesInv
<1>3. ASSUME next PROVE TablesInv'
  <2>1. /\ cur' = luaH_next(t, cur) /\ t' = t /\ map' = map
        /\ seen' = IF cur' = Nil THEN {} ELSE seen \cup {cur'}
    BY <1>3 DEF next
  <2>2. PICK x : x = luaH_next(t, cur)
    OBVIOUS
  <2>3. TravInv(t, x, IF x = Nil THEN {} ELSE seen \cup {x})
    BY <1>1, <2>2, NextRight
  <2>4. TravInv(t', cur', seen')
    BY <2>1, <2>2, <2>3
  <2>5. QED
    BY <1>1, <2>1, <2>4 DEF TablesInv
<1>4. ASSUME removeentry PROVE TablesInv'
  <2>1. PICK i \in DOMAIN t.node : /\ t.node[i].k \in Objects /\ t.node[i].v = Nil
                                   /\ t' = [t EXCEPT !.node[i].dead = TRUE]
    BY <1>4 DEF removeentry
  <2>2. map' = map /\ cur' = cur /\ seen' = seen
    BY <1>4 DEF removeentry
  <2>3. t \in Tables /\ Nil \in Vals
    BY <1>1 DEF TableInv, Vals
  <2>4. SameKeys(t, t', i, Nil, TRUE)
    BY <2>1, <2>3, SetNodeIs
  <2>5. Alike(t, t') /\ \A x \in Wanted : luaH_get(t', x) = luaH_get(t, x)
    BY <1>1, <2>1, <2>4, DeadRight
  <2>6. TravInv(t', cur, seen)
    BY <1>1, <2>5, TravKept
  <2>7. QED
    BY <1>1, <2>2, <2>5, <2>6, KeyFacts DEF TablesInv, Alike
<1>5. ASSUME clearkeys PROVE TablesInv'
  <2>1. PICK i \in DOMAIN t.node : /\ t.node[i].k \in Objects \ {cur} /\ t.node[i].v # Nil
                                   /\ t' = [t EXCEPT !.node[i].v = Nil, !.node[i].dead = TRUE]
                                   /\ map' = [map EXCEPT ![t.node[i].k] = Nil]
    BY <1>5 DEF clearkeys
  <2>2. cur' = cur /\ seen' = seen
    BY <1>5 DEF clearkeys
  <2>3. t \in Tables /\ Nil \in Vals
    BY <1>1 DEF TableInv, Vals
  <2>4. SameKeys(t, t', i, Nil, TRUE)
    BY <2>1, <2>3, SetNodeIs
  <2>5. Alike(t, t') /\ \A x \in Wanted : luaH_get(t', x) = IF x = t.node[i].k THEN Nil ELSE luaH_get(t, x)
    <3>1. i \in DOMAIN t.node /\ t.node[i].k \in Objects /\ t.node[i].v # Nil
      BY <2>1
    <3>2. /\ Alike(t, t')
          /\ \A x \in Wanted : luaH_get(t', x) = IF x = t.node[i].k /\ t.node[i].v # Nil THEN Nil ELSE luaH_get(t, x)
      BY ONLY <1>1, <2>4, <3>1, DeadRight
    <3>3. QED
      BY <3>1, <3>2
  <2>6. TravInv(t', cur, seen)
    BY <1>1, <2>5, TravKept
  <2>7. t.node[i].k \in Keys
    BY <2>1, KeyFacts
  <2>8. map' \in [Keys -> Vals] /\ \A x \in Keys : luaH_get(t', x) = map'[x]
    BY <1>1, <2>1, <2>3, <2>5, <2>7, KeyFacts
  <2>9. QED
    BY <2>2, <2>5, <2>6, <2>8 DEF TablesInv, Alike
<1>6. CASE UNCHANGED tvars
  <2>1. t' = t /\ map' = map /\ cur' = cur /\ seen' = seen
    BY <1>6 DEF tvars
  <2>2. QED
    BY <1>1, <2>1 DEF TablesInv
<1>7. \A k \in Keys : k \in Vals /\ Nil \in Vals
  BY DEF Vals
<1>8. QED
  BY <1>2, <1>3, <1>4, <1>5, <1>6, <1>7 DEF TableNext

\* The property follows from the invariant.
LEMMA TablesShow == TablesInv => TableRight
<1> SUFFICES ASSUME TablesInv PROVE TableRight
  OBVIOUS
<1>1. /\ TableInv(t) /\ TravInv(t, cur, seen) /\ \A k \in Keys : luaH_get(t, k) = map[k]
  BY DEF TablesInv
<1>2. PICK n : n = luaH_getn(t)
  OBVIOUS
<1>3. Border(t, n)
  BY <1>1, <1>2, LengthRight
<1>4. TableIsMap
  BY <1>1, <1>2, <1>3 DEF TableIsMap, Border
<1>5. PICK x : x = luaH_next(t, cur)
  OBVIOUS
<1>6. x \notin seen /\ (cur # Nil /\ x = Nil => \A k \in Wanted : luaH_get(t, k) # Nil => k \in seen)
  BY <1>1, <1>5, NextRight
<1>7. cur # Nil => findindex(t, cur) # 0
  BY <1>1 DEF TravInv
<1>8. TraversalComplete
  BY <1>1, <1>5, <1>6, <1>7, KeyFacts DEF TraversalComplete
<1>9. QED
  BY <1>4, <1>8 DEF TableRight

\* Whatever is stored, collected and traversed, a table is the map of what was stored,
\* its length is a border, and a traversal neither fails nor misses or repeats a key.
THEOREM TablesAreMaps == TableSpec => []TableRight
<1>1. TableInit => TablesInv
  BY TablesInit
<1>2. TablesInv /\ [TableNext]_tvars => TablesInv'
  BY TablesNext
<1>3. TablesInv => TableRight
  BY TablesShow
<1>4. QED
  BY <1>1, <1>2, <1>3, PTL DEF TableSpec

-----------------------------------------------------------------------------
(* Files: the io library (LuaFiles).                                       *)

Close == {"NULL", "io_fclose", "io_pclose", "io_noclose"}
\* What refers to handles.
RefTypes ==
  /\ registry \in [{"input", "output"} -> Handles]
  /\ iters \subseteq Handles \X BOOLEAN
  /\ reading \in Seq(Handles \X BOOLEAN)
  /\ mine \subseteq Userdata
FileTypes ==
  /\ fh \in [Handles -> [exists : BOOLEAN, f : Streams \cup StdFiles \cup {"NULL"}, closef : Close]]
  /\ open \subseteq Streams \cup StdFiles
  /\ RefTypes
  /\ closing \in [begun : BOOLEAN, due : SUBSET Handles]

\* The handle h has a stream to close.
Holds(h) == ~isclosed(h) /\ fh[h].f # "NULL"

\* The streams that are open and the handles that hold one are in bijection; what can be
\* referred to is in memory and not half made; what is free is closed; and the standard
\* files are as they were in the beginning.
FilesInv ==
  /\ FileTypes
  /\ \A h \in Reachable : InUse(h) /\ (~isclosed(h) => Holds(h))
  /\ \A h \in Handles : ~InUse(h) => isclosed(h)
  /\ \A h \in Handles : Holds(h) => fh[h].f \in open
  /\ \A f \in open : \E h \in Handles : Holds(h) /\ fh[h].f = f
  /\ \A h1, h2 \in Handles : Holds(h1) /\ Holds(h2) /\ fh[h1].f = fh[h2].f => h1 = h2
  /\ \A h \in StdFiles : fh[h] = [exists |-> TRUE, f |-> h, closef |-> "io_noclose"]
  /\ \A h \in Userdata : fh[h].closef # "io_noclose"

\* What changes when only handles and streams do.
SameRefs == UNCHANGED <<registry, iters, reading, mine>>
ClosingTyped == closing' \in [begun : BOOLEAN, due : SUBSET Handles]

\* What is being called refers to handles (io_readline).
LEMMA Readers ==
  ASSUME NEW H, NEW r \in Seq(H \X BOOLEAN)
  PROVE  {r[k][1] : k \in DOMAIN r} \subseteq H
<1>1. ASSUME NEW k \in DOMAIN r PROVE r[k][1] \in H
  <2>1. r[k] \in H \X BOOLEAN
    OBVIOUS
  <2>2. QED
    BY <2>1
<1>2. QED
  BY <1>1, Zenon
LEMMA RefHandles == RefTypes => Reachable \subseteq Handles
<1> SUFFICES ASSUME RefTypes PROVE Reachable \subseteq Handles
  OBVIOUS
<1>1. {reading[k][1] : k \in DOMAIN reading} \subseteq Handles
  BY Readers DEF RefTypes
<1>2. {i[1] : i \in iters} \subseteq Handles /\ {registry[k] : k \in DOMAIN registry} \subseteq Handles
  BY DEF RefTypes
<1>3. mine \cup StdFiles \subseteq Handles
  BY DEF RefTypes, Handles
<1>4. QED
  BY <1>1, <1>2, <1>3 DEF Reachable
LEMMA SameReachable == SameRefs => Reachable' = Reachable /\ (RefTypes => RefTypes')
BY DEF SameRefs, Reachable, RefTypes, Handles, StdFiles

\* One handle of the program's changes: it takes a new stream, or it has none any more and
\* the one it had is closed.
Takes(h)  == ~Holds(h) /\ Holds(h)' /\ fh'[h].f \notin open /\ open' = open \cup {fh'[h].f}
Leaves(h) == ~Holds(h)' /\ open' = IF Holds(h) THEN open \ {fh[h].f} ELSE open
\* One handle takes a stream or leaves the one it had, and the rest stays as it was: the
\* invariant is kept (liolib.c, newprefile, aux_close).
LEMMA OneChanges ==
  ASSUME FilesInv, FileTypes', NEW h \in Userdata, Takes(h) \/ Leaves(h),
         \A x \in Handles : x # h => fh'[x] = fh[x],
         \A x \in Reachable' : x = h \/ x \in Reachable,
         h \in Reachable' => InUse(h)' /\ (~isclosed(h)' => Holds(h)'),
         ~InUse(h)' => isclosed(h)', fh'[h].closef # "io_noclose"
  PROVE  FilesInv'
<1>1. h \in Handles /\ h \notin StdFiles /\ StdFiles \subseteq Handles /\ Userdata \subseteq Handles
  BY FilesAssumption DEF Handles, StdFiles
<1>2. \A x \in Handles : x # h => /\ InUse(x)' <=> InUse(x)
                                  /\ isclosed(x)' <=> isclosed(x)
                                  /\ Holds(x)' <=> Holds(x)
  BY DEF InUse, isclosed, Holds
<1>3. Reachable' \subseteq Handles
  <2>1. Reachable \subseteq Handles
    BY RefHandles DEF FilesInv, FileTypes
  <2>2. QED
    BY <1>1, <2>1
<1>4. \A x \in Reachable' : InUse(x)' /\ (~isclosed(x)' => Holds(x)')
  BY <1>2, <1>3 DEF FilesInv
<1>5. \A x \in Handles : ~InUse(x)' => isclosed(x)'
  BY <1>2 DEF FilesInv
<1>6. \A x \in Handles : Holds(x)' => fh'[x].f \in open'
  BY <1>1, <1>2 DEF FilesInv, Takes, Leaves
<1>7. \A f \in open' : \E x \in Handles : Holds(x)' /\ fh'[x].f = f
  BY <1>1, <1>2 DEF FilesInv, Takes, Leaves
<1>8. \A x, y \in Handles : Holds(x)' /\ Holds(y)' /\ fh'[x].f = fh'[y].f => x = y
  BY <1>1, <1>2 DEF FilesInv, Takes, Leaves
<1>9. \A x \in StdFiles : fh'[x] = fh[x]
  BY <1>1
<1>10. \A x \in Userdata : fh'[x].closef # "io_noclose"
  BY <1>1 DEF FilesInv
<1>11. QED
  BY <1>4, <1>5, <1>6, <1>7, <1>8, <1>9, <1>10 DEF FilesInv

\* Nothing changes for the handles, and what becomes reachable may.
LEMMA RefsKeep ==
  ASSUME FilesInv, UNCHANGED <<fh, open>>, ClosingTyped, RefTypes', \A h \in Reachable' : h \in Reachable \/ (InUse(h) /\ Holds(h))
  PROVE  FilesInv'
<1>1. FileTypes'
  BY DEF FilesInv, FileTypes, ClosingTyped, Handles, StdFiles
<1>2. \A h : (InUse(h)' <=> InUse(h)) /\ (isclosed(h)' <=> isclosed(h)) /\ (Holds(h)' <=> Holds(h))
  BY DEF InUse, isclosed, Holds
<1>3. QED
  BY <1>1, <1>2 DEF FilesInv

\* A close function that is assigned again is the same.
LEMMA SameClosef ==
  ASSUME NEW e, NEW f, NEW c
  PROVE  [[exists |-> e, f |-> f, closef |-> c] EXCEPT !.closef = c] = [exists |-> e, f |-> f, closef |-> c]
OBVIOUS

\* What newfile makes of a handle: its stream is another, the rest is as newprefile left it.
LEMMA NewF ==
  ASSUME NEW old, NEW c, NEW f
  PROVE  [[exists |-> TRUE, f |-> old, closef |-> c] EXCEPT !.f = f] = [exists |-> TRUE, f |-> f, closef |-> c]
<1>1. ASSUME NEW e PROVE [[exists |-> e, f |-> old, closef |-> c] EXCEPT !.f = f] = [exists |-> e, f |-> f, closef |-> c]
  OBVIOUS
<1>2. QED
  BY <1>1, Zenon

\* Closing a handle gives its stream back, unless it is a standard file.
LEMMA CloseKeeps ==
  ASSUME FilesInv, NEW h \in Handles, Holds(h), aux_close(h), RefTypes', Reachable' \subseteq Reachable,
         ClosingTyped
  PROVE  FilesInv'
<1> USE FilesAssumption
<1>2. CASE h \in StdFiles
  <2> DEFINE std == [exists |-> TRUE, f |-> h, closef |-> "io_noclose"]
  <2>1. fh[h] = std
    BY <1>2 DEF FilesInv
  <2>2. fh' = [fh EXCEPT ![h].closef = "io_noclose"] /\ open' = open
    BY <2>1 DEF aux_close, io_noclose, marked, FilesInv, FileTypes
  <2>3. [std EXCEPT !.closef = "io_noclose"] = std
    BY SameClosef, Zenon
  <2> HIDE DEF std
  <2>4. fh' = fh
    BY <2>1, <2>2, <2>3 DEF FilesInv, FileTypes
  <2>5. QED
    BY <2>2, <2>4, RefsKeep
<1>3. CASE h \in Userdata
  <2>1. fh' = [fh EXCEPT ![h].closef = "NULL"] /\ open' = open \ {fh[h].f}
    <3>1. fh[h].closef \in {"io_fclose", "io_pclose"}
      BY <1>3 DEF FilesInv, FileTypes, Close, Holds, isclosed
    <3>2. CASE fh[h].closef = "io_fclose"
      BY <3>2 DEF aux_close, io_fclose, marked
    <3>3. CASE fh[h].closef = "io_pclose"
      BY <3>3 DEF aux_close, io_pclose, marked
    <3>4. QED
      BY <3>1, <3>2, <3>3
  <2>2. FileTypes'
    BY <2>1 DEF FilesInv, FileTypes, Close, ClosingTyped
  <2>3. /\ \A x \in Handles : x # h => fh'[x] = fh[x]
        /\ fh'[h].closef = "NULL" /\ fh'[h].exists = fh[h].exists
    BY <2>1 DEF FilesInv, FileTypes
  <2>4. Leaves(h) /\ isclosed(h)'
    BY <2>1, <2>3 DEF Leaves, Holds, isclosed
  <2>5. h \in Reachable => InUse(h)'
    BY <2>3 DEF FilesInv, InUse
  <2>6. QED
    BY <1>3, <2>2, <2>3, <2>4, <2>5, OneChanges
<1>4. QED
  BY <1>2, <1>3 DEF Handles

\* A handle for a new stream may be referred to.
LEMMA OpenKeeps ==
  ASSUME FilesInv, NEW h \in Fresh, NEW f \in Streams \ open, NEW closef \in {"io_fclose", "io_pclose"},
         fh' = newfile(h, f, closef), open' = open \cup {f}, UNCHANGED closing,
         RefTypes', Reachable' \subseteq Reachable \cup {h}
  PROVE  FilesInv'
<1>1. fh' = [fh EXCEPT ![h] = [exists |-> TRUE, f |-> f, closef |-> closef]]
  <2> DEFINE pre == [exists |-> TRUE, f |-> "NULL", closef |-> closef]
  <2>1. h \in Handles /\ DOMAIN fh = Handles /\ fh = [x \in Handles |-> fh[x]]
    BY DEF FilesInv, FileTypes, Handles, Fresh
  <2>2. [pre EXCEPT !.f = f] = [exists |-> TRUE, f |-> f, closef |-> closef]
    BY ONLY NewF
  <2> HIDE DEF pre
  <2>3. fh' = [[fh EXCEPT ![h] = pre] EXCEPT ![h] = [[fh EXCEPT ![h] = pre][h] EXCEPT !.f = f]]
    BY DEF newfile, newprefile, pre
  <2>4. [fh EXCEPT ![h] = pre][h] = pre
    BY <2>1
  <2>5. QED
    BY <2>1, <2>2, <2>3, <2>4
<1>2. FileTypes'
  BY <1>1 DEF FilesInv, FileTypes, Close, Handles, Fresh
<1>3. h \in Userdata /\ h \in Handles /\ f # "NULL" /\ isclosed(h)
  <2>1. h \in Userdata /\ h \in Handles /\ isclosed(h)
    BY DEF Fresh, Handles, FilesInv
  <2>2. QED
    BY <2>1, FilesAssumption
<1>4. /\ \A x \in Handles : x # h => fh'[x] = fh[x]
      /\ fh'[h].exists = TRUE /\ fh'[h].f = f /\ fh'[h].closef = closef
  BY <1>1, <1>3 DEF FilesInv, FileTypes
<1>5. Takes(h) /\ InUse(h)'
  BY <1>3, <1>4 DEF Takes, Holds, isclosed, InUse
<1>6. QED
  BY <1>2, <1>3, <1>4, <1>5, OneChanges DEF Takes

\* A new iterator refers to its handle.
LEMMA IterHandles ==
  ASSUME NEW S, NEW h, NEW b
  PROVE  {i[1] : i \in S \cup {<<h, b>>}} = {i[1] : i \in S} \cup {h}
<1>1. <<h, b>>[1] = h
  OBVIOUS
<1>2. QED
  BY <1>1, Zenon
\* One more iterator is one of its handle.
LEMMA IterTyped ==
  ASSUME NEW H, NEW S \in SUBSET (H \X BOOLEAN), NEW h \in H, NEW b \in BOOLEAN
  PROVE  S \cup {<<h, b>>} \subseteq H \X BOOLEAN
OBVIOUS

\* A handle that was not given a stream is nobody's.
LEMMA NoStreamKeeps ==
  ASSUME FilesInv, NEW h \in Fresh, NEW closef \in {"NULL", "io_fclose", "io_pclose"},
         fh' = newprefile(h, closef), UNCHANGED <<open, closing>>, SameRefs
  PROVE  FilesInv'
<1>1. FileTypes'
  BY SameReachable DEF FilesInv, FileTypes, Close, Handles, Fresh, newprefile
<1>2. h \in Userdata /\ h \in Handles /\ isclosed(h) /\ h \notin Reachable
  BY DEF Fresh, Handles, FilesInv
<1>3. /\ \A x \in Handles : x # h => fh'[x] = fh[x]
      /\ fh'[h].exists = TRUE /\ fh'[h].f = "NULL" /\ fh'[h].closef = closef
  BY <1>2 DEF FilesInv, FileTypes, newprefile
<1>4. Leaves(h) /\ InUse(h)'
  BY <1>2, <1>3 DEF Leaves, Holds, isclosed, InUse
<1>5. Reachable' = Reachable
  BY SameReachable
<1>6. QED
  BY <1>1, <1>2, <1>3, <1>4, <1>5, OneChanges

\* A handle that is freed gives its stream back.
LEMMA CollectKeeps == FilesInv /\ collect => FilesInv'
<1> SUFFICES ASSUME FilesInv, collect PROVE FilesInv'
  OBVIOUS
<1>1. PICK h \in Userdata \ Reachable :
        /\ open' = IF ~isclosed(h) /\ fh[h].f # "NULL" THEN open \ {fh[h].f} ELSE open
        /\ fh' = [fh EXCEPT ![h] = NOFILE] /\ closing' = [closing EXCEPT !.due = @ \ {h}]
  BY DEF collect
<1>2. FileTypes' /\ SameRefs
  <2>1. SameRefs
    BY DEF collect, SameRefs
  <2>2. QED
    BY <1>1, <2>1, SameReachable DEF FilesInv, FileTypes, Close, Handles, NOFILE
<1>3. /\ \A x \in Handles : x # h => fh'[x] = fh[x]
      /\ fh'[h].exists = FALSE /\ fh'[h].f = "NULL" /\ fh'[h].closef = "NULL"
  BY <1>1 DEF FilesInv, FileTypes, Handles, NOFILE
<1>4. Leaves(h) /\ isclosed(h)'
  BY <1>1, <1>3 DEF Leaves, Holds, isclosed
<1>5. Reachable' = Reachable
  BY <1>2, SameReachable
<1>6. QED
  BY <1>1, <1>2, <1>3, <1>4, <1>5, OneChanges

\* An iterator that is called is one more, and one less when it returns.
LEMMA OneMoreReader ==
  ASSUME NEW T, NEW r \in Seq(T), NEW i \in T
  PROVE  {Append(r, i)[k][1] : k \in DOMAIN Append(r, i)} \subseteq {r[k][1] : k \in DOMAIN r} \cup {i[1]}
<1>1. ASSUME NEW k \in DOMAIN Append(r, i)
      PROVE  (k \in DOMAIN r /\ Append(r, i)[k] = r[k]) \/ Append(r, i)[k] = i
  OBVIOUS
<1> DEFINE A == Append(r, i)
<1> HIDE DEF A
<1>2. \A k \in DOMAIN A : (k \in DOMAIN r /\ A[k] = r[k]) \/ A[k] = i
  BY <1>1 DEF A
<1>3. {A[k][1] : k \in DOMAIN A} \subseteq {r[k][1] : k \in DOMAIN r} \cup {i[1]}
  BY <1>2
<1>4. QED
  BY <1>3 DEF A
LEMMA OneReaderLess ==
  ASSUME NEW T, NEW r \in Seq(T), r # <<>>
  PROVE  /\ Front(r) \in Seq(T) /\ Last(r)[1] \in {r[k][1] : k \in DOMAIN r}
         /\ {Front(r)[k][1] : k \in DOMAIN Front(r)} \subseteq {r[k][1] : k \in DOMAIN r}
<1>1. Len(r) \in DOMAIN r /\ Last(r) = r[Len(r)]
  BY DEF Last
<1>2. /\ Front(r) \in Seq(T) /\ DOMAIN Front(r) \subseteq DOMAIN r
      /\ \A k \in DOMAIN Front(r) : Front(r)[k] = r[k]
  BY DEF Front
<1> DEFINE F == Front(r)
<1> HIDE DEF F
<1>3. {F[k][1] : k \in DOMAIN F} \subseteq {r[k][1] : k \in DOMAIN r}
  <2>1. \A k \in DOMAIN F : k \in DOMAIN r /\ F[k] = r[k]
    BY <1>2 DEF F
  <2>2. QED
    BY <2>1
<1>4. QED
  BY <1>1, <1>2, <1>3 DEF F

\* Every operation of the io library, every iterator and every collection keeps the
\* invariant (liolib.c).
LEMMA FilesStep == FilesInv /\ [FilesNext]_fvars => FilesInv'
<1> SUFFICES ASSUME FilesInv, [FilesNext]_fvars PROVE FilesInv'
  OBVIOUS
<1>1. /\ Reachable \subseteq Handles /\ Files \subseteq Reachable /\ StdFiles \subseteq Reachable
      /\ \A k \in {"input", "output"} : registry[k] \in Reachable
      /\ \A i \in iters : i[1] \in Reachable
      /\ closing \in [begun : BOOLEAN, due : SUBSET Handles]
      /\ RefTypes
  BY RefHandles DEF Reachable, Files, FilesInv, FileTypes, RefTypes
<1>2. \A h \in Reachable : ~isclosed(h) => Holds(h) /\ InUse(h)
  BY DEF FilesInv
<1>3. ASSUME NEW h \in Handles, f_gc(h), SameRefs, ClosingTyped PROVE FilesInv'
  <2>1. CASE Holds(h)
    BY <1>1, <1>3, <2>1, SameReachable, CloseKeeps DEF f_gc, Holds
  <2>2. CASE UNCHANGED <<fh, open>>
    BY <1>1, <1>3, <2>2, SameReachable, RefsKeep
  <2>3. QED
    BY <1>3, <2>1, <2>2 DEF f_gc, Holds
<1>4. CASE f_close
  <2>1. PICK h \in Files : aux_close(h)
    BY <1>4 DEF f_close
  <2>2. SameRefs /\ ClosingTyped
    BY <1>1, <1>4 DEF f_close, SameRefs, ClosingTyped
  <2>3. h \in Reachable /\ ~isclosed(h)
    BY <1>1, <2>1 DEF Files, tofile
  <2>4. QED
    BY <1>1, <1>2, <2>1, <2>2, <2>3, SameReachable, CloseKeeps
<1>5. CASE io_close
  <2>1. PICK h \in getiofile("output") : aux_close(h)
    BY <1>5 DEF io_close
  <2>2. SameRefs /\ ClosingTyped
    BY <1>1, <1>5 DEF io_close, SameRefs, ClosingTyped
  <2>3. h \in Reachable /\ ~isclosed(h)
    BY <1>1, <2>1 DEF getiofile, tofile
  <2>4. QED
    BY <1>1, <1>2, <2>1, <2>2, <2>3, SameReachable, CloseKeeps
<1>6. CASE call_gc
  <2>1. PICK h \in mine \cup StdFiles : f_gc(h)
    BY <1>6 DEF call_gc
  <2>2. SameRefs /\ ClosingTyped /\ h \in Handles
    BY <1>1, <1>6 DEF call_gc, SameRefs, ClosingTyped, RefTypes, Handles
  <2>3. QED
    BY <1>3, <2>1, <2>2
<1>7. CASE io_readline
  <2>1. PICK i \in iters : reading' = Append(reading, i)
    BY <1>7 DEF io_readline
  <2>2. UNCHANGED <<fh, open, registry, iters, mine, closing>> /\ i \in Handles \X BOOLEAN
    BY <1>1, <1>7 DEF io_readline, RefTypes
  <2>3. RefTypes'
    BY <1>1, <2>1, <2>2 DEF RefTypes, Handles
  <2>4. {reading'[k][1] : k \in DOMAIN reading'} \subseteq {reading[k][1] : k \in DOMAIN reading} \cup {i[1]}
    BY <1>1, <2>1, <2>2, OneMoreReader DEF RefTypes
  <2>5. Reachable' \subseteq Reachable
    <3>1. i[1] \in Reachable
      BY <1>1, <2>1
    <3>2. QED
      BY <2>2, <2>4, <3>1 DEF Reachable
  <2>6. QED
    BY <1>1, <2>2, <2>3, <2>5, RefsKeep DEF ClosingTyped
<1>20. CASE readline_returns
  <2> DEFINE i == Last(reading)
  <2>1. UNCHANGED <<registry, iters, mine, closing>> /\ reading' = Front(reading) /\ reading # <<>>
    BY <1>20 DEF readline_returns
  <2>2. /\ Front(reading) \in Seq(Handles \X BOOLEAN) /\ i[1] \in {reading[k][1] : k \in DOMAIN reading}
        /\ {Front(reading)[k][1] : k \in DOMAIN Front(reading)} \subseteq {reading[k][1] : k \in DOMAIN reading}
    BY <1>1, <2>1, OneReaderLess DEF RefTypes
  <2>3. RefTypes' /\ Reachable' \subseteq Reachable /\ i[1] \in Reachable /\ ClosingTyped
    BY <1>1, <2>1, <2>2 DEF RefTypes, Handles, Reachable, ClosingTyped
  <2>4. CASE UNCHANGED <<fh, open>>
    BY <2>3, <2>4, RefsKeep
  <2>5. CASE ~isclosed(i[1]) /\ aux_close(i[1])
    BY <1>1, <1>2, <2>3, <2>5, CloseKeeps
  <2>6. QED
    BY <1>20, <2>4, <2>5 DEF readline_returns
<1>8. CASE callallpendingfinalizers
  <2>1. PICK h \in closing.due : f_gc(h) /\ closing' = [closing EXCEPT !.due = @ \ {h}]
    BY <1>8 DEF callallpendingfinalizers
  <2>2. h \in Handles /\ ClosingTyped /\ SameRefs
    BY <1>1, <1>8, <2>1 DEF ClosingTyped, SameRefs, callallpendingfinalizers
  <2>3. QED
    BY <1>3, <2>1, <2>2
<1>9. ASSUME NEW closef \in {"io_fclose", "io_pclose"}, newstream(closef) PROVE FilesInv'
  <2>1. PICK h \in Fresh, f \in Streams \ open :
          fh' = newfile(h, f, closef) /\ open' = open \cup {f} /\ mine' = mine \cup {h}
    BY <1>9 DEF newstream
  <2>2. UNCHANGED <<registry, iters, reading, closing>>
    BY <1>9 DEF newstream
  <2>3. Reachable' \subseteq Reachable \cup {h}
    BY <2>1, <2>2 DEF Reachable
  <2>4. RefTypes'
    BY <1>1, <2>1, <2>2 DEF RefTypes, Fresh, Handles
  <2>5. QED
    BY <2>1, <2>2, <2>3, <2>4, OpenKeeps
<1>10. ASSUME NEW S \in SUBSET {"NULL", "io_fclose", "io_pclose"}, nostream(S) PROVE FilesInv'
  <2>1. SameRefs
    BY <1>10 DEF nostream, SameRefs
  <2>2. QED
    BY <1>10, <2>1, NoStreamKeeps DEF nostream
<1>11. CASE io_open \/ io_popen \/ io_tmpfile
  BY <1>9, <1>10, <1>11 DEF io_open, io_popen, io_tmpfile
<1>12. ASSUME NEW key \in {"input", "output"}, g_iofile(key) PROVE FilesInv'
  <2>1. UNCHANGED <<iters, reading, mine, closing>>
    BY <1>12 DEF g_iofile
  <2>2. ASSUME NEW h \in Fresh, NEW f \in Streams \ open, opencheck(h, f),
               registry' = [registry EXCEPT ![key] = h]
        PROVE  FilesInv'
    <3>1. fh' = newfile(h, f, "io_fclose") /\ open' = open \cup {f}
      BY <2>2 DEF opencheck
    <3>2. RefTypes'
      BY <1>1, <2>1, <2>2 DEF RefTypes, Fresh, Handles
    <3>3. Reachable' \subseteq Reachable \cup {h}
      BY <1>1, <2>1, <2>2 DEF Reachable, RefTypes
    <3>4. QED
      BY <2>1, <3>1, <3>2, <3>3, OpenKeeps
  <2>3. ASSUME NEW h \in Files, registry' = [registry EXCEPT ![key] = h], UNCHANGED <<fh, open>>
        PROVE  FilesInv'
    <3>1. RefTypes'
      BY <1>1, <2>1, <2>3 DEF RefTypes, Handles
    <3>2. Reachable' \subseteq Reachable \cup {h} /\ h \in Reachable
      BY <1>1, <2>1, <2>3 DEF Reachable, RefTypes
    <3>3. QED
      BY <1>1, <1>2, <2>1, <2>3, <3>1, <3>2, RefsKeep DEF ClosingTyped
  <2>4. QED
    BY <1>12, <2>2, <2>3 DEF g_iofile
<1>13. CASE io_default
  <2>1. Reachable' \subseteq Reachable /\ mine' \subseteq Userdata
    BY <1>1, <1>13 DEF io_default, Reachable, RefTypes, Handles
  <2>2. RefTypes' /\ ClosingTyped
    BY <1>1, <1>13, <2>1 DEF io_default, RefTypes, ClosingTyped, Handles
  <2>3. QED
    BY <1>13, <2>1, <2>2, RefsKeep DEF io_default
<1>14. CASE f_lines
  <2>1. PICK h \in Files : iters' = iters \cup {<<h, FALSE>>}
    BY <1>14 DEF f_lines, aux_lines
  <2>2. Reachable' \subseteq Reachable \cup {h} /\ h \in Reachable
    <3>1. {i[1] : i \in iters'} = {i[1] : i \in iters} \cup {h}
      BY <2>1, IterHandles
    <3>2. QED
      BY <1>1, <1>14, <2>1, <3>1 DEF f_lines, Reachable
  <2>3. iters' \subseteq Handles \X BOOLEAN
    <3>1. iters \in SUBSET (Handles \X BOOLEAN) /\ h \in Handles
      BY <1>1, <2>2 DEF RefTypes
    <3>2. QED
      BY <2>1, <3>1, IterTyped
  <2>4. \A x \in Reachable' : x \in Reachable
    BY <2>2
  <2>5. RefTypes' /\ ClosingTyped
    BY <1>1, <1>14, <2>3 DEF f_lines, RefTypes, ClosingTyped, Handles
  <2>6. QED
    BY <1>14, <2>4, <2>5, RefsKeep DEF f_lines
<1>15. CASE io_lines
  <2>1. UNCHANGED <<registry, reading, mine, closing>>
    BY <1>15 DEF io_lines
  <2>2. ASSUME NEW h \in getiofile("input"), aux_lines(h, FALSE), UNCHANGED <<fh, open>> PROVE FilesInv'
    <3>1. h \in Reachable /\ iters' = iters \cup {<<h, FALSE>>}
      BY <1>1, <2>2 DEF getiofile, aux_lines
    <3>2. Reachable' \subseteq Reachable \cup {h}
      <4>1. {i[1] : i \in iters'} = {i[1] : i \in iters} \cup {h}
        BY <3>1, IterHandles
      <4>2. QED
        BY <2>1, <4>1 DEF Reachable
    <3>3. iters' \subseteq Handles \X BOOLEAN
      <4>1. iters \in SUBSET (Handles \X BOOLEAN) /\ h \in Handles
        BY <1>1, <3>1 DEF RefTypes
      <4>2. QED
        BY <3>1, <4>1, IterTyped
    <3>4. \A x \in Reachable' : x \in Reachable
      BY <3>1, <3>2
    <3>5. RefTypes' /\ ClosingTyped
      BY <1>1, <2>1, <3>3 DEF RefTypes, ClosingTyped, Handles
    <3>6. QED
      BY <2>2, <3>4, <3>5, RefsKeep
  <2>3. ASSUME NEW h \in Fresh, NEW f \in Streams \ open, opencheck(h, f), aux_lines(h, TRUE) PROVE FilesInv'
    <3>1. fh' = newfile(h, f, "io_fclose") /\ open' = open \cup {f} /\ iters' = iters \cup {<<h, TRUE>>}
      BY <2>3 DEF opencheck, aux_lines
    <3>2. Reachable' \subseteq Reachable \cup {h}
      <4>1. {i[1] : i \in iters'} = {i[1] : i \in iters} \cup {h}
        BY <3>1, IterHandles
      <4>2. QED
        BY <2>1, <4>1 DEF Reachable
    <3>3. RefTypes'
      <4>1. iters \in SUBSET (Handles \X BOOLEAN) /\ h \in Handles
        BY <1>1 DEF RefTypes, Fresh, Handles
      <4>2. iters' \subseteq Handles \X BOOLEAN
        BY <3>1, <4>1, IterTyped
      <4>3. QED
        BY <1>1, <2>1, <4>2 DEF RefTypes, Handles
    <3>4. QED
      BY <2>1, <3>1, <3>2, <3>3, OpenKeeps
  <2>4. QED
    BY <1>15, <2>2, <2>3 DEF io_lines
<1>16. CASE forget
  <2>1. Reachable' \subseteq Reachable /\ mine' \subseteq mine /\ iters' \subseteq iters
    BY <1>16 DEF forget, Reachable
  <2>2. RefTypes' /\ ClosingTyped
    BY <1>1, <1>16, <2>1 DEF forget, RefTypes, ClosingTyped, Handles
  <2>3. QED
    BY <1>16, <2>1, <2>2, RefsKeep DEF forget
<1>17. CASE lua_close
  <2>1. Reachable' \subseteq Reachable
    BY <1>17 DEF lua_close, Reachable
  <2>2. RefTypes' /\ ClosingTyped
    BY <1>1, <1>17 DEF lua_close, RefTypes, ClosingTyped, Handles
  <2>3. QED
    BY <1>17, <2>1, <2>2, RefsKeep DEF lua_close
<1>18. CASE UNCHANGED fvars
  <2>1. SameRefs /\ ClosingTyped
    BY <1>1, <1>18 DEF fvars, SameRefs, ClosingTyped
  <2>2. QED
    BY <1>1, <1>18, <2>1, SameReachable, RefsKeep DEF fvars
<1>19. QED
  BY <1>20, <1>4, <1>5, <1>6, <1>7, <1>8, <1>11, <1>12, <1>13, <1>14, <1>15, <1>16, <1>17, <1>18, CollectKeeps
  DEF FilesNext, io_input, io_output

\* A stream that is open belongs to one handle, which closes it once; what a program can
\* use is open or marked as closed; the standard files stay open (aux_close, f_gc).
THEOREM FilesAreRight == FilesSpec => []FilesRight
<1>1. FilesInit => FilesInv
  <2> SUFFICES ASSUME FilesInit PROVE FilesInv
    OBVIOUS
  <2>1. FileTypes
    BY FilesAssumption DEF FilesInit, FileTypes, RefTypes, Handles, StdFiles, NOFILE, Close
  <2>2. Reachable \subseteq StdFiles
    BY DEF FilesInit, Reachable, StdFiles
  <2>3. QED
    BY <2>1, <2>2, FilesAssumption DEF FilesInit, FilesInv, Handles, StdFiles, NOFILE, isclosed, InUse, Holds
<1>2. FilesInv => FilesRight
  <2> SUFFICES ASSUME FilesInv PROVE FilesRight
    OBVIOUS
  <2>1. ASSUME NEW f \in open PROVE Cardinality({h \in Handles : fh[h].f = f /\ ~isclosed(h)}) = 1
    <3>1. f # "NULL"
      BY <2>1, FilesAssumption DEF FilesInv, FileTypes, StdFiles
    <3>2. PICK h \in Handles : Holds(h) /\ fh[h].f = f
      BY <2>1 DEF FilesInv
    <3>3. {x \in Handles : fh[x].f = f /\ ~isclosed(x)} = {h}
      BY <3>1, <3>2 DEF FilesInv, Holds
    <3>4. QED
      BY <3>3, FS_Singleton
  <2>2. \A h \in Reachable : ~isclosed(h) => fh[h].f \in open
    <3>1. Reachable \subseteq Handles
      BY RefHandles DEF FilesInv, FileTypes
    <3>2. QED
      BY <3>1 DEF FilesInv
  <2>3. StdFiles \subseteq open
    BY DEF FilesInv, Holds, isclosed, StdFiles, Handles
  <2>4. QED
    BY <2>1, <2>2, <2>3 DEF FilesRight
<1>3. QED
  BY <1>1, <1>2, FilesStep, PTL DEF FilesSpec

-----------------------------------------------------------------------------
(* Modules: the loader (LuaRequire).                                       *)

Values == {<<"nil">>, <<"true">>, <<"false">>} \cup {Module(k) : k \in Nat}
Loaders == [name : Modules, module : {Module(k) : k \in Nat}, protected : BOOLEAN]
RequireTypes ==
  /\ loaded \in [Modules -> Values] /\ loaders \in Seq(Loaders)
  /\ clibs \in Seq(Libraries) /\ loads \in Nat
  /\ given \in [Modules -> SUBSET {v \in Values : lua_toboolean(v)}] /\ nested \subseteq Modules

\* The loader at i is one of name n.
Loads(i, n) == i \in DOMAIN loaders /\ loaders[i].name = n
\* What was given is loaded still; a module that is loaded while its loader runs is what
\* this loader has set.
OneValue(n) ==
  /\ given[n] \subseteq {loaded[n]}
  /\ \A i, j \in DOMAIN loaders : Loads(i, n) /\ Loads(j, n) => i = j
  /\ \A i \in DOMAIN loaders : Loads(i, n) /\ lua_toboolean(loaded[n]) => loaded[n] = loaders[i].module

RequireInv ==
  /\ RequireTypes
  /\ IsInjective(clibs)
  /\ \A n \in Modules \ nested : OneValue(n)


\* Which of the values of the loader are true (lua_toboolean).
LEMMA Truth ==
  /\ \A k : lua_toboolean(Module(k)) /\ Module(k) # <<"nil">> /\ Module(k) # <<"true">>
  /\ lua_toboolean(<<"true">>) /\ ~lua_toboolean(<<"nil">>) /\ ~lua_toboolean(<<"false">>)
  /\ <<"true">> # <<"nil">> /\ <<"false">> # <<"nil">>
BY DEF lua_toboolean, Module

\* A nonempty set of numbers up to N has a greatest one.
LEMMA Greatest ==
  ASSUME NEW N \in Nat, NEW T \in SUBSET (1..N), T # {}
  PROVE  \E x \in T : \A y \in T : y <= x
<1> DEFINE S == {N - x : x \in T}
<1>1. S \in SUBSET Nat /\ S # {}
  <2>1. \A x \in T : x \in 1..N /\ N - x \in Nat
    OBVIOUS
  <2>2. QED
    BY <2>1
<1>2. IsWellFoundedOn(OpToRel(<, Nat), Nat)
  BY NatLessThanWellFounded
<1>3. \E n \in S : \A m \in S : <<m, n>> \notin OpToRel(<, Nat)
  <2> HIDE DEF S
  <2>1. QED
    BY <1>1, <1>2, WFMin
<1>4. PICK n \in S : \A m \in S : ~(m < n)
  BY <1>1, <1>3 DEF OpToRel
<1>5. PICK x \in T : n = N - x
  BY <1>4
<1>6. ASSUME NEW y \in T PROVE y <= x
  <2>1. ~(N - y < N - x) /\ x \in 1..N /\ y \in 1..N
    BY <1>4, <1>5
  <2>2. QED
    BY <2>1
<1>7. QED
  BY <1>6

-----------------------------------------------------------------------------
(* C libraries.                                                            *)

\* A sequence with one more element is one of the same set.
LEMMA AppendIn == ASSUME NEW S, NEW libs \in Seq(S), NEW path \in S PROVE Append(libs, path) \in Seq(S)
OBVIOUS
\* A library whose path is not in the list can be added to it (addtoclib).
LEMMA NewLibrary ==
  ASSUME NEW S, NEW libs \in Seq(S), NEW path \in S, path \notin Range(libs), IsInjective(libs)
  PROVE  IsInjective(Append(libs, path))
<1>1. /\ Len(libs) \in Nat /\ DOMAIN libs = 1..Len(libs)
      /\ DOMAIN Append(libs, path) = 1..(Len(libs) + 1) /\ Append(libs, path)[Len(libs) + 1] = path
      /\ \A i \in 1..Len(libs) : Append(libs, path)[i] = libs[i]
  OBVIOUS
<1>2. \A i \in 1..Len(libs) : libs[i] # path
  BY <1>1 DEF Range
<1>3. ASSUME NEW a \in 1..(Len(libs) + 1), NEW b \in 1..(Len(libs) + 1),
             Append(libs, path)[a] = Append(libs, path)[b]
      PROVE  a = b
  <2>1. CASE a \in 1..Len(libs) /\ b \in 1..Len(libs)
    BY <1>1, <1>3, <2>1 DEF IsInjective
  <2>2. CASE a = Len(libs) + 1 \/ b = Len(libs) + 1
    BY <1>1, <1>2, <1>3, <2>2
  <2>3. QED
    BY <1>1, <2>1, <2>2
<1>4. QED
  BY <1>1, <1>3 DEF IsInjective

\* No function of the loader adds a library twice.
FineLibs(libs) == libs \in Seq(Libraries) /\ IsInjective(libs)
\* Looking a library up adds it at most once (lookforfunc).
LEMMA LookFine ==
  ASSUME NEW libs, FineLibs(libs), NEW path \in Libraries, NEW r \in lookforfunc(libs, path)
  PROVE  FineLibs(r.clibs)
<1>1. r.clibs \in {libs, IF checkclib(libs, path) THEN libs ELSE addtoclib(libs, path)}
  BY DEF lookforfunc, Outcome
<1>2. ~checkclib(libs, path) => FineLibs(addtoclib(libs, path))
  <2>1. ASSUME path \notin Range(libs) PROVE IsInjective(Append(libs, path))
    BY <2>1, NewLibrary DEF FineLibs
  <2>2. Append(libs, path) \in Seq(Libraries)
    BY AppendIn DEF FineLibs
  <2>3. QED
    BY <2>1, <2>2 DEF FineLibs, checkclib, addtoclib
<1>3. QED
  BY <1>1, <1>2

\* Loading a module's own library adds it at most once (searcher_C).
LEMMA LoadFine ==
  ASSUME NEW libs, FineLibs(libs), NEW path \in Libraries, NEW name, NEW r \in loadfunc(libs, path, name)
  PROVE  FineLibs(r.clibs)
<1>1. CASE r \in lookforfunc(libs, path)
  BY <1>1, LookFine
<1>2. CASE \E x \in lookforfunc(libs, path) : r \in lookforfunc(x.clibs, path)
  BY <1>2, LookFine
<1>3. QED
  BY <1>1, <1>2 DEF loadfunc

\* Trying the searchers one after the other adds no library twice (findloader).
LEMMA FindFine ==
  ASSUME NEW libs, FineLibs(libs), NEW name \in Modules, NEW r \in findloader(libs, name)
  PROVE  FineLibs(r.clibs)
<1>1. ASSUME NEW l, FineLibs(l), NEW x \in searcher_preload(l, name) \cup searcher_Lua(l, name) PROVE FineLibs(x.clibs)
  BY <1>1 DEF searcher_preload, searcher_Lua, Outcome
<1>2. ASSUME NEW l, FineLibs(l), NEW x \in searcher_C(l, name) PROVE FineLibs(x.clibs)
  <2>1. LibraryOf[name] \in Libraries
    BY DEF Libraries
  <2>2. x.clibs = l \/ \E y \in loadfunc(l, LibraryOf[name], name) : x.clibs = y.clibs
    BY <1>2 DEF searcher_C, Outcome
  <2>3. QED
    BY <1>2, <2>1, <2>2, LoadFine
<1>3. ASSUME NEW l, FineLibs(l), NEW x \in searcher_Croot(l, name) PROVE FineLibs(x.clibs)
  <2>1. RootOf[name] # "none" => RootOf[name] \in Libraries
    BY DEF Libraries
  <2>2. x.clibs = l \/ (RootOf[name] # "none" /\ \E y \in loadfunc(l, RootOf[name], name) : x.clibs = y.clibs)
    BY <1>3 DEF searcher_Croot, Outcome
  <2>3. QED
    BY <1>3, <2>1, <2>2, LoadFine
<1> DEFINE Missed(results) == {x.clibs : x \in {y \in results : y.stat = "message"}}
           first  == searcher_preload(libs, name)
           second == UNION {searcher_Lua(l, name) : l \in Missed(first)}
           third  == UNION {searcher_C(l, name) : l \in Missed(second)}
           fourth == UNION {searcher_Croot(l, name) : l \in Missed(third)}
<1>4. \A x \in first : FineLibs(x.clibs)
  BY <1>1
<1>5. \A x \in second : FineLibs(x.clibs)
  BY <1>1, <1>4
<1>6. \A x \in third : FineLibs(x.clibs)
  <2> HIDE DEF second
  <2>1. QED
    BY <1>2, <1>5
<1>7. \A x \in fourth : FineLibs(x.clibs)
  <2> HIDE DEF third
  <2>1. QED
    BY <1>3, <1>6
<1>8. r \in first \cup second \cup third \cup fourth
  BY DEF findloader
<1> HIDE DEF first, second, third, fourth
<1>9. QED
  BY <1>4, <1>5, <1>6, <1>7, <1>8

-----------------------------------------------------------------------------
(* Loaders.                                                                *)

\* An error leaves a part of the stack.
LEMMA UnwoundPrefix ==
  ASSUME NEW stack \in Seq(Loaders)
  PROVE  /\ Unwound(stack) \in Seq(Loaders) /\ Len(Unwound(stack)) <= Len(stack)
         /\ \A i \in DOMAIN Unwound(stack) : i \in DOMAIN stack /\ Unwound(stack)[i] = stack[i]
<1> DEFINE caught == {i \in DOMAIN stack : stack[i].protected}
           k == CHOOSE i \in caught : \A j \in caught : j <= i
<1>1. CASE caught = {}
  BY <1>1 DEF Unwound
<1>2. CASE caught # {}
  <2>1. Len(stack) \in Nat /\ caught \in SUBSET (1..Len(stack))
    OBVIOUS
  <2>2. \E i \in caught : \A j \in caught : j <= i
    <3> HIDE DEF caught
    <3>1. QED
      BY <1>2, <2>1, Greatest
  <2>3. k \in caught
    <3> HIDE DEF caught
    <3>1. QED
      BY <2>2
  <2>4. k \in 1..Len(stack) /\ Unwound(stack) = SubSeq(stack, 1, k - 1)
    BY <1>2, <2>1, <2>3 DEF Unwound
  <2> HIDE DEF k, caught
  <2>5. QED
    BY <2>4
<1>3. QED
  BY <1>1, <1>2

\* What nothing but a part of the stack is left of, is right.
LEMMA PrefixRight ==
  ASSUME RequireInv, loaders' \in Seq(Loaders), UNCHANGED <<loaded, given, nested>>,
         \A i \in DOMAIN loaders' : i \in DOMAIN loaders /\ loaders'[i] = loaders[i]
  PROVE  \A n \in Modules \ nested' : OneValue(n)'
BY DEF RequireInv, OneValue, Loads

\* Every call of require, every step of a loader and every error keeps the invariant
\* (ll_require).
LEMMA RequireStep == RequireInv /\ [RequireNext]_rvars => RequireInv'
<1> SUFFICES ASSUME RequireInv, [RequireNext]_rvars PROVE RequireInv'
  OBVIOUS
<1>1. loaders \in Seq(Loaders) /\ FineLibs(clibs)
  BY DEF RequireInv, RequireTypes, FineLibs
<1>2. ASSUME NEW n \in Modules \ nested, ~lua_toboolean(loaded[n]) PROVE given[n] = {}
  BY <1>2 DEF RequireInv, RequireTypes, OneValue
<1>3. CASE ll_require
  <2>1. PICK name \in Modules, protected \in BOOLEAN :
          \/ /\ lua_toboolean(loaded[name]) /\ given' = Given(name, loaded[name])
             /\ UNCHANGED <<loaded, preload, loaders, clibs, loads, nested>>
          \/ /\ ~lua_toboolean(loaded[name]) /\ Len(loaders) < MaxDepth /\ loads < MaxLoads
             /\ \E r \in findloader(clibs, name) :
                  /\ clibs' = r.clibs
                  /\ IF r.stat = "loader"
                     THEN /\ loads' = loads + 1
                          /\ loaders' = Append(loaders, [name |-> name, module |-> Module(loads + 1),
                                                         protected |-> protected])
                          /\ nested' = IF \E f \in Range(loaders) : f.name = name THEN nested \cup {name}
                                       ELSE nested
                     ELSE /\ loaders' = IF protected THEN loaders ELSE Unwound(loaders)
                          /\ UNCHANGED <<loads, nested>>
             /\ UNCHANGED <<loaded, preload, given>>
    BY <1>3 DEF ll_require
  <2>2. CASE lua_toboolean(loaded[name]) /\ given' = Given(name, loaded[name])
             /\ UNCHANGED <<loaded, preload, loaders, clibs, loads, nested>>
    <3>1. given' = [given EXCEPT ![name] = @ \cup {loaded[name]}]
      BY <2>2 DEF Given
    <3>2. RequireTypes'
      BY <2>2, <3>1 DEF RequireInv, RequireTypes
    <3>3. ASSUME NEW n \in Modules \ nested PROVE OneValue(n)'
      BY <2>2, <3>1 DEF RequireInv, RequireTypes, OneValue, Loads
    <3>4. QED
      BY <2>2, <3>2, <3>3 DEF RequireInv
  <2>3. ASSUME ~lua_toboolean(loaded[name]), UNCHANGED <<loaded, given>>,
               NEW r \in findloader(clibs, name), clibs' = r.clibs
        PROVE  RequireInv'
    <3>1. FineLibs(clibs')
      BY <1>1, <2>3, FindFine
    <3>2. CASE /\ loads' = loads + 1
               /\ loaders' = Append(loaders, [name |-> name, module |-> Module(loads + 1), protected |-> protected])
               /\ nested' = IF \E f \in Range(loaders) : f.name = name THEN nested \cup {name} ELSE nested
      <4> DEFINE new == [name |-> name, module |-> Module(loads + 1), protected |-> protected]
      <4>1. new \in Loaders /\ new.name = name
        BY DEF Loaders, RequireInv, RequireTypes
      <4>2. loaders' = Append(loaders, new)
        BY <3>2
      <4> HIDE DEF new
      <4>3. RequireTypes'
        BY <2>3, <3>1, <3>2, <4>1, <4>2 DEF RequireInv, RequireTypes, FineLibs
      <4>4. ASSUME NEW n \in Modules \ nested' PROVE OneValue(n)'
        <5>1. n \in Modules \ nested /\ OneValue(n)
          BY <3>2, <4>4 DEF RequireInv
        <5>2. /\ DOMAIN loaders' = 1..(Len(loaders) + 1) /\ DOMAIN loaders = 1..Len(loaders)
              /\ Len(loaders) \in Nat /\ loaders'[Len(loaders) + 1] = new
              /\ \A i \in DOMAIN loaders : loaders'[i] = loaders[i]
          BY <1>1, <4>1, <4>2
        <5>3. CASE n # name
          <6>1. \A i \in DOMAIN loaders' : Loads(i, n)' => i \in DOMAIN loaders /\ Loads(i, n)
            BY <4>1, <5>2, <5>3 DEF Loads
          <6>2. QED
            BY <2>3, <5>1, <5>2, <6>1 DEF OneValue
        <5>4. CASE n = name
          <6>1. \A i \in DOMAIN loaders : ~Loads(i, n)
            BY <3>2, <4>4, <5>4 DEF Loads, Range
          <6>2. \A i \in DOMAIN loaders' : Loads(i, n)' => i = Len(loaders) + 1
            BY <5>2, <6>1 DEF Loads
          <6>3. QED
            BY <2>3, <5>1, <5>4, <6>2 DEF OneValue
        <5>5. QED
          BY <5>3, <5>4
      <4>5. QED
        BY <3>1, <4>3, <4>4 DEF RequireInv, FineLibs
    <3>3. CASE loaders' = (IF protected THEN loaders ELSE Unwound(loaders)) /\ UNCHANGED <<loads, nested>>
      <4>1. /\ loaders' \in Seq(Loaders)
            /\ \A i \in DOMAIN loaders' : i \in DOMAIN loaders /\ loaders'[i] = loaders[i]
        BY <1>1, <3>3, UnwoundPrefix
      <4>2. RequireTypes'
        BY <2>3, <3>1, <3>3, <4>1 DEF RequireInv, RequireTypes, FineLibs
      <4>3. \A n \in Modules \ nested' : OneValue(n)'
        BY <2>3, <3>3, <4>1, PrefixRight
      <4>4. QED
        BY <3>1, <4>2, <4>3 DEF RequireInv, FineLibs
    <3>4. QED
      BY <2>1, <2>3, <3>2, <3>3
  <2>4. QED
    BY <2>1, <2>2, <2>3
<1>4. CASE loader_returns
  <2> DEFINE k == Len(loaders)
             f == loaders[k]
  <2>1. /\ k \in Nat \ {0} /\ DOMAIN loaders = 1..k /\ f \in Loaders /\ k \in DOMAIN loaders
        /\ Last(loaders) = f /\ Front(loaders) \in Seq(Loaders) /\ DOMAIN Front(loaders) = 1..(k - 1)
        /\ \A i \in 1..(k - 1) : Front(loaders)[i] = loaders[i]
    BY <1>1, <1>4 DEF loader_returns, Last, Front
  <2>2. PICK v \in {f.module, <<"nil">>} \cup (IF loaded[f.name] = f.module THEN {} ELSE {<<"false">>}) :
          /\ loaded' = registered(f.name, v)
          /\ given' = Given(f.name, loaded'[f.name])
          /\ loaders' = Front(loaders)
    BY <1>4, <2>1 DEF loader_returns
  <2>3. UNCHANGED <<preload, clibs, loads, nested>>
    BY <1>4 DEF loader_returns
  <2>4. f.name \in Modules /\ f.module \in Values /\ f.module # <<"nil">> /\ lua_toboolean(f.module)
    BY <2>1, Truth DEF Loaders, Values
  <2> HIDE DEF f, k
  <2> DEFINE w == loaded'[f.name]
  <2>5. w \in Values /\ loaded' = [loaded EXCEPT ![f.name] = w]
    BY <2>2, <2>4 DEF registered, RequireInv, RequireTypes, Values
  <2>6. /\ w = f.module \/ w = <<"false">> \/ w = loaded[f.name] \/ (w = <<"true">> /\ loaded[f.name] = <<"nil">>)
        /\ w = <<"false">> => loaded[f.name] = <<"false">> \/ loaded[f.name] # f.module
    BY <2>2, <2>4, Truth DEF registered, RequireInv, RequireTypes
  <2> HIDE DEF w
  <2>7. given' = [given EXCEPT ![f.name] = IF lua_toboolean(w) THEN @ \cup {w} ELSE @]
    BY <2>2 DEF Given, w
  <2>8. RequireTypes'
    BY <2>1, <2>2, <2>3, <2>4, <2>5, <2>7 DEF RequireInv, RequireTypes
  <2>9. ASSUME NEW n \in Modules \ nested' PROVE OneValue(n)'
    <3>1. n \in Modules \ nested /\ OneValue(n)
      BY <2>3, <2>9 DEF RequireInv
    <3>2. \A i \in DOMAIN loaders' : i \in DOMAIN loaders /\ loaders'[i] = loaders[i] /\ i # k
      BY <2>1, <2>2
    <3>3. CASE n # f.name
      <4>1. loaded'[n] = loaded[n] /\ given'[n] = given[n]
        BY <2>4, <2>5, <2>7, <3>1, <3>3 DEF RequireInv, RequireTypes
      <4>2. QED
        BY <3>1, <3>2, <4>1 DEF OneValue, Loads
    <3>4. CASE n = f.name
      <4>1. \A i \in DOMAIN loaders' : ~Loads(i, n)'
        BY <2>1, <3>1, <3>2, <3>4 DEF OneValue, Loads, f
      <4>2. lua_toboolean(loaded[n]) => loaded[n] = f.module
        BY <2>1, <3>1, <3>4 DEF OneValue, Loads, f
      <4>3. given[n] \subseteq {w}
        <5>1. CASE lua_toboolean(loaded[n])
          <6>1. loaded[n] = f.module /\ w # <<"false">> /\ loaded[n] # <<"nil">>
            BY <2>4, <2>6, <3>4, <4>2, <5>1, Truth
          <6>2. w = loaded[n]
            BY <2>6, <3>4, <6>1
          <6>3. QED
            BY <3>1, <6>2 DEF OneValue
        <5>2. CASE ~lua_toboolean(loaded[n])
          BY <1>2, <3>1, <5>2
        <5>3. QED
          BY <5>1, <5>2
      <4>4. loaded'[n] = w /\ given'[n] \subseteq given[n] \cup {w}
        BY <2>4, <2>5, <2>7, <3>4 DEF RequireInv, RequireTypes
      <4>5. QED
        BY <4>1, <4>3, <4>4 DEF OneValue
    <3>5. QED
      BY <3>3, <3>4
  <2>10. QED
    BY <2>3, <2>8, <2>9 DEF RequireInv
<1>5. CASE loader_sets_loaded
  <2> DEFINE k == Len(loaders)
             f == loaders[k]
  <2>1. k \in DOMAIN loaders /\ f \in Loaders /\ Last(loaders) = f
    BY <1>1, <1>5 DEF loader_sets_loaded, Last
  <2>2. loaded' = [loaded EXCEPT ![f.name] = f.module] /\ UNCHANGED <<preload, loaders, clibs, loads, given, nested>>
    BY <1>5, <2>1 DEF loader_sets_loaded
  <2>3. f.name \in Modules /\ f.module \in Values /\ lua_toboolean(f.module)
    BY <2>1, Truth DEF Loaders, Values
  <2>4. RequireTypes'
    BY <2>2, <2>3 DEF RequireInv, RequireTypes
  <2>5. ASSUME NEW n \in Modules \ nested' PROVE OneValue(n)'
    <3>1. n \in Modules \ nested /\ OneValue(n)
      BY <2>2, <2>5 DEF RequireInv
    <3>2. CASE n # f.name
      <4>1. loaded'[n] = loaded[n]
        BY <2>2, <2>3, <3>1, <3>2 DEF RequireInv, RequireTypes
      <4>2. QED
        BY <2>2, <3>1, <4>1 DEF OneValue, Loads
    <3>3. CASE n = f.name
      <4>1. loaded'[n] = f.module
        BY <2>2, <2>3, <3>3 DEF RequireInv, RequireTypes
      <4>2. \A i \in DOMAIN loaders : Loads(i, n) => i = k
        BY <2>1, <3>1, <3>3 DEF OneValue, Loads
      <4>3. given[n] \subseteq {f.module}
        <5>1. CASE lua_toboolean(loaded[n])
          BY <2>1, <3>1, <3>3, <5>1 DEF OneValue, Loads
        <5>2. CASE ~lua_toboolean(loaded[n])
          BY <1>2, <3>1, <5>2
        <5>3. QED
          BY <5>1, <5>2
      <4>4. QED
        BY <2>2, <3>1, <4>1, <4>2, <4>3 DEF OneValue, Loads
    <3>4. QED
      BY <3>2, <3>3
  <2>6. QED
    BY <2>2, <2>4, <2>5 DEF RequireInv
<1>6. CASE loader_fails
  <2>1. /\ loaders' \in Seq(Loaders)
        /\ \A i \in DOMAIN loaders' : i \in DOMAIN loaders /\ loaders'[i] = loaders[i]
    BY <1>1, <1>6, UnwoundPrefix DEF loader_fails
  <2>2. RequireTypes'
    BY <1>6, <2>1 DEF loader_fails, RequireInv, RequireTypes
  <2>3. QED
    BY <1>6, <2>1, <2>2, PrefixRight DEF loader_fails, RequireInv
<1>7. CASE set_preload
  BY <1>7 DEF set_preload, RequireInv, RequireTypes, OneValue, Loads
<1>8. CASE ll_loadlib
  <2>1. PICK path \in Libraries : \E r \in lookforfunc(clibs, path) : clibs' = r.clibs
    BY <1>8 DEF ll_loadlib
  <2>2. FineLibs(clibs')
    BY <1>1, <2>1, LookFine
  <2>3. UNCHANGED <<loaded, preload, loaders, loads, given, nested>>
    BY <1>8 DEF ll_loadlib
  <2>4. QED
    BY <2>2, <2>3 DEF FineLibs, RequireInv, RequireTypes, OneValue, Loads
<1>9. CASE luaL_requiref
  <2>1. loaders = <<>> /\ UNCHANGED <<preload, loaders, clibs, nested>>
    BY <1>9 DEF luaL_requiref
  <2>2. PICK name \in Modules :
          IF lua_toboolean(loaded[name]) THEN UNCHANGED <<loaded, loads>> /\ given' = Given(name, loaded[name])
          ELSE /\ loads < MaxLoads /\ loads' = loads + 1
               /\ loaded' = [loaded EXCEPT ![name] = Module(loads + 1)]
               /\ given' = Given(name, Module(loads + 1))
    BY <1>9 DEF luaL_requiref
  <2>3. PICK v \in Values : /\ lua_toboolean(v) /\ loaded' = [loaded EXCEPT ![name] = v]
                            /\ given' = [given EXCEPT ![name] = @ \cup {v}]
                            /\ lua_toboolean(loaded[name]) => v = loaded[name]
                            /\ loads' \in Nat
    BY <2>2, Truth DEF Given, Values, RequireInv, RequireTypes
  <2>4. RequireTypes'
    BY <2>1, <2>3 DEF RequireInv, RequireTypes
  <2>5. ASSUME NEW n \in Modules \ nested' PROVE OneValue(n)'
    <3>1. n \in Modules \ nested /\ OneValue(n)
      BY <2>1, <2>5 DEF RequireInv
    <3>2. ~lua_toboolean(loaded[n]) => given[n] = {}
      BY <1>2, <3>1
    <3>3. given'[n] \subseteq {loaded'[n]}
      BY <2>3, <3>1, <3>2 DEF OneValue, RequireInv, RequireTypes
    <3>4. DOMAIN loaders' = {}
      BY <2>1
    <3>5. QED
      BY <3>3, <3>4 DEF OneValue, Loads
  <2>6. QED
    BY <2>1, <2>4, <2>5 DEF RequireInv
<1>10. CASE gctm
  BY <1>10 DEF gctm, RequireInv, RequireTypes, OneValue, Loads, Values, IsInjective
<1>11. CASE UNCHANGED rvars
  BY <1>11 DEF rvars, RequireInv, RequireTypes, OneValue, Loads
<1>12. QED
  BY <1>3, <1>4, <1>5, <1>6, <1>7, <1>8, <1>9, <1>10, <1>11 DEF RequireNext

\* The invariant holds before the first call of require.
LEMMA RequireStart == RequireInit => RequireInv
BY DEF RequireInit, RequireInv, RequireTypes, OneValue, Loads, Values, IsInjective

\* The invariant is more than what is promised.
LEMMA RequireUse == RequireInv => ModulesRight
<1> SUFFICES ASSUME RequireInv PROVE ModulesRight
  OBVIOUS
<1>1. ASSUME NEW n \in Modules \ nested PROVE Cardinality(given[n]) <= 1
  <2>1. given[n] = {} \/ given[n] = {loaded[n]}
    BY DEF RequireInv, OneValue
  <2>2. QED
    BY <2>1, FS_EmptySet, FS_Singleton
<1>2. QED
  BY <1>1 DEF ModulesRight, RequireInv

\* A name is given one value, unless its loader asked for it, and a library is listed
\* once (ll_require, addtoclib).
THEOREM ModulesAreRight == RequireSpec => []ModulesRight
<1>1. RequireInit => RequireInv
  BY RequireStart
<1>2. RequireInv /\ [RequireNext]_rvars => RequireInv'
  BY RequireStep
<1>3. RequireInv => ModulesRight
  BY RequireUse
<1>4. QED
  BY <1>1, <1>2, <1>3, PTL DEF RequireSpec

-----------------------------------------------------------------------------
(* Strings: the string table and the cache (LuaStrings).                   *)

AllStrings == Strings \cup {memerrmsg}
Colors  == {"w0", "w1", "black", "gray", "free"}
Sizes   == Nat \ {0}
States ==
  [str : [AllStrings -> [text : AllTexts \cup {""}, color : Colors]],
   hash : UNION {[0..(n - 1) -> SUBSET AllStrings] : n \in Sizes}, nuse : Nat,
   cache : [0..(STRCACHE_N - 1) -> [1..STRCACHE_M -> AllStrings]],
   white : {"w0", "w1"}, gcstate : {"pause", "sweep"}, held : SUBSET Strings]

Shorts(s) == {o \in InMemory(s) : s.str[o].text \notin LongTexts} \cup {memerrmsg}
Size(s)   == Cardinality(DOMAIN s.hash)

\* The text of a string is that of its address, and memerrmsg is as it was made.
TextsKept(s) ==
  /\ s.str[memerrmsg] = [text |-> MEMERRMSG, color |-> "gray"]
  /\ \A o \in Strings : s.str[o] = NoString \/ (s.str[o].text = o[1] /\ s.str[o].color \in {"w0", "w1", "black"})
OneEach(s) == \A o1, o2 \in Shorts(s) : s.str[o1].text = s.str[o2].text => o1 = o2
Listed(s) ==
  /\ \A i \in DOMAIN s.hash : \A o \in s.hash[i] : o \in Shorts(s) /\ lmod(s.str[o].text, Size(s)) = i
  /\ \A o \in Shorts(s) : o \in s.hash[lmod(s.str[o].text, Size(s))]
  /\ s.nuse = Cardinality(Shorts(s))
Living(s, o) == s.str[o].color # "free" /\ ~isdead(s, o)
Alive(s) ==
  /\ \A o \in s.held : Living(s, o)
  /\ \A i \in DOMAIN s.cache : \A j \in 1..STRCACHE_M : Living(s, s.cache[i][j])
\* Between two collections nothing is marked or dead.
AllWhite(s) == \A o \in InMemory(s) : s.str[o].color = s.white
StringsInv(s) ==
  s \in States /\ TextsKept(s) /\ OneEach(s) /\ Listed(s) /\ Alive(s) /\ (s.gcstate = "pause" => AllWhite(s))

-----------------------------------------------------------------------------
(* Types.                                                                  *)

\* Where strings are.
LEMMA StringsWhere ==
  /\ \A o \in Strings : o[1] \in ShortTexts \cup LongTexts /\ o[2] \in {1, 2} /\ o = <<o[1], o[2]>>
  /\ memerrmsg \notin Strings /\ NOTS \notin AllStrings
  /\ \A o \in Strings : o # NOTS
BY DEF Strings, memerrmsg, NOTS, AllStrings

\* There are finitely many addresses of strings.
LEMMA ObjectsFinite == IsFiniteSet(AllStrings)
<1>1. IsFiniteSet(ShortTexts) /\ IsFiniteSet(LongTexts)
  BY StringsAssumption, FS_Subset DEF AllTexts
<1>2. IsFiniteSet({1, 2}) /\ IsFiniteSet({1})
  <2>1. IsFiniteSet({1})
    BY FS_Singleton
  <2>2. {1, 2} = {1} \cup {2}
    OBVIOUS
  <2>3. QED
    BY <2>1, <2>2, FS_AddElement
<1>3. IsFiniteSet(ShortTexts \X {1, 2}) /\ IsFiniteSet(LongTexts \X {1})
  BY <1>1, <1>2, FS_Product
<1>4. IsFiniteSet(Strings)
  BY <1>3, FS_Union DEF Strings
<1>5. QED
  BY <1>4, FS_AddElement DEF AllStrings

\* The size of a table that is indexed from 0.
LEMMA SizeOf ==
  ASSUME NEW n \in Sizes, NEW T, NEW h \in [0..(n - 1) -> T]
  PROVE  Cardinality(DOMAIN h) = n
<1>1. DOMAIN h = 0..(n - 1) /\ n - 1 \in Int
  BY DEF Sizes
<1>2. Cardinality(0..(n - 1)) = IF 0 > n - 1 THEN 0 ELSE (n - 1) - 0 + 1
  BY <1>1, FS_Interval
<1>3. QED
  BY <1>1, <1>2 DEF Sizes

\* The table has a size, which is not 0, and its lists are numbered from 0.
LEMMA TableSize ==
  ASSUME NEW s \in States
  PROVE  /\ Size(s) \in Sizes /\ s.hash \in [0..(Size(s) - 1) -> SUBSET AllStrings]
         /\ DOMAIN s.hash = 0..(Size(s) - 1)
<1>1. PICK n \in Sizes : s.hash \in [0..(n - 1) -> SUBSET AllStrings]
  BY DEF States
<1>2. Size(s) = n
  BY <1>1, SizeOf DEF Size
<1>3. QED
  BY <1>1, <1>2

\* A list number is one of the table.
LEMMA Modulus ==
  ASSUME NEW text \in AllTexts, NEW n \in Sizes
  PROVE  lmod(text, n) \in 0..(n - 1)
<1>1. StrHash[text] \in Nat
  BY StringsAssumption
<1>2. StrHash[text] % n \in 0..(n - 1)
  BY <1>1 DEF Sizes
<1>3. QED
  BY <1>2 DEF lmod

\* What is in memory has a text.
LEMMA HasText ==
  ASSUME NEW s \in States, TextsKept(s)
  PROVE  /\ \A o \in InMemory(s) : o \in Strings /\ s.str[o].text = o[1] /\ s.str[o].text \in AllTexts
                                   /\ s.str[o].color \in {"w0", "w1", "black"}
         /\ \A o \in Shorts(s) : o \in AllStrings /\ s.str[o].text \in AllTexts \ LongTexts
         /\ Shorts(s) \subseteq AllStrings
<1>1. \A o \in InMemory(s) : o \in Strings /\ s.str[o] # NoString
  <2>1. NoString.color = "free"
    BY DEF NoString
  <2>2. QED
    BY <2>1 DEF InMemory
<1>2. \A o \in InMemory(s) : o \in Strings /\ s.str[o].text = o[1] /\ s.str[o].text \in AllTexts
                             /\ s.str[o].color \in {"w0", "w1", "black"}
  BY <1>1, StringsWhere DEF TextsKept, AllTexts
<1>3. MEMERRMSG \in AllTexts \ LongTexts /\ s.str[memerrmsg].text = MEMERRMSG
  <2>1. s.str[memerrmsg] = [text |-> MEMERRMSG, color |-> "gray"]
    BY DEF TextsKept
  <2>2. s.str[memerrmsg].text = MEMERRMSG
    BY <2>1
  <2>3. MEMERRMSG \in AllTexts \ LongTexts
    BY StringsAssumption DEF AllTexts
  <2>4. QED
    BY <2>2, <2>3
<1>4. QED
  BY <1>2, <1>3 DEF Shorts, AllStrings

\* The short strings in memory are finitely many.
LEMMA ShortsFinite ==
  ASSUME NEW s \in States, TextsKept(s)
  PROVE  IsFiniteSet(Shorts(s)) /\ Cardinality(Shorts(s)) \in Nat
<1>1. IsFiniteSet(Shorts(s))
  BY ObjectsFinite, HasText, FS_Subset
<1>2. QED
  BY <1>1, FS_CardinalityType

-----------------------------------------------------------------------------
(* The table grows and shrinks.                                            *)

Grown(s, newsize) ==
  [i \in 0..(newsize - 1) \cup DOMAIN s.hash |-> IF i \in DOMAIN s.hash THEN s.hash[i] ELSE {}]
AreRounds(s, newsize, m, k) ==
  m = [n \in 0..k |-> IF n = 0 THEN Grown(s, newsize) ELSE rehashed(s, m[n - 1], n - 1, newsize)]

\* There is a function as luaS_resize defines it.
LEMMA Rounds ==
  ASSUME NEW s, NEW newsize, NEW N \in Nat
  PROVE  \E m : AreRounds(s, newsize, m, N)
<1> DEFINE Fun(m, k) == m = [n \in 0..k |-> IF n = 0 THEN Grown(s, newsize)
                                            ELSE rehashed(s, m[n - 1], n - 1, newsize)]
           S == {k \in 0..N : \E m : Fun(m, k)}
<1>1. 0 \in S
  <2>1. Fun([n \in 0..0 |-> Grown(s, newsize)], 0)
    OBVIOUS
  <2> HIDE DEF Fun
  <2>2. QED
    BY <2>1
<1>2. ASSUME NEW k \in 0..(N - 1), k \in S PROVE k + 1 \in S
  <2>1. PICK m : Fun(m, k)
    BY <1>2
  <2> DEFINE r == [n \in 0..(k + 1) |-> IF n = k + 1 THEN rehashed(s, m[k], k, newsize) ELSE m[n]]
  <2>2. \A n \in 0..k : r[n] = m[n] /\ m[n] = IF n = 0 THEN Grown(s, newsize)
                                              ELSE rehashed(s, m[n - 1], n - 1, newsize)
    BY <2>1
  <2>3. \A n \in 0..(k + 1) : r[n] = IF n = 0 THEN Grown(s, newsize)
                                     ELSE rehashed(s, r[n - 1], n - 1, newsize)
    <3>1. ASSUME NEW n \in 0..k PROVE r[n] = IF n = 0 THEN Grown(s, newsize)
                                             ELSE rehashed(s, r[n - 1], n - 1, newsize)
      <4>1. n # 0 => n - 1 \in 0..k
        OBVIOUS
      <4>2. QED
        BY <2>2, <4>1
    <3>2. r[k + 1] = rehashed(s, r[k], k, newsize) /\ k + 1 # 0 /\ (k + 1) - 1 = k
      BY <2>2
    <3>3. QED
      BY <3>1, <3>2
  <2>4. r = [n \in 0..(k + 1) |-> r[n]]
    OBVIOUS
  <2> HIDE DEF r
  <2>5. Fun(r, k + 1)
    BY <2>3, <2>4
  <2> HIDE DEF Fun
  <2>6. QED
    BY <2>5
<1>3. \A k \in 0..N : k \in S
  <2> HIDE DEF S
  <2>1. QED
    BY <1>1, <1>2, Upto
<1>4. PICK m : Fun(m, N)
  BY <1>3
<1>5. QED
  BY <1>4 DEF AreRounds

\* In list i after k rounds: what belongs there, and before round i what was there.
LEMMA RoundsRight ==
  ASSUME NEW s \in States, TextsKept(s), Listed(s), NEW newsize \in Sizes,
         NEW m, AreRounds(s, newsize, m, Size(s))
  PROVE  \A k \in 0..Size(s) :
           /\ DOMAIN m[k] = 0..(newsize - 1) \cup DOMAIN s.hash
           /\ \A o \in Shorts(s) : \E i \in DOMAIN m[k] : o \in m[k][i]
           /\ \A i \in DOMAIN m[k] : \A o \in m[k][i] :
                /\ o \in Shorts(s)
                /\ i = lmod(s.str[o].text, newsize) \/ i \in k..(Size(s) - 1)
                /\ i >= newsize => i >= k
<1> DEFINE Good(h, k) ==
             /\ DOMAIN h = 0..(newsize - 1) \cup DOMAIN s.hash
             /\ \A o \in Shorts(s) : \E i \in DOMAIN h : o \in h[i]
             /\ \A i \in DOMAIN h : \A o \in h[i] :
                  /\ o \in Shorts(s)
                  /\ i = lmod(s.str[o].text, newsize) \/ i \in k..(Size(s) - 1)
                  /\ i >= newsize => i >= k
           S == {k \in 0..Size(s) : Good(m[k], k)}
<1>1. /\ Size(s) \in Nat /\ Size(s) \in Sizes /\ newsize \in Nat /\ DOMAIN s.hash = 0..(Size(s) - 1)
      /\ \A n \in 0..Size(s) : m[n] = IF n = 0 THEN Grown(s, newsize)
                                      ELSE rehashed(s, m[n - 1], n - 1, newsize)
  BY TableSize DEF Sizes, AreRounds
<1>2. \A o \in Shorts(s) : /\ lmod(s.str[o].text, newsize) \in 0..(newsize - 1)
                           /\ lmod(s.str[o].text, Size(s)) \in DOMAIN s.hash
  BY <1>1, HasText, Modulus
<1>3. 0 \in S
  <2>1. m[0] = Grown(s, newsize)
    BY <1>1
  <2>2. \A i \in DOMAIN Grown(s, newsize) : i \in Nat
    BY <1>1 DEF Grown
  <2>3. Good(Grown(s, newsize), 0)
    BY <1>1, <1>2, <2>2 DEF Grown, Listed
  <2>4. QED
    BY <1>1, <2>1, <2>3
<1>4. ASSUME NEW k \in 0..(Size(s) - 1), k \in S PROVE k + 1 \in S
  <2>1. Good(m[k], k) /\ m[k + 1] = rehashed(s, m[k], k, newsize) /\ k \in DOMAIN m[k] /\ k + 1 \in 0..Size(s)
    BY <1>1, <1>4
  <2> DEFINE h == m[k]
             r == rehashed(s, h, k, newsize)
  <2>2. /\ DOMAIN r = DOMAIN h
        /\ \A j \in DOMAIN h : r[j] = (IF j = k THEN {} ELSE h[j]) \cup {o \in h[k] : lmod(s.str[o].text, newsize) = j}
    BY DEF rehashed
  <2>3. Good(h, k) /\ k \in DOMAIN h
    BY <2>1
  <2> HIDE DEF h, r
  <2>4. \A o \in Shorts(s) : \E i \in DOMAIN r : o \in r[i]
    BY <1>2, <2>2, <2>3
  <2>5. ASSUME NEW i \in DOMAIN r, NEW o \in r[i]
        PROVE  /\ o \in Shorts(s) /\ (i = lmod(s.str[o].text, newsize) \/ i \in (k + 1)..(Size(s) - 1))
               /\ i >= newsize => i >= k + 1
    <3>1. i \in Nat
      BY <1>1, <2>2, <2>3, <2>5
    <3>2. CASE i # k /\ o \in h[i]
      BY <2>2, <2>3, <3>1, <3>2
    <3>3. CASE o \in h[k] /\ lmod(s.str[o].text, newsize) = i
      BY <1>1, <1>2, <2>3, <3>1, <3>3
    <3>4. QED
      BY <2>2, <2>5, <3>2, <3>3
  <2>6. Good(r, k + 1)
    BY <2>2, <2>3, <2>4, <2>5
  <2>7. QED
    BY <2>1, <2>6 DEF r, h
<1>5. \A k \in 0..Size(s) : k \in S
  <2> HIDE DEF S
  <2>1. QED
    BY <1>1, <1>3, <1>4, Upto
<1>6. QED
  BY <1>5

\* Every string is in its list of the new table, and nothing else has changed.
LEMMA TableOfStringsRight ==
  ASSUME NEW s \in States, TextsKept(s), Listed(s), NEW newsize \in Sizes
  PROVE  \E h \in [0..(newsize - 1) -> SUBSET AllStrings] :
           /\ luaS_resize(s, newsize) = [s EXCEPT !.hash = h]
           /\ \A i \in 0..(newsize - 1) : \A o \in h[i] : o \in Shorts(s) /\ lmod(s.str[o].text, newsize) = i
           /\ \A o \in Shorts(s) : o \in h[lmod(s.str[o].text, newsize)]
<1> DEFINE m == CHOOSE f : AreRounds(s, newsize, f, Size(s))
           h == [i \in 0..(newsize - 1) |-> m[Size(s)][i]]
<1>1. luaS_resize(s, newsize) = [s EXCEPT !.hash = h]
  BY DEF luaS_resize, Size, Grown, AreRounds
<1>2. Size(s) \in Nat /\ newsize \in Nat /\ DOMAIN s.hash = 0..(Size(s) - 1)
  BY TableSize DEF Sizes
<1>3. AreRounds(s, newsize, m, Size(s))
  BY <1>2, Rounds
<1> HIDE DEF m
<1>4. \A k \in 0..Size(s) :
           /\ DOMAIN m[k] = 0..(newsize - 1) \cup DOMAIN s.hash
           /\ \A o \in Shorts(s) : \E i \in DOMAIN m[k] : o \in m[k][i]
           /\ \A i \in DOMAIN m[k] : \A o \in m[k][i] :
                /\ o \in Shorts(s)
                /\ i = lmod(s.str[o].text, newsize) \/ i \in k..(Size(s) - 1)
                /\ i >= newsize => i >= k
  BY <1>3, RoundsRight
<1> DEFINE last == m[Size(s)]
<1>5. /\ DOMAIN last = 0..(newsize - 1) \cup 0..(Size(s) - 1)
      /\ \A o \in Shorts(s) : \E i \in DOMAIN last : o \in last[i]
      /\ \A i \in DOMAIN last : \A o \in last[i] :
           /\ o \in Shorts(s) /\ (i = lmod(s.str[o].text, newsize) \/ i \in Size(s)..(Size(s) - 1))
           /\ i >= newsize => i >= Size(s)
  BY <1>2, <1>4
<1>6. \A i \in 0..(newsize - 1) : h[i] = last[i]
  OBVIOUS
<1> HIDE DEF last
<1>7. \A o \in Shorts(s) : lmod(s.str[o].text, newsize) \in 0..(newsize - 1) /\ o \in AllStrings
  BY HasText, Modulus
<1>8. \A i \in 0..(newsize - 1) : \A o \in h[i] : o \in Shorts(s) /\ lmod(s.str[o].text, newsize) = i
  BY <1>2, <1>5, <1>6
<1>9. \A o \in Shorts(s) : o \in h[lmod(s.str[o].text, newsize)]
  BY <1>2, <1>5, <1>6, <1>7
<1>10. h \in [0..(newsize - 1) -> SUBSET AllStrings]
  BY <1>8, HasText
<1>11. QED
  BY <1>1, <1>8, <1>9, <1>10

\* The invariant is kept when the table is resized.
LEMMA ResizeKeeps ==
  ASSUME NEW s, StringsInv(s), NEW newsize \in Sizes
  PROVE  /\ StringsInv(luaS_resize(s, newsize)) /\ Shorts(luaS_resize(s, newsize)) = Shorts(s)
         /\ luaS_resize(s, newsize).str = s.str /\ luaS_resize(s, newsize).held = s.held
         /\ luaS_resize(s, newsize).gcstate = s.gcstate
         /\ luaS_resize(s, newsize).white = s.white
<1>1. s \in States /\ TextsKept(s) /\ Listed(s)
  BY DEF StringsInv
<1>2. PICK h \in [0..(newsize - 1) -> SUBSET AllStrings] :
           /\ luaS_resize(s, newsize) = [s EXCEPT !.hash = h]
           /\ \A i \in 0..(newsize - 1) : \A o \in h[i] : o \in Shorts(s) /\ lmod(s.str[o].text, newsize) = i
           /\ \A o \in Shorts(s) : o \in h[lmod(s.str[o].text, newsize)]
  BY <1>1, TableOfStringsRight
<1> DEFINE r == [s EXCEPT !.hash = h]
<1>3. /\ r \in States /\ r.hash = h /\ r.str = s.str /\ r.nuse = s.nuse /\ r.cache = s.cache
      /\ r.white = s.white /\ r.gcstate = s.gcstate /\ r.held = s.held
  BY <1>1 DEF States
<1> HIDE DEF r
<1>4. Size(r) = newsize /\ DOMAIN h = 0..(newsize - 1)
  BY <1>3, SizeOf DEF Size
<1>5. InMemory(r) = InMemory(s) /\ Shorts(r) = Shorts(s)
  BY <1>3 DEF InMemory, Shorts
<1>6. TextsKept(r) /\ OneEach(r) /\ Alive(r) /\ (r.gcstate = "pause" => AllWhite(r))
  BY <1>3, <1>5 DEF StringsInv, TextsKept, OneEach, Alive, Living, isdead, AllWhite
<1>7. Listed(r)
  BY <1>1, <1>2, <1>3, <1>4, <1>5 DEF Listed
<1>8. QED
  BY <1>2, <1>3, <1>5, <1>6, <1>7 DEF StringsInv, r

-----------------------------------------------------------------------------
(* The collector.                                                          *)

\* What is dead is not memerrmsg, which is never marked white (luaS_init).
LEMMA Dead ==
  ASSUME NEW s \in States
  PROVE  /\ \A o \in AllStrings : isdead(s, o) <=> s.str[o].color = otherw(s.white)
         /\ otherw(s.white) \in {"w0", "w1"} /\ otherw(s.white) # s.white /\ otherw(otherw(s.white)) = s.white
BY DEF isdead, otherw, States

\* Sweeping strings keeps the invariant and what is held, and takes no string but dead ones.
LEMMA SweptKeeps ==
  ASSUME NEW s, StringsInv(s), NEW d \in SUBSET InMemory(s)
  PROVE  /\ StringsInv(swept(s, d)) /\ Shorts(swept(s, d)) \subseteq Shorts(s)
         /\ \A o \in Shorts(swept(s, d)) : swept(s, d).str[o].text = s.str[o].text
         /\ swept(s, d).held = s.held /\ swept(s, d).white = s.white /\ swept(s, d).gcstate = s.gcstate
         /\ d = InMemory(s) => AllWhite(swept(s, d))
<1> DEFINE r == swept(s, d)
           short == {o \in d : isdead(s, o) /\ s.str[o].text \notin LongTexts}
           str == [o \in AllStrings |-> CASE o \notin d -> s.str[o]
                                       [] o \in d /\ isdead(s, o) -> NoString
                                       [] OTHER -> [s.str[o] EXCEPT !.color = s.white]]
           hash == [i \in DOMAIN s.hash |-> s.hash[i] \ {o \in short : lmod(s.str[o].text, Size(s)) = i}]
<1>1. s \in States /\ TextsKept(s) /\ Listed(s) /\ OneEach(s) /\ Alive(s)
  BY DEF StringsInv
<1>2. /\ \A o \in InMemory(s) : o \in Strings /\ s.str[o].text = o[1] /\ s.str[o].text \in AllTexts
                               /\ s.str[o].color \in {"w0", "w1", "black"}
      /\ \A o \in Shorts(s) : o \in AllStrings /\ s.str[o].text \in AllTexts \ LongTexts
      /\ Shorts(s) \subseteq AllStrings
  BY <1>1, HasText
<1>3. short \subseteq Shorts(s) /\ IsFiniteSet(short) /\ memerrmsg \notin short /\ memerrmsg \notin d
  <2>1. short \subseteq Shorts(s) /\ memerrmsg \notin d
    BY <1>2, StringsWhere DEF Shorts
  <2>2. QED
    BY <1>1, <2>1, ShortsFinite, FS_Subset
<1>4. str \in [AllStrings -> [text : AllTexts \cup {""}, color : Colors]]
  <2>1. ASSUME NEW o \in AllStrings PROVE str[o] \in [text : AllTexts \cup {""}, color : Colors]
    <3>1. s.str[o] \in [text : AllTexts \cup {""}, color : Colors] /\ s.white \in Colors
      BY <1>1 DEF States, Colors
    <3>2. NoString \in [text : AllTexts \cup {""}, color : Colors]
      BY DEF NoString, Colors
    <3>3. [s.str[o] EXCEPT !.color = s.white] \in [text : AllTexts \cup {""}, color : Colors]
      BY <3>1
    <3>4. QED
      BY <3>1, <3>2, <3>3
  <2>2. QED
    BY <2>1
<1>5. /\ r = [s EXCEPT !.hash = hash, !.nuse = @ - Cardinality(short), !.str = str]
  BY <1>1 DEF swept, luaS_remove, Size, States
<1>6. Cardinality(Shorts(s) \ short) = s.nuse - Cardinality(short) /\ Cardinality(Shorts(s) \ short) \in Nat
  <2>1. Shorts(s) \cap short = short /\ IsFiniteSet(Shorts(s))
    BY <1>1, <1>3, ShortsFinite
  <2>2. IsFiniteSet(Shorts(s) \ short) /\ Cardinality(Shorts(s) \ short) = Cardinality(Shorts(s)) - Cardinality(short)
    BY <2>1, FS_Difference
  <2>3. QED
    BY <1>1, <2>2, FS_CardinalityType DEF Listed
<1>7. hash \in [0..(Size(s) - 1) -> SUBSET AllStrings] /\ Size(s) \in Sizes /\ DOMAIN s.hash = 0..(Size(s) - 1)
  BY <1>1, TableSize
<1>8. /\ \A o \in AllStrings \ d : str[o] = s.str[o]
      /\ \A o \in d : IF isdead(s, o) THEN str[o] = NoString
                      ELSE str[o].text = s.str[o].text /\ str[o].color = s.white
  <2>1. d \subseteq AllStrings
    BY <1>2 DEF AllStrings
  <2>2. \A o \in d : s.str[o] \in [text : AllTexts \cup {""}, color : Colors]
    BY <1>1, <2>1 DEF States
  <2>3. QED
    BY <2>1, <2>2
<1>9. \A i \in 0..(Size(s) - 1) : \A o : o \in hash[i] <=> o \in s.hash[i] /\ ~(o \in short /\ lmod(s.str[o].text, Size(s)) = i)
  BY <1>7
<1>10. short = {o \in d : isdead(s, o) /\ s.str[o].text \notin LongTexts}
  OBVIOUS
<1> HIDE DEF str, hash, short, r
<1>11. /\ r.str = str /\ r.hash = hash /\ r.nuse = Cardinality(Shorts(s) \ short) /\ r.cache = s.cache
       /\ r.white = s.white /\ r.gcstate = s.gcstate /\ r.held = s.held
  BY <1>1, <1>5, <1>6 DEF States
<1>12. r \in States
  <2>1. r.hash \in UNION {[0..(n - 1) -> SUBSET AllStrings] : n \in Sizes}
    BY <1>7, <1>11
  <2>2. r = [str |-> r.str, hash |-> r.hash, nuse |-> r.nuse, cache |-> r.cache, white |-> r.white,
             gcstate |-> r.gcstate, held |-> r.held]
    BY <1>1, <1>5, <1>11 DEF States
  <2>3. QED
    BY <1>1, <1>4, <1>6, <1>11, <2>1, <2>2 DEF States
<1>13. NoString.color = "free" /\ \A o \in Strings : o \in InMemory(s) <=> s.str[o].color # "free"
  BY DEF NoString, InMemory
<1>14. InMemory(r) = InMemory(s) \ {o \in d : isdead(s, o)}
  <2>1. ASSUME NEW o \in Strings PROVE o \in InMemory(r) <=> o \in InMemory(s) /\ ~(o \in d /\ isdead(s, o))
    <3>1. o \in AllStrings /\ (o \in InMemory(r) <=> str[o].color # "free")
      BY <1>11 DEF AllStrings, InMemory
    <3>2. s.white # "free"
      BY <1>1 DEF States
    <3>3. QED
      BY <1>8, <1>13, <3>1, <3>2
  <2>2. QED
    BY <2>1 DEF InMemory
<1>15. Shorts(r) = Shorts(s) \ short
  <2>1. \A o \in InMemory(r) : r.str[o].text = s.str[o].text
    BY <1>2, <1>8, <1>11, <1>14 DEF AllStrings
  <2>2. QED
    BY <1>3, <1>10, <1>14, <2>1 DEF Shorts
<1>16. \A o \in Shorts(r) : r.str[o].text = s.str[o].text
  BY <1>2, <1>3, <1>8, <1>10, <1>11, <1>15
<1>17. TextsKept(r)
  <2>1. r.str[memerrmsg] = s.str[memerrmsg]
    BY <1>3, <1>8, <1>11 DEF AllStrings
  <2>2. ASSUME NEW o \in Strings PROVE r.str[o] = NoString \/ (r.str[o].text = o[1] /\ r.str[o].color \in {"w0", "w1", "black"})
    <3>1. o \in AllStrings /\ s.white \in {"w0", "w1", "black"}
      BY <1>1 DEF AllStrings, States
    <3>2. o \in d => s.str[o].text = o[1]
      BY <1>2
    <3>3. s.str[o] = NoString \/ (s.str[o].text = o[1] /\ s.str[o].color \in {"w0", "w1", "black"})
      BY <1>1 DEF TextsKept
    <3>4. QED
      BY <1>8, <1>11, <3>1, <3>2, <3>3
  <2>3. QED
    BY <1>1, <2>1, <2>2 DEF TextsKept
<1>18. OneEach(r)
  BY <1>1, <1>15, <1>16 DEF OneEach
<1>19. Listed(r)
  <2>1. Size(r) = Size(s) /\ DOMAIN r.hash = 0..(Size(s) - 1)
    BY <1>7, <1>11, SizeOf DEF Size
  <2>2. ASSUME NEW i \in 0..(Size(s) - 1), NEW o \in r.hash[i] PROVE o \in Shorts(r) /\ lmod(r.str[o].text, Size(r)) = i
    BY <1>1, <1>7, <1>9, <1>11, <1>15, <1>16, <2>1, <2>2 DEF Listed
  <2>3. ASSUME NEW o \in Shorts(r) PROVE o \in r.hash[lmod(r.str[o].text, Size(r))]
    <3>1. o \in Shorts(s) \ short /\ r.str[o].text = s.str[o].text
      BY <1>15, <1>16
    <3>2. lmod(s.str[o].text, Size(s)) \in 0..(Size(s) - 1)
      BY <1>2, <1>7, <3>1, Modulus
    <3>3. QED
      BY <1>1, <1>9, <1>11, <2>1, <3>1, <3>2 DEF Listed
  <2>4. QED
    BY <1>11, <1>15, <2>1, <2>2, <2>3 DEF Listed
<1>20. \A o \in AllStrings : Living(s, o) => Living(r, o)
  <2>1. ASSUME NEW o \in AllStrings, Living(s, o) PROVE Living(r, o)
    <3>1. s.white # "free" /\ s.white # otherw(s.white) /\ (isdead(r, o) <=> str[o].color = otherw(s.white))
      BY <1>1, <1>11, Dead DEF isdead, States
    <3>2. ~isdead(s, o) /\ s.str[o].color # "free" /\ (isdead(s, o) <=> s.str[o].color = otherw(s.white))
      BY <2>1 DEF Living, isdead
    <3>3. QED
      BY <1>8, <1>11, <2>1, <3>1, <3>2 DEF Living
  <2>2. QED
    BY <2>1
<1>21. Alive(r)
  <2>1. s.held \subseteq AllStrings /\ \A i \in DOMAIN s.cache : \A j \in 1..STRCACHE_M : s.cache[i][j] \in AllStrings
    <3>1. s.cache \in [0..(STRCACHE_N - 1) -> [1..STRCACHE_M -> AllStrings]] /\ s.held \subseteq Strings
      BY <1>1 DEF States
    <3>2. QED
      BY <3>1 DEF AllStrings
  <2>2. QED
    BY <1>1, <1>11, <1>20, <2>1 DEF Alive
<1>22. \A o \in InMemory(r) : r.str[o].color = IF o \in d THEN s.white ELSE s.str[o].color
  BY <1>2, <1>8, <1>11, <1>14 DEF AllStrings
<1>23. (s.gcstate = "pause" => AllWhite(r)) /\ (d = InMemory(s) => AllWhite(r))
  <2>1. s.gcstate = "pause" => AllWhite(s)
    BY DEF StringsInv
  <2>2. QED
    BY <1>11, <1>14, <1>22, <2>1 DEF AllWhite
<1>24. QED
  BY <1>11, <1>12, <1>15, <1>16, <1>17, <1>18, <1>19, <1>21, <1>23 DEF StringsInv, r

\* The end of the mark phase keeps the invariant, if it comes when no string is marked or
\* dead and what is held is marked.
LEMMA AtomicKeeps ==
  ASSUME NEW s, StringsInv(s), AllWhite(s), NEW kept \in SUBSET InMemory(s), s.held \subseteq kept
  PROVE  /\ StringsInv(atomic(s, kept)) /\ InMemory(atomic(s, kept)) = InMemory(s)
         /\ Shorts(atomic(s, kept)) = Shorts(s) /\ atomic(s, kept).held = s.held
         /\ \A o \in Shorts(s) : atomic(s, kept).str[o].text = s.str[o].text
<1> DEFINE r == atomic(s, kept)
           str == [o \in AllStrings |-> IF o \in kept THEN [s.str[o] EXCEPT !.color = "black"] ELSE s.str[o]]
           m == [s EXCEPT !.str = str]
           cache == [i \in 0..(STRCACHE_N - 1) |-> [j \in 1..STRCACHE_M |->
                       IF iswhite(m, s.cache[i][j]) THEN memerrmsg ELSE s.cache[i][j]]]
<1>1. s \in States /\ TextsKept(s) /\ Listed(s) /\ OneEach(s) /\ Alive(s)
  BY DEF StringsInv
<1>2. /\ \A o \in InMemory(s) : o \in Strings /\ s.str[o].text = o[1] /\ s.str[o].text \in AllTexts
                               /\ s.str[o].color \in {"w0", "w1", "black"}
      /\ \A o \in Shorts(s) : o \in AllStrings /\ s.str[o].text \in AllTexts \ LongTexts
      /\ Shorts(s) \subseteq AllStrings
  BY <1>1, HasText
<1>3. kept \subseteq AllStrings /\ memerrmsg \notin kept /\ \A o \in kept : s.str[o].color # "free"
  BY <1>2, StringsWhere DEF AllStrings
<1>4. str \in [AllStrings -> [text : AllTexts \cup {""}, color : Colors]]
  <2>1. ASSUME NEW o \in AllStrings PROVE str[o] \in [text : AllTexts \cup {""}, color : Colors]
    <3>1. s.str[o] \in [text : AllTexts \cup {""}, color : Colors]
      BY <1>1 DEF States
    <3>2. [s.str[o] EXCEPT !.color = "black"] \in [text : AllTexts \cup {""}, color : Colors]
      BY <3>1 DEF Colors
    <3>3. QED
      BY <3>1, <3>2
  <2>2. QED
    BY <2>1
<1>5. /\ \A o \in AllStrings \ kept : str[o] = s.str[o]
      /\ \A o \in kept : str[o].text = s.str[o].text /\ str[o].color = "black"
  <2>1. \A o \in kept : s.str[o] \in [text : AllTexts \cup {""}, color : Colors]
    BY <1>1, <1>3 DEF States
  <2>2. QED
    BY <1>3, <2>1
<1>6. s.cache \in [0..(STRCACHE_N - 1) -> [1..STRCACHE_M -> AllStrings]] /\ memerrmsg \in AllStrings
      /\ s.held \subseteq Strings
  BY <1>1 DEF States, AllStrings
<1>7. cache \in [0..(STRCACHE_N - 1) -> [1..STRCACHE_M -> AllStrings]]
  BY <1>6
<1>8. m.str = str /\ m.cache = s.cache /\ m.white = s.white
  BY <1>1 DEF States
<1>9. r = [[s EXCEPT !.str = str, !.cache = cache] EXCEPT !.white = otherw(s.white), !.gcstate = "sweep"]
  BY <1>1, <1>6 DEF atomic, luaS_clearcache, States
<1>10. \A i \in 0..(STRCACHE_N - 1), j \in 1..STRCACHE_M :
         /\ s.cache[i][j] \in AllStrings
         /\ cache[i][j] = IF str[s.cache[i][j]].color \in {"w0", "w1"} THEN memerrmsg ELSE s.cache[i][j]
  BY <1>6, <1>8 DEF iswhite
<1> HIDE DEF str, cache, m, r
<1>11. /\ r.str = str /\ r.hash = s.hash /\ r.nuse = s.nuse /\ r.cache = cache
       /\ r.white = otherw(s.white) /\ r.gcstate = "sweep" /\ r.held = s.held
  BY <1>1, <1>9 DEF States
<1>12. r \in States
  <2>1. otherw(s.white) \in {"w0", "w1"}
    BY <1>1, Dead
  <2>2. QED
    BY <1>1, <1>4, <1>7, <1>9, <2>1 DEF States
<1>13. InMemory(r) = InMemory(s)
  <2>1. \A o \in Strings : str[o].color = "free" <=> s.str[o].color = "free"
    BY <1>3, <1>5 DEF AllStrings
  <2>2. QED
    BY <1>11, <2>1 DEF InMemory
<1>14. Shorts(r) = Shorts(s) /\ \A o \in AllStrings : r.str[o].text = s.str[o].text
  <2>1. \A o \in AllStrings : r.str[o].text = s.str[o].text
    BY <1>5, <1>11
  <2>2. InMemory(s) \subseteq AllStrings
    BY <1>2 DEF AllStrings
  <2>3. QED
    BY <1>13, <2>1, <2>2 DEF Shorts
<1>15. TextsKept(r)
  <2>1. r.str[memerrmsg] = s.str[memerrmsg]
    BY <1>3, <1>5, <1>6, <1>11
  <2>2. ASSUME NEW o \in Strings PROVE r.str[o] = NoString \/ (r.str[o].text = o[1] /\ r.str[o].color \in {"w0", "w1", "black"})
    BY <1>1, <1>2, <1>5, <1>11 DEF TextsKept, AllStrings
  <2>3. QED
    BY <1>1, <2>1, <2>2 DEF TextsKept
<1>16. OneEach(r) /\ Listed(r)
  BY <1>1, <1>2, <1>11, <1>14 DEF OneEach, Listed, Size
<1>17. \A o \in AllStrings : isdead(r, o) <=> str[o].color = s.white
  BY <1>1, <1>11, Dead DEF isdead
<1>18. \A o \in s.held : Living(r, o)
  <2>1. s.white # "black"
    BY <1>1 DEF States
  <2>2. QED
    BY <1>3, <1>5, <1>11, <1>17, <2>1 DEF Living
<1>19. s.str[memerrmsg].color = "gray" /\ s.white \in {"w0", "w1"}
  <2>1. s.str[memerrmsg] = [text |-> MEMERRMSG, color |-> "gray"]
    BY <1>1 DEF TextsKept
  <2>2. s.white \in {"w0", "w1"}
    BY <1>1 DEF States
  <2>3. QED
    BY <2>1, <2>2
<1>20. ASSUME NEW i \in 0..(STRCACHE_N - 1), NEW j \in 1..STRCACHE_M PROVE Living(r, cache[i][j])
  <2> DEFINE o == s.cache[i][j]
  <2>1. o \in AllStrings /\ cache[i][j] = IF str[o].color \in {"w0", "w1"} THEN memerrmsg ELSE o
    BY <1>10
  <2>2. s.str[o].color # "free"
    BY <1>1, <1>6 DEF Alive, Living
  <2> HIDE DEF o
  <2>3. Living(r, memerrmsg)
    BY <1>3, <1>5, <1>6, <1>11, <1>17, <1>19 DEF Living
  <2>4. str[o].color \notin {"w0", "w1"} => Living(r, o)
    BY <1>5, <1>11, <1>17, <1>19, <2>1, <2>2 DEF Living
  <2>5. QED
    BY <2>1, <2>3, <2>4
<1>21. Alive(r)
  BY <1>7, <1>11, <1>18, <1>20 DEF Alive
<1>22. QED
  BY <1>2, <1>11, <1>12, <1>13, <1>14, <1>15, <1>16, <1>21 DEF StringsInv, r

\* What is held is in memory.
LEMMA HeldInMemory ==
  ASSUME NEW s, StringsInv(s)
  PROVE  s.held \subseteq InMemory(s) /\ s.held \subseteq Strings
BY DEF StringsInv, States, Alive, Living, InMemory

\* An emergency collection keeps the invariant, and creates no string.
LEMMA EmergencyKeeps ==
  ASSUME NEW s, StringsInv(s)
  PROVE  /\ StringsInv(EmergencyGC(s)) /\ EmergencyGC(s).held = s.held
         /\ Shorts(EmergencyGC(s)) \subseteq Shorts(s)
         /\ \A o \in Shorts(EmergencyGC(s)) : EmergencyGC(s).str[o].text = s.str[o].text
<1> DEFINE a == swept(s, InMemory(s))
           b == atomic(a, s.held)
           c == swept(b, InMemory(b))
           d == [c EXCEPT !.gcstate = "pause"]
<1>1. /\ StringsInv(a) /\ AllWhite(a) /\ a.held = s.held /\ Shorts(a) \subseteq Shorts(s)
      /\ \A o \in Shorts(a) : a.str[o].text = s.str[o].text
  BY SweptKeeps
<1> HIDE DEF a
<1>2. /\ StringsInv(b) /\ b.held = s.held /\ Shorts(b) = Shorts(a)
      /\ \A o \in Shorts(b) : b.str[o].text = a.str[o].text
  <2>1. s.held \in SUBSET InMemory(a) /\ a.held \subseteq s.held
    BY <1>1, HeldInMemory
  <2>2. QED
    BY <1>1, <2>1, AtomicKeeps
<1> HIDE DEF b
<1>3. /\ StringsInv(c) /\ AllWhite(c) /\ c.held = s.held /\ Shorts(c) \subseteq Shorts(b)
      /\ \A o \in Shorts(c) : c.str[o].text = b.str[o].text
  BY <1>2, SweptKeeps
<1> HIDE DEF c
<1>4. /\ d \in States /\ d.str = c.str /\ d.hash = c.hash /\ d.nuse = c.nuse /\ d.cache = c.cache
      /\ d.white = c.white /\ d.held = c.held /\ d.gcstate = "pause"
  BY <1>3 DEF StringsInv, States
<1> HIDE DEF d
<1>5. InMemory(d) = InMemory(c) /\ Shorts(d) = Shorts(c)
  BY <1>4 DEF InMemory, Shorts
<1>6. StringsInv(d)
  BY <1>3, <1>4, <1>5 DEF StringsInv, TextsKept, OneEach, Listed, Size, Alive, Living, isdead, AllWhite
<1>7. EmergencyGC(s) = d
  BY DEF EmergencyGC, SweepAll, a, b, c, d
<1>8. QED
  BY <1>1, <1>2, <1>3, <1>4, <1>5, <1>6, <1>7

\* An allocation that may collect keeps the invariant and creates no string.
LEMMA AllocatedKeeps ==
  ASSUME NEW s, StringsInv(s), NEW outcome
  PROVE  /\ StringsInv(Allocated(s, outcome)) /\ Allocated(s, outcome).held = s.held
         /\ Shorts(Allocated(s, outcome)) \subseteq Shorts(s)
         /\ \A o \in Shorts(Allocated(s, outcome)) : Allocated(s, outcome).str[o].text = s.str[o].text
BY EmergencyKeeps DEF Allocated

-----------------------------------------------------------------------------
(* New strings.                                                            *)

\* A new string has an address that is not in use.
LEMMA AddressRight ==
  ASSUME NEW s, NEW text, Places(s, text) # {}
  PROVE  Address(s, text) \in Strings \ InMemory(s) /\ Address(s, text)[1] = text
<1> DEFINE P == Places(s, text)
<1>1. \A o \in P : o \in Strings \ InMemory(s) /\ o[1] = text /\ o[2] \in {1, 2}
  BY StringsWhere DEF Places
<1> HIDE DEF P
<1>2. \E o \in P : \A x \in P : o[2] <= x[2]
  <2>1. CASE \E o \in P : o[2] = 1
    BY <1>1, <2>1
  <2>2. CASE \A o \in P : o[2] = 2
    BY <2>2 DEF P
  <2>3. QED
    BY <1>1, <2>1, <2>2
<1>3. Address(s, text) = CHOOSE o \in P : \A x \in P : o[2] <= x[2]
  BY DEF Address, P
<1>4. Address(s, text) \in P
  BY <1>2, <1>3
<1>5. QED
  BY <1>1, <1>4

WithNew(s, text, a) == [s EXCEPT !.str[a] = [text |-> text, color |-> s.white]]

\* A new string is alive, and the others are as they were.
LEMMA CreateKeeps ==
  ASSUME NEW s, StringsInv(s), NEW text \in AllTexts, NEW a \in Strings \ InMemory(s), a[1] = text,
         NEW c, c = WithNew(s, text, a)
  PROVE  /\ c \in States /\ TextsKept(c) /\ Alive(c) /\ (c.gcstate = "pause" => AllWhite(c))
         /\ c.hash = s.hash /\ c.nuse = s.nuse /\ c.cache = s.cache /\ c.held = s.held
         /\ Living(c, a) /\ c.str[a].text = text
         /\ Shorts(c) = Shorts(s) \cup (IF text \in LongTexts THEN {} ELSE {a}) /\ a \notin Shorts(s)
         /\ \A o \in Shorts(s) : c.str[o].text = s.str[o].text
<1>1. s \in States /\ TextsKept(s) /\ Alive(s) /\ (s.gcstate = "pause" => AllWhite(s))
  BY DEF StringsInv
<1>2. a \in AllStrings /\ s.str[a].color = "free" /\ a # memerrmsg
  BY StringsWhere DEF AllStrings, InMemory
<1>3. s.white \in {"w0", "w1"} /\ s.white \in Colors
  BY <1>1 DEF States, Colors
<1>4. /\ c.hash = s.hash /\ c.nuse = s.nuse /\ c.cache = s.cache /\ c.held = s.held /\ c.white = s.white
      /\ c.gcstate = s.gcstate /\ c.str[a] = [text |-> text, color |-> s.white]
      /\ \A o \in AllStrings \ {a} : c.str[o] = s.str[o]
  BY <1>1, <1>2 DEF States, WithNew
<1>5. c \in States
  <2>1. c.str \in [AllStrings -> [text : AllTexts \cup {""}, color : Colors]]
    BY <1>1, <1>2, <1>3 DEF States, WithNew
  <2>2. c = [s EXCEPT !.str = c.str]
    BY <1>1 DEF States, WithNew
  <2>3. QED
    BY <1>1, <2>1, <2>2 DEF States
<1>6. c.str[a].text = text /\ c.str[a].color = s.white
  BY <1>4
<1>7. \A o \in Strings : o \in AllStrings
  BY DEF AllStrings
<1>8. InMemory(c) = InMemory(s) \cup {a}
  <2>1. s.white # "free"
    BY <1>3
  <2>2. QED
    BY <1>4, <1>6, <1>7, <2>1 DEF InMemory
<1>9. TextsKept(c)
  <2>1. c.str[memerrmsg] = s.str[memerrmsg]
    BY <1>2, <1>4 DEF AllStrings
  <2>2. ASSUME NEW o \in Strings PROVE c.str[o] = NoString \/ (c.str[o].text = o[1] /\ c.str[o].color \in {"w0", "w1", "black"})
    <3>1. CASE o = a
      BY <1>3, <1>6, <3>1
    <3>2. CASE o # a
      BY <1>1, <1>4, <1>7, <3>2 DEF TextsKept
    <3>3. QED
      BY <3>1, <3>2
  <2>3. QED
    BY <1>1, <2>1, <2>2 DEF TextsKept
<1>10. Living(c, a)
  <2>1. s.white # "free" /\ s.white # otherw(s.white)
    BY <1>3 DEF otherw
  <2>2. QED
    BY <1>4, <1>6, <2>1 DEF Living, isdead
<1>11. \A o \in AllStrings : Living(s, o) => Living(c, o)
  BY <1>2, <1>4 DEF Living, isdead
<1>12. Alive(c)
  <2>1. s.cache \in [0..(STRCACHE_N - 1) -> [1..STRCACHE_M -> AllStrings]] /\ s.held \subseteq AllStrings
    BY <1>1, <1>7 DEF States
  <2>2. \A o \in s.held : Living(s, o) /\ o \in AllStrings
    BY <1>1, <2>1 DEF Alive
  <2>3. \A o \in c.held : Living(c, o)
    BY <1>4, <1>11, <2>2
  <2>4. ASSUME NEW i \in DOMAIN s.cache, NEW j \in 1..STRCACHE_M PROVE Living(c, s.cache[i][j])
    <3>1. Living(s, s.cache[i][j])
      BY <1>1 DEF Alive
    <3>2. s.cache[i][j] \in AllStrings
      BY <2>1
    <3>3. QED
      BY <1>11, <3>1, <3>2
  <2>5. QED
    BY <1>4, <2>3, <2>4 DEF Alive
<1>13. c.gcstate = "pause" => AllWhite(c)
  BY <1>1, <1>4, <1>6, <1>7, <1>8 DEF AllWhite, InMemory
<1>14. Shorts(c) = Shorts(s) \cup (IF text \in LongTexts THEN {} ELSE {a}) /\ a \notin Shorts(s)
  <2>1. \A o \in InMemory(s) : c.str[o].text = s.str[o].text
    BY <1>4, <1>7 DEF InMemory
  <2>2. QED
    BY <1>2, <1>6, <1>8, <2>1 DEF Shorts
<1>15. \A o \in Shorts(s) : c.str[o].text = s.str[o].text
  <2>1. Shorts(s) \subseteq AllStrings
    BY <1>1, HasText
  <2>2. QED
    BY <1>4, <1>14, <2>1
<1>16. QED
  BY <1>4, <1>5, <1>6, <1>9, <1>10, <1>12, <1>13, <1>14, <1>15

\* A new short string is in the table, if its text is new.
LEMMA LinkKeeps ==
  ASSUME NEW s, StringsInv(s), NEW text \in AllTexts \ LongTexts, NEW a \in Strings \ InMemory(s), a[1] = text,
         \A o \in Shorts(s) : s.str[o].text # text,
         NEW c, c = WithNew(s, text, a)
  PROVE  StringsInv(linked(c, a)) /\ linked(c, a).held = s.held /\ Living(linked(c, a), a)
<1>1. /\ c \in States /\ TextsKept(c) /\ Alive(c) /\ (c.gcstate = "pause" => AllWhite(c))
      /\ c.hash = s.hash /\ c.nuse = s.nuse /\ c.cache = s.cache /\ c.held = s.held
      /\ Living(c, a) /\ c.str[a].text = text
      /\ Shorts(c) = Shorts(s) \cup {a} /\ a \notin Shorts(s)
      /\ \A o \in Shorts(s) : c.str[o].text = s.str[o].text
  <2>1. text \in AllTexts /\ text \notin LongTexts
    OBVIOUS
  <2>2. /\ c \in States /\ TextsKept(c) /\ Alive(c) /\ (c.gcstate = "pause" => AllWhite(c))
        /\ c.hash = s.hash /\ c.nuse = s.nuse /\ c.cache = s.cache /\ c.held = s.held
        /\ Living(c, a) /\ c.str[a].text = text
        /\ Shorts(c) = Shorts(s) \cup (IF text \in LongTexts THEN {} ELSE {a}) /\ a \notin Shorts(s)
        /\ \A o \in Shorts(s) : c.str[o].text = s.str[o].text
    BY <2>1, CreateKeeps
  <2>3. QED
    BY <2>1, <2>2
<1>2. s \in States /\ TextsKept(s) /\ Listed(s) /\ OneEach(s)
  BY DEF StringsInv
<1> DEFINE i == lmod(text, Size(s))
           hash == [s.hash EXCEPT ![i] = @ \cup {a}]
           r == linked(c, a)
<1>3. i \in 0..(Size(s) - 1) /\ Size(s) \in Sizes /\ s.hash \in [0..(Size(s) - 1) -> SUBSET AllStrings]
      /\ \A o \in Shorts(s) : s.str[o].text \in AllTexts
  BY <1>2, TableSize, Modulus, HasText
<1>4. hash \in [0..(Size(s) - 1) -> SUBSET AllStrings]
  BY <1>3 DEF AllStrings
<1>5. r = [c EXCEPT !.hash = hash, !.nuse = s.nuse + 1]
  BY <1>1 DEF linked, Size
<1>6. \A j \in 0..(Size(s) - 1) : \A o : o \in hash[j] <=> o \in s.hash[j] \/ (j = i /\ o = a)
  BY <1>3
<1> HIDE DEF i, hash, r
<1>7. /\ r.str = c.str /\ r.hash = hash /\ r.nuse = s.nuse + 1 /\ r.cache = c.cache
      /\ r.white = c.white /\ r.gcstate = c.gcstate /\ r.held = c.held
  BY <1>1, <1>5 DEF States
<1>8. r \in States
  <2>1. hash \in UNION {[0..(n - 1) -> SUBSET AllStrings] : n \in Sizes} /\ s.nuse + 1 \in Nat
    <3>1. s.nuse \in Nat
      BY <1>2 DEF States
    <3>2. QED
      BY <1>3, <1>4, <3>1
  <2>2. QED
    BY <1>1, <1>5, <2>1 DEF States
<1>9. InMemory(r) = InMemory(c) /\ Shorts(r) = Shorts(s) \cup {a}
  BY <1>1, <1>7 DEF InMemory, Shorts
<1>10. TextsKept(r) /\ Alive(r) /\ Living(r, a) /\ (r.gcstate = "pause" => AllWhite(r))
  BY <1>1, <1>7, <1>9 DEF TextsKept, Alive, Living, isdead, AllWhite
<1>11. OneEach(r)
  BY <1>1, <1>2, <1>7, <1>9 DEF OneEach
<1>12. Size(r) = Size(s) /\ DOMAIN r.hash = 0..(Size(s) - 1)
  BY <1>3, <1>4, <1>7, SizeOf DEF Size
<1>13. Listed(r)
  <2>1. \A j \in 0..(Size(s) - 1) : \A o \in r.hash[j] : o \in Shorts(r) /\ lmod(r.str[o].text, Size(r)) = j
    <3>1. ASSUME NEW j \in 0..(Size(s) - 1), NEW o \in s.hash[j] PROVE o \in Shorts(r) /\ lmod(r.str[o].text, Size(r)) = j
      <4>1. o \in Shorts(s) /\ lmod(s.str[o].text, Size(s)) = j
        BY <1>2, <1>3, <3>1 DEF Listed
      <4>2. QED
        BY <1>1, <1>7, <1>9, <1>12, <4>1
    <3>2. a \in Shorts(r) /\ lmod(r.str[a].text, Size(r)) = i
      BY <1>1, <1>7, <1>9, <1>12 DEF i
    <3>3. QED
      BY <1>6, <1>7, <3>1, <3>2
  <2>2. \A o \in Shorts(r) : o \in r.hash[lmod(r.str[o].text, Size(r))]
    <3>1. ASSUME NEW o \in Shorts(s) PROVE o \in r.hash[lmod(r.str[o].text, Size(r))]
      <4>1. r.str[o].text = s.str[o].text /\ lmod(s.str[o].text, Size(s)) \in 0..(Size(s) - 1)
        BY <1>1, <1>3, <1>7, Modulus
      <4>2. o \in s.hash[lmod(s.str[o].text, Size(s))]
        BY <1>2 DEF Listed
      <4>3. QED
        BY <1>6, <1>7, <1>12, <4>1, <4>2
    <3>2. a \in r.hash[lmod(r.str[a].text, Size(r))]
      BY <1>1, <1>3, <1>6, <1>7, <1>12 DEF i
    <3>3. QED
      BY <1>9, <3>1, <3>2
  <2>3. r.nuse = Cardinality(Shorts(r))
    <3>1. IsFiniteSet(Shorts(s))
      BY <1>2, ShortsFinite
    <3>2. Cardinality(Shorts(s) \cup {a}) = Cardinality(Shorts(s)) + 1
      BY <1>1, <3>1, FS_AddElement
    <3>3. QED
      BY <1>2, <1>7, <1>9, <3>2 DEF Listed
  <2>4. QED
    BY <1>12, <2>1, <2>2, <2>3 DEF Listed
<1>14. QED
  BY <1>1, <1>7, <1>8, <1>10, <1>11, <1>13 DEF StringsInv, r

-----------------------------------------------------------------------------
(* What the operations of lstring.c give.                                  *)

\* A result: the state and a string that is alive, or none.
Fine(s, r) == StringsInv(r.g) /\ r.g.held = s.held /\ (r.ts = NOTS \/ (r.ts \in AllStrings /\ Living(r.g, r.ts)))

\* A new long string is a right result (luaS_createlngstrobj).
LEMMA CreatedFine ==
  ASSUME NEW s, StringsInv(s), NEW text \in AllTexts \ LongTexts, \A o \in Shorts(s) : s.str[o].text # text
  PROVE  Fine(s, created(s, text))
<1> DEFINE a == Address(s, text)
           c == createstrobj(s, text)
<1>1. CASE RoomFor(s, text)
  <2>1. a \in Strings \ InMemory(s) /\ a[1] = text /\ c = WithNew(s, text, a)
    BY <1>1, AddressRight DEF RoomFor, createstrobj, WithNew
  <2>2. created(s, text) = [g |-> linked(c, a), ts |-> a]
    BY <1>1 DEF created
  <2> HIDE DEF a, c
  <2>3. StringsInv(linked(c, a)) /\ linked(c, a).held = s.held /\ Living(linked(c, a), a)
    BY <2>1, LinkKeeps
  <2>4. QED
    BY <2>1, <2>2, <2>3 DEF Fine, AllStrings
<1>2. CASE ~RoomFor(s, text)
  BY <1>2 DEF created, Fine
<1>3. QED
  BY <1>1, <1>2

\* A new short string is a right result (the end of internshrstr).
LEMMA CreateShortFine ==
  ASSUME NEW s, StringsInv(s), NEW text \in AllTexts \ LongTexts, \A o \in Shorts(s) : s.str[o].text # text,
         NEW create
  PROVE  Fine(s, createshrstr(s, text, create))
<1> DEFINE r == Allocated(s, create)
<1>1. /\ StringsInv(r) /\ r.held = s.held /\ Shorts(r) \subseteq Shorts(s)
      /\ \A o \in Shorts(r) : r.str[o].text = s.str[o].text
  BY AllocatedKeeps
<1>2. createshrstr(s, text, create) = IF create = "failed" THEN [g |-> r, ts |-> NOTS] ELSE created(r, text)
  BY DEF createshrstr
<1> HIDE DEF r
<1>3. \A o \in Shorts(r) : r.str[o].text # text
  BY <1>1
<1>4. Fine(r, created(r, text))
  BY <1>1, <1>3, CreatedFine
<1>5. QED
  BY <1>1, <1>2, <1>4 DEF Fine

\* A short string that is in the table is given, and brought back to life when it was dead.
LEMMA FoundFine ==
  ASSUME NEW s, StringsInv(s), NEW o \in Shorts(s)
  PROVE  Fine(s, [g |-> found(s, o), ts |-> o])
<1>1. s \in States /\ TextsKept(s) /\ Listed(s) /\ OneEach(s) /\ Alive(s) /\ (s.gcstate = "pause" => AllWhite(s))
  BY DEF StringsInv
<1>2. /\ o \in AllStrings /\ \A x \in InMemory(s) : x \in Strings
      /\ s.str[o].color # "free" /\ Shorts(s) \subseteq AllStrings
  <2>1. s.str[memerrmsg].color # "free"
    BY <1>1 DEF TextsKept
  <2>2. QED
    BY <1>1, <2>1, HasText DEF Shorts, InMemory
<1>3. CASE ~isdead(s, o)
  BY <1>1, <1>2, <1>3 DEF Fine, found, Living
<1>4. CASE isdead(s, o)
  <2> DEFINE r == [s EXCEPT !.str[o].color = s.white]
             e == [s.str[o] EXCEPT !.color = s.white]
  <2>1. o # memerrmsg /\ o \in Strings
    <3>1. s.str[memerrmsg].color = "gray" /\ otherw(s.white) # "gray"
      BY <1>1, Dead DEF TextsKept
    <3>2. o # memerrmsg
      BY <1>4, <3>1 DEF isdead
    <3>3. QED
      BY <3>2 DEF Shorts, InMemory
  <2>2. s.str[o] \in [text : AllTexts \cup {""}, color : Colors] /\ s.white \in {"w0", "w1"} /\ s.white \in Colors
    BY <1>1, <1>2 DEF States, Colors
  <2>3. e \in [text : AllTexts \cup {""}, color : Colors] /\ e.text = s.str[o].text /\ e.color = s.white
    BY <2>2
  <2>4. r = [s EXCEPT !.str = [s.str EXCEPT ![o] = e]] /\ [s.str EXCEPT ![o] = e] \in [AllStrings -> [text : AllTexts \cup {""}, color : Colors]]
    BY <1>1, <1>2, <2>3 DEF States
  <2>5. r \in States
    BY <1>1, <2>4 DEF States
  <2>6. /\ r.hash = s.hash /\ r.nuse = s.nuse /\ r.cache = s.cache /\ r.white = s.white
        /\ r.gcstate = s.gcstate /\ r.held = s.held
        /\ r.str[o] = e /\ \A x \in AllStrings \ {o} : r.str[x] = s.str[x]
    BY <1>1, <1>2, <2>4 DEF States
  <2>7. found(s, o) = r
    BY <1>4 DEF found
  <2> HIDE DEF r, e
  <2>8. r.str[o].text = s.str[o].text /\ r.str[o].color = s.white
    BY <2>3, <2>6
  <2>9. \A x \in AllStrings : r.str[x].text = s.str[x].text /\ (r.str[x].color = "free" <=> s.str[x].color = "free")
    BY <1>2, <2>2, <2>6, <2>8
  <2>10. InMemory(r) = InMemory(s) /\ Shorts(r) = Shorts(s)
    <3>1. \A x \in Strings : x \in AllStrings
      BY DEF AllStrings
    <3>2. InMemory(r) = InMemory(s)
      BY <2>9, <3>1 DEF InMemory
    <3>3. QED
      BY <1>2, <2>9, <3>1, <3>2 DEF Shorts
  <2>11. TextsKept(r)
    <3>1. r.str[memerrmsg] = s.str[memerrmsg]
      BY <2>1, <2>6 DEF AllStrings
    <3>2. ASSUME NEW x \in Strings PROVE r.str[x] = NoString \/ (r.str[x].text = x[1] /\ r.str[x].color \in {"w0", "w1", "black"})
      <4>1. x \in AllStrings
        BY DEF AllStrings
      <4>2. o \in InMemory(s)
        BY <1>2, <2>1 DEF InMemory
      <4>3. s.str[o].text = o[1]
        BY <1>1, <4>2, HasText
      <4>4. CASE x = o
        BY <2>2, <2>8, <4>3, <4>4
      <4>5. CASE x # o
        BY <1>1, <2>6, <4>1, <4>5 DEF TextsKept
      <4>6. QED
        BY <4>4, <4>5
    <3>3. QED
      BY <1>1, <3>1, <3>2 DEF TextsKept
  <2>12. OneEach(r) /\ Listed(r)
    BY <1>1, <1>2, <2>6, <2>9, <2>10 DEF OneEach, Listed, Size
  <2>13. Living(r, o)
    <3>1. s.white # otherw(s.white) /\ s.white # "free"
      BY <2>2 DEF otherw
    <3>2. QED
      BY <2>6, <2>8, <3>1 DEF Living, isdead
  <2>14. \A x \in AllStrings : Living(s, x) => Living(r, x)
    BY <2>6, <2>13 DEF Living, isdead
  <2>15. Alive(r)
    <3>1. s.cache \in [0..(STRCACHE_N - 1) -> [1..STRCACHE_M -> AllStrings]] /\ s.held \subseteq AllStrings
      BY <1>1 DEF States, AllStrings
    <3>2. QED
      BY <1>1, <2>6, <2>14, <3>1 DEF Alive
  <2>16. r.gcstate = "pause" => AllWhite(r)
    <3>1. \A x \in InMemory(s) : x \in AllStrings
      BY <1>2 DEF AllStrings
    <3>2. QED
      BY <1>1, <2>6, <2>8, <2>10, <3>1 DEF AllWhite
  <2>17. QED
    BY <1>2, <2>5, <2>6, <2>7, <2>11, <2>12, <2>13, <2>15, <2>16 DEF Fine, StringsInv
<1>5. QED
  BY <1>3, <1>4

\* internshrstr gives the string of the text that is in the table, or a new one.
LEMMA InternFine ==
  ASSUME NEW s, StringsInv(s), NEW text \in AllTexts \ LongTexts, NEW resize, NEW create
  PROVE  Fine(s, internshrstr(s, text, resize, create))
<1> DEFINE size == Cardinality(DOMAIN s.hash)
           hits == {o \in Strings \cup {memerrmsg} : s.str[o].text = text /\ o \in s.hash[lmod(text, size)]}
           o == CHOOSE o \in hits : TRUE
           a == Allocated(s, resize)
           b == luaS_resize(a, size * 2)
<1>1. s \in States /\ TextsKept(s) /\ Listed(s)
  BY DEF StringsInv
<1>2. size = Size(s) /\ size \in Sizes /\ DOMAIN s.hash = 0..(size - 1) /\ lmod(text, size) \in 0..(size - 1)
  BY <1>1, TableSize, Modulus DEF Size
<1>3. internshrstr(s, text, resize, create) =
        IF hits # {} THEN [g |-> found(s, o), ts |-> o]
        ELSE IF s.nuse < size THEN createshrstr(s, text, create)
        ELSE IF resize = "failed" THEN [g |-> a, ts |-> NOTS]
        ELSE createshrstr(b, text, create)
  BY DEF internshrstr
<1> HIDE DEF size
<1>4. CASE hits # {}
  <2>1. o \in hits
    BY <1>4
  <2>2. o \in Shorts(s)
    BY <1>1, <1>2, <2>1 DEF Listed
  <2> HIDE DEF hits, o
  <2>3. QED
    BY <1>3, <1>4, <2>2, FoundFine
<1>5. CASE hits = {}
  <2>1. \A x \in Shorts(s) : s.str[x].text # text
    <3>1. Shorts(s) \subseteq Strings \cup {memerrmsg}
      BY <1>1, HasText DEF AllStrings
    <3>2. QED
      BY <1>1, <1>2, <1>5, <3>1 DEF Listed
  <2> HIDE DEF hits, o
  <2>2. Fine(s, createshrstr(s, text, create))
    BY <2>1, CreateShortFine
  <2>3. /\ StringsInv(a) /\ a.held = s.held /\ Shorts(a) \subseteq Shorts(s)
        /\ \A x \in Shorts(a) : a.str[x].text = s.str[x].text
    BY AllocatedKeeps
  <2>4. Fine(s, [g |-> a, ts |-> NOTS])
    BY <2>3 DEF Fine
  <2> HIDE DEF a
  <2>5. size * 2 \in Sizes
    BY <1>2 DEF Sizes
  <2>6. StringsInv(b) /\ Shorts(b) = Shorts(a) /\ b.str = a.str /\ b.held = a.held
    BY <2>3, <2>5, ResizeKeeps
  <2> HIDE DEF b
  <2>7. \A x \in Shorts(b) : b.str[x].text # text
    BY <2>1, <2>3, <2>6
  <2>8. Fine(b, createshrstr(b, text, create))
    BY <2>6, <2>7, CreateShortFine
  <2>9. Fine(s, createshrstr(b, text, create))
    BY <2>3, <2>6, <2>8 DEF Fine
  <2>10. QED
    BY <1>3, <1>5, <2>2, <2>4, <2>9
<1>6. QED
  BY <1>4, <1>5

\* luaS_newlstr gives a string that is alive, whatever its length.
LEMMA NewlstrFine ==
  ASSUME NEW s, StringsInv(s), NEW text \in AllTexts, NEW resize, NEW create
  PROVE  Fine(s, luaS_newlstr(s, text, resize, create))
<1> DEFINE ready == Allocated(s, create)
           a == Address(ready, text)
           c == createstrobj(ready, text)
<1>1. luaS_newlstr(s, text, resize, create) =
        IF text \notin LongTexts THEN internshrstr(s, text, resize, create)
        ELSE IF create = "failed" \/ ~RoomFor(ready, text) THEN [g |-> ready, ts |-> NOTS]
        ELSE [g |-> c, ts |-> a]
  BY DEF luaS_newlstr
<1>2. CASE text \notin LongTexts
  BY <1>1, <1>2, InternFine
<1>3. StringsInv(ready) /\ ready.held = s.held
  BY AllocatedKeeps
<1>4. CASE text \in LongTexts /\ (create = "failed" \/ ~RoomFor(ready, text))
  <2> HIDE DEF ready
  <2>1. QED
    BY <1>1, <1>3, <1>4 DEF Fine
<1>5. CASE text \in LongTexts /\ create # "failed" /\ RoomFor(ready, text)
  <2>1. luaS_newlstr(s, text, resize, create) = [g |-> c, ts |-> a]
    BY <1>1, <1>5
  <2> HIDE DEF ready
  <2>2. a \in Strings \ InMemory(ready) /\ a[1] = text /\ c = WithNew(ready, text, a)
    BY <1>5, AddressRight DEF RoomFor, createstrobj, WithNew
  <2> HIDE DEF a, c
  <2>3. /\ c \in States /\ TextsKept(c) /\ Alive(c) /\ (c.gcstate = "pause" => AllWhite(c))
        /\ c.hash = ready.hash /\ c.nuse = ready.nuse /\ c.cache = ready.cache /\ c.held = ready.held
        /\ Living(c, a) /\ c.str[a].text = text
        /\ Shorts(c) = Shorts(ready) \cup (IF text \in LongTexts THEN {} ELSE {a}) /\ a \notin Shorts(ready)
        /\ \A x \in Shorts(ready) : c.str[x].text = ready.str[x].text
    BY <1>3, <2>2, CreateKeeps
  <2>4. Shorts(c) = Shorts(ready)
    BY <1>5, <2>3
  <2>5. OneEach(c) /\ Listed(c)
    <3>1. OneEach(ready) /\ Listed(ready)
      BY <1>3 DEF StringsInv
    <3>2. QED
      BY <2>3, <2>4, <3>1 DEF OneEach, Listed, Size
  <2>6. QED
    BY <1>3, <2>1, <2>2, <2>3, <2>5 DEF Fine, StringsInv, AllStrings
<1>6. QED
  BY <1>2, <1>4, <1>5

\* A cache whose entries are alive keeps the invariant.
LEMMA CacheKeeps ==
  ASSUME NEW s, StringsInv(s), NEW cache \in [0..(STRCACHE_N - 1) -> [1..STRCACHE_M -> AllStrings]],
         \A i \in 0..(STRCACHE_N - 1), j \in 1..STRCACHE_M : Living(s, cache[i][j])
  PROVE  StringsInv([s EXCEPT !.cache = cache]) /\ [s EXCEPT !.cache = cache].held = s.held
         /\ \A o : Living(s, o) => Living([s EXCEPT !.cache = cache], o)
<1> DEFINE r == [s EXCEPT !.cache = cache]
<1>1. s \in States /\ TextsKept(s) /\ Listed(s) /\ OneEach(s) /\ Alive(s) /\ (s.gcstate = "pause" => AllWhite(s))
  BY DEF StringsInv
<1>2. /\ r \in States /\ r.hash = s.hash /\ r.str = s.str /\ r.nuse = s.nuse /\ r.cache = cache
      /\ r.white = s.white /\ r.gcstate = s.gcstate /\ r.held = s.held
  BY <1>1 DEF States
<1> HIDE DEF r
<1>3. InMemory(r) = InMemory(s) /\ Shorts(r) = Shorts(s) /\ \A o : Living(r, o) <=> Living(s, o)
  BY <1>2 DEF InMemory, Shorts, Living, isdead
<1>4. TextsKept(r) /\ OneEach(r) /\ Listed(r) /\ (r.gcstate = "pause" => AllWhite(r))
  BY <1>1, <1>2, <1>3 DEF TextsKept, OneEach, Listed, Size, AllWhite
<1>5. Alive(r)
  BY <1>1, <1>2, <1>3 DEF Alive
<1>6. QED
  BY <1>2, <1>3, <1>4, <1>5 DEF StringsInv, r

\* luaS_new gives a string that is alive, from the cache or a new one.
LEMMA NewFine ==
  ASSUME NEW s, StringsInv(s), NEW text \in AllTexts, NEW row \in 0..(STRCACHE_N - 1), NEW resize, NEW create
  PROVE  Fine(s, luaS_new(s, text, row, resize, create))
<1> DEFINE hits == {j \in 1..STRCACHE_M : s.str[s.cache[row][j]].text = text}
           hit  == CHOOSE j \in hits : \A x \in hits : j <= x
           mrow == [j \in 1..STRCACHE_M |-> IF j = 1 THEN s.cache[row][1] ELSE s.cache[row][j - 1]]
           mcache == [s.cache EXCEPT ![row] = mrow]
           moved == [s EXCEPT !.cache = mcache]
           new == luaS_newlstr(moved, text, resize, create)
           ncache == [new.g.cache EXCEPT ![row][1] = new.ts]
<1>1. s \in States /\ Alive(s) /\ STRCACHE_M \in Nat \ {0}
  BY StringsAssumption DEF StringsInv
<1>2. s.cache \in [0..(STRCACHE_N - 1) -> [1..STRCACHE_M -> AllStrings]]
  BY <1>1 DEF States
<1>3. luaS_new(s, text, row, resize, create) =
        IF hits # {} THEN [g |-> s, ts |-> s.cache[row][hit]]
        ELSE IF new.ts = NOTS THEN new
        ELSE [g |-> [new.g EXCEPT !.cache = ncache], ts |-> new.ts]
  BY <1>1, <1>2 DEF luaS_new, States
<1>4. CASE hits # {}
  <2>1. hit \in hits
    <3>1. hits \in SUBSET Nat
      OBVIOUS
    <3> HIDE DEF hits
    <3>2. QED
      BY <1>4, <3>1, Least
  <2>2. hit \in 1..STRCACHE_M
    BY <2>1
  <2> HIDE DEF hits, hit
  <2>3. s.cache[row][hit] \in AllStrings /\ Living(s, s.cache[row][hit])
    BY <1>1, <1>2, <2>2 DEF Alive
  <2>4. QED
    BY <1>3, <1>4, <2>3 DEF Fine
<1>5. CASE hits = {}
  <2>1. mrow \in [1..STRCACHE_M -> AllStrings] /\ \A j \in 1..STRCACHE_M : \E k \in 1..STRCACHE_M : mrow[j] = s.cache[row][k]
    <3>1. ASSUME NEW j \in 1..STRCACHE_M PROVE \E k \in 1..STRCACHE_M : mrow[j] = s.cache[row][k]
      <4>1. CASE j = 1
        BY <4>1
      <4>2. CASE j # 1
        <5>1. j - 1 \in 1..STRCACHE_M /\ mrow[j] = s.cache[row][j - 1]
          BY <1>1, <4>2
        <5>2. QED
          BY <5>1
      <4>3. QED
        BY <4>1, <4>2
    <3>2. DOMAIN mrow = 1..STRCACHE_M /\ mrow = [j \in 1..STRCACHE_M |-> mrow[j]]
      OBVIOUS
    <3>3. \A k \in 1..STRCACHE_M : s.cache[row][k] \in AllStrings
      BY <1>2
    <3> HIDE DEF mrow
    <3>4. QED
      BY <3>1, <3>2, <3>3
  <2>2. mcache \in [0..(STRCACHE_N - 1) -> [1..STRCACHE_M -> AllStrings]]
    BY <1>2, <2>1
  <2>3. \A i \in 0..(STRCACHE_N - 1), j \in 1..STRCACHE_M : Living(s, mcache[i][j])
    BY <1>1, <1>2, <2>1 DEF Alive
  <2> HIDE DEF mcache, mrow, hits, hit
  <2>4. StringsInv(moved) /\ moved.held = s.held
    BY <2>2, <2>3, CacheKeeps
  <2> HIDE DEF moved
  <2>5. Fine(moved, new)
    BY <2>4, NewlstrFine
  <2> HIDE DEF new
  <2>6. CASE new.ts = NOTS
    BY <1>3, <1>5, <2>4, <2>5, <2>6 DEF Fine
  <2>7. CASE new.ts # NOTS
    <3>1. StringsInv(new.g) /\ new.g.held = s.held /\ new.ts \in AllStrings /\ Living(new.g, new.ts)
      BY <2>4, <2>5, <2>7 DEF Fine
    <3>2. new.g.cache \in [0..(STRCACHE_N - 1) -> [1..STRCACHE_M -> AllStrings]] /\ Alive(new.g)
      BY <3>1 DEF StringsInv, States
    <3>3. ncache \in [0..(STRCACHE_N - 1) -> [1..STRCACHE_M -> AllStrings]]
      BY <1>1, <3>1, <3>2
    <3>4. \A i \in 0..(STRCACHE_N - 1), j \in 1..STRCACHE_M : Living(new.g, ncache[i][j])
      BY <1>1, <3>1, <3>2 DEF Alive
    <3> HIDE DEF ncache
    <3> DEFINE r == [new.g EXCEPT !.cache = ncache]
    <3>5. StringsInv(r) /\ r.held = new.g.held /\ Living(r, new.ts)
      BY <3>1, <3>3, <3>4, CacheKeeps
    <3>6. luaS_new(s, text, row, resize, create) = [g |-> r, ts |-> new.ts]
      BY <1>3, <1>5, <2>7
    <3> HIDE DEF r
    <3>7. QED
      BY <3>1, <3>5, <3>6 DEF Fine
  <2>8. QED
    BY <2>6, <2>7
<1>6. QED
  BY <1>4, <1>5

\* What is held changes, and is alive.
LEMMA HeldKeeps ==
  ASSUME NEW s, StringsInv(s), NEW held \in SUBSET Strings, \A o \in held : Living(s, o)
  PROVE  StringsInv([s EXCEPT !.held = held])
<1> DEFINE r == [s EXCEPT !.held = held]
<1>1. s \in States /\ TextsKept(s) /\ Listed(s) /\ OneEach(s) /\ Alive(s) /\ (s.gcstate = "pause" => AllWhite(s))
  BY DEF StringsInv
<1>2. /\ r \in States /\ r.hash = s.hash /\ r.str = s.str /\ r.nuse = s.nuse /\ r.cache = s.cache
      /\ r.white = s.white /\ r.gcstate = s.gcstate /\ r.held = held
  BY <1>1 DEF States
<1> HIDE DEF r
<1>3. InMemory(r) = InMemory(s) /\ Shorts(r) = Shorts(s) /\ \A o : Living(r, o) <=> Living(s, o)
  BY <1>2 DEF InMemory, Shorts, Living, isdead
<1>4. TextsKept(r) /\ OneEach(r) /\ Listed(r) /\ (r.gcstate = "pause" => AllWhite(r))
  BY <1>1, <1>2, <1>3 DEF TextsKept, OneEach, Listed, Size, AllWhite
<1>5. Alive(r)
  BY <1>1, <1>2, <1>3 DEF Alive
<1>6. QED
  BY <1>2, <1>4, <1>5 DEF StringsInv, r

\* A right result may be held.
LEMMA PushedKeeps ==
  ASSUME NEW s, NEW r, Fine(s, r)
  PROVE  StringsInv(Pushed(r))
<1>1. CASE r.ts \in Strings
  <2>1. StringsInv(r.g) /\ Living(r.g, r.ts)
    BY <1>1, StringsWhere DEF Fine
  <2>2. r.g \in States /\ Alive(r.g)
    BY <2>1 DEF StringsInv
  <2>3. r.g.held \cup {r.ts} \in SUBSET Strings /\ \A o \in r.g.held \cup {r.ts} : Living(r.g, o)
    BY <1>1, <2>1, <2>2 DEF Alive, States
  <2>4. Pushed(r) = [r.g EXCEPT !.held = r.g.held \cup {r.ts}]
    BY <1>1, <2>2 DEF Pushed, States
  <2>5. QED
    BY <2>1, <2>3, <2>4, HeldKeeps
<1>2. CASE r.ts \notin Strings
  BY <1>2 DEF Pushed, Fine
<1>3. QED
  BY <1>1, <1>2

-----------------------------------------------------------------------------
\* Every step keeps the invariant.
LEMMA StringsStep == StringsInv(g) /\ [StringsNext]_g => StringsInv(g')
<1> SUFFICES ASSUME StringsInv(g), [StringsNext]_g PROVE StringsInv(g')
  OBVIOUS
<1>1. g \in States /\ Alive(g)
  BY DEF StringsInv
<1>2. CASE lua_pushlstring
  <2>1. PICK text \in ShortTexts \cup LongTexts, o \in Outcomes : g' = Pushed(luaS_newlstr(g, text, o[1], o[2]))
    BY <1>2 DEF lua_pushlstring
  <2>2. text \in AllTexts
    BY DEF AllTexts
  <2>3. QED
    BY <2>1, <2>2, NewlstrFine, PushedKeeps
<1>3. CASE lua_pushstring
  <2>1. PICK text \in CTexts, row \in 0..(STRCACHE_N - 1), o \in Outcomes :
          g' = Pushed(luaS_new(g, text, row, o[1], o[2]))
    BY <1>3 DEF lua_pushstring
  <2>2. text \in AllTexts
    BY StringsAssumption
  <2>3. QED
    BY <2>1, <2>2, NewFine, PushedKeeps
<1>4. CASE lua_pop
  <2>1. PICK o \in g.held : g' = [g EXCEPT !.held = @ \ {o}]
    BY <1>4 DEF lua_pop
  <2>2. g' = [g EXCEPT !.held = g.held \ {o}] /\ g.held \ {o} \in SUBSET Strings
        /\ \A x \in g.held \ {o} : Living(g, x)
    BY <1>1, <2>1 DEF States, Alive
  <2>3. QED
    BY <2>2, HeldKeeps
<1>5. CASE GCSatomic
  <2>1. PICK dropped \in SUBSET (InMemory(g) \ g.held) : g' = atomic(g, g.held \cup dropped)
    BY <1>5 DEF GCSatomic
  <2>2. AllWhite(g)
    BY <1>5 DEF GCSatomic, StringsInv
  <2>3. g.held \cup dropped \in SUBSET InMemory(g) /\ g.held \subseteq g.held \cup dropped
    BY HeldInMemory
  <2>4. QED
    BY <2>1, <2>2, <2>3, AtomicKeeps
<1>6. CASE sweepstep
  <2>1. PICK o \in InMemory(g) : g' = swept(g, {o})
    BY <1>6 DEF sweepstep
  <2>2. {o} \in SUBSET InMemory(g)
    OBVIOUS
  <2>3. QED
    BY <2>1, <2>2, SweptKeeps
<1>7. CASE GCSswpend
  <2> DEFINE c == checkSizes(g)
  <2>1. AllWhite(g) /\ g' = [c EXCEPT !.gcstate = "pause"]
    BY <1>7 DEF GCSswpend, AllWhite
  <2>2. /\ StringsInv(c) /\ InMemory(c) = InMemory(g) /\ c.str = g.str /\ c.white = g.white
    <3>1. Size(g) \in Sizes /\ g.nuse \in Nat
      BY <1>1, TableSize DEF States
    <3>2. g.nuse < Size(g) \div 4 => Size(g) \div 2 \in Sizes
      BY <3>1 DEF Sizes
    <3>3. c = IF g.nuse < Size(g) \div 4 THEN luaS_resize(g, Size(g) \div 2) ELSE g
      BY DEF checkSizes, Size
    <3>4. QED
      BY <3>2, <3>3, ResizeKeeps DEF InMemory
  <2> HIDE DEF c
  <2>3. AllWhite(c)
    BY <2>1, <2>2 DEF AllWhite
  <2>4. c \in States
    BY <2>2 DEF StringsInv
  <2>5. /\ g' \in States /\ g'.str = c.str /\ g'.hash = c.hash /\ g'.nuse = c.nuse /\ g'.cache = c.cache
        /\ g'.white = c.white /\ g'.held = c.held /\ g'.gcstate = "pause"
    BY <2>1, <2>4 DEF States
  <2>6. InMemory(g') = InMemory(c) /\ Shorts(g') = Shorts(c)
    BY <2>5 DEF InMemory, Shorts
  <2>7. QED
    BY <2>2, <2>3, <2>5, <2>6 DEF StringsInv, TextsKept, OneEach, Listed, Size, Alive, Living, isdead, AllWhite
<1>8. CASE UNCHANGED g
  BY <1>8
<1>9. QED
  BY <1>2, <1>3, <1>4, <1>5, <1>6, <1>7, <1>8 DEF StringsNext

\* The invariant holds in a new state (luaS_init).
LEMMA StringsStart == StringsInit => StringsInv(g)
<1> SUFFICES ASSUME StringsInit PROVE StringsInv(g)
  OBVIOUS
<1> DEFINE i == lmod(MEMERRMSG, MINSTRTABSIZE)
<1>1. /\ MINSTRTABSIZE \in Sizes /\ MEMERRMSG \in AllTexts /\ memerrmsg \in AllStrings /\ memerrmsg \notin Strings
  BY StringsAssumption, StringsWhere DEF Sizes, AllTexts, AllStrings
<1>2. i \in 0..(MINSTRTABSIZE - 1)
  BY <1>1, Modulus
<1> HIDE DEF i
<1>3. /\ g.str = [o \in AllStrings |-> IF o = memerrmsg THEN [text |-> MEMERRMSG, color |-> "gray"] ELSE NoString]
      /\ g.hash = [j \in 0..(MINSTRTABSIZE - 1) |-> IF j = i THEN {memerrmsg} ELSE {}]
      /\ g.nuse = 1 /\ g.cache = [k \in 0..(STRCACHE_N - 1) |-> [j \in 1..STRCACHE_M |-> memerrmsg]]
      /\ g.white = "w0" /\ g.gcstate = "pause" /\ g.held = {}
      /\ g = [str |-> g.str, hash |-> g.hash, nuse |-> g.nuse, cache |-> g.cache, white |-> g.white,
              gcstate |-> g.gcstate, held |-> g.held]
  BY <1>2 DEF StringsInit, AllStrings, i
<1>4. NoString \in [text : AllTexts \cup {""}, color : Colors] /\ NoString.color = "free"
      /\ [text |-> MEMERRMSG, color |-> "gray"] \in [text : AllTexts \cup {""}, color : Colors]
  BY <1>1 DEF NoString, Colors
<1>5. g \in States
  <2>1. g.str \in [AllStrings -> [text : AllTexts \cup {""}, color : Colors]]
    BY <1>3, <1>4
  <2>2. g.hash \in [0..(MINSTRTABSIZE - 1) -> SUBSET AllStrings]
    BY <1>1, <1>3
  <2>3. g.cache \in [0..(STRCACHE_N - 1) -> [1..STRCACHE_M -> AllStrings]]
    BY <1>1, <1>3
  <2>4. g.hash \in UNION {[0..(n - 1) -> SUBSET AllStrings] : n \in Sizes} /\ 1 \in Nat /\ {} \in SUBSET Strings
    BY <1>1, <2>2
  <2>5. QED
    BY <1>3, <2>1, <2>3, <2>4 DEF States
<1>6. \A o \in Strings : o \in AllStrings /\ g.str[o] = NoString
  BY <1>1, <1>3 DEF AllStrings
<1>7. InMemory(g) = {} /\ Shorts(g) = {memerrmsg} /\ Cardinality(Shorts(g)) = 1
  <2>1. InMemory(g) = {}
    BY <1>4, <1>6 DEF InMemory
  <2>2. QED
    BY <2>1, FS_Singleton DEF Shorts
<1>8. g.str[memerrmsg] = [text |-> MEMERRMSG, color |-> "gray"]
  BY <1>1, <1>3
<1>9. Size(g) = MINSTRTABSIZE /\ DOMAIN g.hash = 0..(MINSTRTABSIZE - 1)
  <2>1. g.hash \in [0..(MINSTRTABSIZE - 1) -> SUBSET AllStrings]
    BY <1>1, <1>3
  <2>2. QED
    BY <1>1, <2>1, SizeOf DEF Size
<1>10. TextsKept(g) /\ OneEach(g) /\ AllWhite(g)
  BY <1>6, <1>7, <1>8 DEF TextsKept, OneEach, AllWhite
<1>11. g.str[memerrmsg].text = MEMERRMSG /\ g.str[memerrmsg].color = "gray"
  BY <1>8
<1>12. Listed(g)
  <2>1. \A j \in 0..(MINSTRTABSIZE - 1) : \A o \in g.hash[j] : j = i /\ o = memerrmsg
    BY <1>3
  <2>2. memerrmsg \in g.hash[i]
    BY <1>2, <1>3
  <2>3. lmod(g.str[memerrmsg].text, Size(g)) = i
    BY <1>9, <1>11 DEF i
  <2>4. QED
    BY <1>3, <1>7, <1>9, <2>1, <2>2, <2>3 DEF Listed
<1>13. Alive(g)
  <2>1. Living(g, memerrmsg)
    BY <1>3, <1>11 DEF Living, isdead, otherw
  <2>2. QED
    BY <1>3, <2>1 DEF Alive
<1>14. QED
  BY <1>5, <1>10, <1>12, <1>13 DEF StringsInv

\* The invariant is more than what is promised.
LEMMA StringsUse == StringsInv(g) => StringsRight
<1> SUFFICES ASSUME StringsInv(g) PROVE StringsRight
  OBVIOUS
<1>1. g \in States /\ TextsKept(g) /\ OneEach(g) /\ Listed(g) /\ Alive(g)
  BY DEF StringsInv
<1>2. \A o \in Shorts(g) : lmod(g.str[o].text, Size(g)) \in DOMAIN g.hash
  BY <1>1, TableSize, HasText, Modulus
<1>3. UNION {g.hash[i] : i \in DOMAIN g.hash} = Shorts(g)
  BY <1>1, <1>2 DEF Listed
<1>4. Interned
  BY <1>1, <1>3 DEF Interned, OneEach, Listed, Shorts, Size
<1>5. StringsAlive
  BY <1>1 DEF StringsAlive, Alive, Living
<1>6. QED
  BY <1>4, <1>5 DEF StringsRight

\* Two short strings of one text are one object, the table lists the living ones, each
\* in the list of its hash, and the cache holds no dead string (lstring.c, lgc.c).
THEOREM StringsAreRight == StringsSpec => []StringsRight
<1>1. StringsInit => StringsInv(g)
  BY StringsStart
<1>2. StringsInv(g) /\ [StringsNext]_g => StringsInv(g)'
  BY StringsStep
<1>3. StringsInv(g) => StringsRight
  BY StringsUse
<1>4. QED
  BY <1>1, <1>2, <1>3, PTL DEF StringsSpec
=============================================================================
