--------------------------- MODULE UpvaluesProofs ---------------------------
(***************************************************************************)
(* Upvalues: the lists of open upvalues are sorted, the reference counts   *)
(* exact and the list twups complete, and nothing alive refers to memory   *)
(* that is free or will be, for any threads, closures and stacks.  And     *)
(* Upvalues implements SharedVars: every step of the program is one of the *)
(* abstract steps or none, and so is every step of the collector.          *)
(***************************************************************************)
EXTENDS Upvalues, FiniteSetTheorems, SequenceTheorems, TLAPS


Level(u) == v[u][2]

\* What was freed has nothing.
FreeInv ==
  /\ \A c \in Closures : color[c] = "free" => uv[c] = None
  /\ \A t \in Threads : color[t] = "free" => stack[t] = <<>> /\ openupval[t] = <<>>

\* The stacks are in their bounds.
Fits == \A t \in Threads : Top(t) <= MaxLevel[t]

\* The structure of upvalues, whatever the colors of what is not free.
ListsInv == TypeOK /\ Fits /\ OpenListSorted
UpvalInv == ListsInv /\ RefcountsRight /\ FreeInv

\* The colors in each phase.
PhaseInv ==
  /\ color[Main] \notin {"free", "dead"}
  /\ gcstate # "sweep" => \A o \in Objs : color[o] # "dead"
  /\ gcstate = "pause" => \A o \in Objs : color[o] \in {"free", "white"}
  /\ gcstate = "sweep" => /\ \A o \in Heap \ unswept : color[o] \in {"free", "white"}
                          /\ unswept \subseteq Allocated
  /\ apc # "remark" => todo = {}

Marking == gcstate \in {"propagate", "atomic", "insideatomic"}

\* What was marked is to be visited, or was.
Linked ==
  /\ Main \notin White /\ (gcstate = "insideatomic" => running \notin White)
  /\ \A o \in gray \cup grayagain : color[o] = "gray"
  /\ \A c \in Closures : color[c] = "gray" => c \in gray
  /\ \A t \in Threads : color[t] = "gray" =>
       \/ t \in gray
       \/ apc # "again" /\ t \in grayagain
       \/ apc = "again" /\ ToSet(stack[t]) \cap White = {}

\* The value a closure refers to is marked, or it will be: with a thread's stack, or
\* because remarkupvals finds the upvalue touched.
Done(c) ==
  LET u == uv[c] IN
  \/ (~upisopen(u) \/ gcstate = "insideatomic") /\ Read(u) \notin White
  \/ upisopen(u) /\ gcstate # "insideatomic" /\ touched[u]
  \/ upisopen(u) /\ gcstate = "insideatomic" /\ color[v[u][1]] = "gray"
  \/ upisopen(u) /\ gcstate = "insideatomic" /\ v[u][1] \in todo /\ touched[u]

\* The list twups: in the atomic phase it is missing the threads to be visited.
TwupsInv ==
  /\ twups \subseteq Alive
  /\ Runs => \A t \in Threads \cap Alive : openupval[t] # <<>> => t \in twups
  /\ ~Runs => /\ \A t \in twups \ todo : color[t] = "gray"
              /\ \A t \in Threads : color[t] = "gray" /\ openupval[t] # <<>> => t \in twups \cup gray

MarkInv == Marking => Linked /\ \A c \in Closures : color[c] = "black" => Done(c)

SafeInv == UpvalInv /\ NoDangling /\ PhaseInv /\ TwupsInv /\ MarkInv

-----------------------------------------------------------------------------
(* The list of open upvalues.                                              *)

\* The kinds of objects are apart.
LEMMA Kinds ==
  /\ Main \in Objs /\ Main \in Threads /\ Main \notin Heap /\ Main \notin Closures
  /\ \A t \in Coroutines : t \in Heap /\ t \in Objs /\ t \in Threads /\ t \notin Closures
  /\ \A c \in Closures : c \in Heap /\ c \in Objs /\ c \notin Threads /\ c \notin Leaves
  /\ \A o \in Leaves : o \in Heap /\ o \in Objs /\ o \notin Threads /\ o \notin Closures
  /\ Nil \notin Objs /\ None \notin UpVals
  /\ Threads \subseteq Objs /\ Objs = Threads \cup Closures \cup Leaves
  /\ Heap \subseteq Objs
BY ObjectsAssumption DEF Objs, Heap, Threads

\* A slot is a thread and a level.
LEMMA SlotsAre ==
  ASSUME NEW s \in Slots
  PROVE  /\ s[1] \in Threads /\ s[2] \in Nat /\ s[2] >= 1 /\ s[2] <= MaxLevel[s[1]]
         /\ s = <<s[1], s[2]>> /\ s # Own
<1>1. PICK t \in Threads : s \in {t} \X (1..MaxLevel[t])
  BY DEF Slots
<1>2. MaxLevel[t] \in Nat
  BY <1>1, BoundsAssumption DEF Threads
<1>3. QED
  BY <1>1, <1>2, OwnAssumption

\* A decreasing list of numbers is split at a bound.
LEMMA DecreasingSplits ==
  ASSUME NEW n \in Nat, NEW f \in [1..n -> Nat], NEW level \in Nat,
         \A i, j \in 1..n : i < j => f[i] > f[j]
  PROVE  /\ \E m \in 0..n : (\A i \in 1..m : f[i] >= level) /\ (m = n \/ f[m + 1] < level)
         /\ \A m \in 0..n :
              (\A i \in 1..m : f[i] >= level) /\ (m = n \/ f[m + 1] < level)
                => \A i \in 1..n : i <= m <=> f[i] >= level
<1> DEFINE D == {i \in 1..n : f[i] >= level}
           k == Cardinality(D)
<1>1. /\ IsFiniteSet(1..n) /\ D \in SUBSET (1..n)
      /\ \A i \in 0..n : Cardinality(1..i) = i /\ IsFiniteSet(1..i)
  BY FS_Interval
<1>2. IsFiniteSet(D) /\ k \in 0..n
  BY <1>1, FS_Subset, FS_CardinalityType
<1>3. ASSUME NEW i \in D PROVE i <= k
  <2>1. 1..i \in SUBSET D
    OBVIOUS
  <2>2. QED
    BY <1>1, <1>2, <2>1, FS_Subset
<1>4. ASSUME NEW i \in 1..n, i \notin D PROVE k < i
  <2>1. D \in SUBSET (1..(i - 1))
    BY <1>4
  <2>2. i - 1 \in 0..n
    OBVIOUS
  <2>3. QED
    BY <1>1, <1>2, <2>1, <2>2, FS_Subset
<1>5. \A i \in 1..n : f[i] \in Nat /\ (i <= k <=> f[i] >= level)
  BY <1>2, <1>3, <1>4
<1> HIDE DEF k
<1>6. (\A i \in 1..k : f[i] >= level) /\ (k = n \/ f[k + 1] < level)
  <2>1. ASSUME k # n PROVE f[k + 1] < level
    <3>1. k + 1 \in 1..n /\ ~(k + 1 <= k)
      BY <1>2, <2>1
    <3>2. QED
      BY <1>5, <3>1
  <2>2. QED
    BY <1>2, <1>5, <2>1
<1>7. ASSUME NEW m \in 0..n, \A i \in 1..m : f[i] >= level, m = n \/ f[m + 1] < level,
             NEW i \in 1..n
      PROVE  i <= m <=> f[i] >= level
  <2>1. CASE i <= m
    BY <1>7, <2>1
  <2>2. CASE i > m
    <3>1. m + 1 \in 1..n /\ f[m + 1] < level /\ (m + 1 < i \/ m + 1 = i)
      BY <1>7, <2>2
    <3>2. f[m + 1] >= f[i] /\ f[i] \in Nat /\ f[m + 1] \in Nat
      BY <3>1
    <3>3. QED
      BY <2>2, <3>1, <3>2
  <2>3. QED
    BY <2>1, <2>2
<1>8. QED
  BY <1>2, <1>6, <1>7

\* The first upvalues of a thread's list are the ones at a level and above it.
LEMMA AboveSplits ==
  ASSUME TypeOK, OpenListSorted, NEW t \in Threads, NEW level \in Nat
  PROVE  /\ Above(t, level) \in 0..Len(openupval[t])
         /\ \A i \in 1..Len(openupval[t]) :
              i <= Above(t, level) <=> Level(openupval[t][i]) >= level
<1> DEFINE open == openupval[t]
           n    == Len(open)
           f    == [i \in 1..n |-> v[open[i]][2]]
           P(m) == (\A i \in 1..m : f[i] >= level) /\ (m = n \/ f[m + 1] < level)
<1>1. open \in Seq(UpVals) /\ n \in Nat /\ DOMAIN open = 1..n
  BY LenProperties DEF TypeOK
<1>2. f \in [1..n -> Nat] /\ \A i, j \in 1..n : i < j => f[i] > f[j]
  <2>1. \A i \in 1..n : v[open[i]] \in {t} \X (1..Top(t))
    BY <1>1 DEF OpenListSorted
  <2>2. Top(t) \in Nat
    BY LenProperties DEF TypeOK, Top
  <2>3. QED
    BY SMTT(60), <1>1, <2>1, <2>2 DEF OpenListSorted
<1>4. /\ \E m \in 0..n : P(m)
      /\ \A m \in 0..n : P(m) => \A i \in 1..n : i <= m <=> f[i] >= level
  <2> HIDE DEF f
  <2>1. QED
    BY <1>1, <1>2, DecreasingSplits
<1>5. Above(t, level) \in 0..n /\ P(Above(t, level))
  <2> DEFINE Q(m) == /\ \A i \in 1..m : v[open[i]][2] >= level
                     /\ m = n \/ v[open[m + 1]][2] < level
  <2>1. ASSUME NEW m \in 0..n PROVE P(m) <=> Q(m)
    <3>1. \A i \in 1..m : f[i] = v[open[i]][2]
      BY <1>1
    <3>2. m = n \/ f[m + 1] = v[open[m + 1]][2]
      BY <1>1
    <3> HIDE DEF f, open
    <3>3. QED
      BY <3>1, <3>2
  <2>2. \E m \in 0..n : Q(m)
    BY <1>4, <2>1
  <2>3. Above(t, level) \in 0..n /\ Q(Above(t, level))
    <3>1. Above(t, level) = CHOOSE m \in 0..n : Q(m)
      BY DEF Above
    <3> HIDE DEF Q
    <3>2. QED
      BY <2>2, <3>1
  <2>4. QED
    BY <2>1, <2>3
<1>6. QED
  BY <1>4, <1>5 DEF Level

\* What a thread's list has.
LEMMA OpenList ==
  ASSUME ListsInv, NEW t \in Threads
  PROVE  /\ openupval[t] \in Seq(UpVals) /\ Len(openupval[t]) \in Nat
         /\ DOMAIN openupval[t] = 1..Len(openupval[t]) /\ Top(t) \in Nat
         /\ ToSet(openupval[t]) = {u \in ups : upisopen(u) /\ v[u][1] = t}
         /\ \A u \in ToSet(openupval[t]) : v[u] = <<t, Level(u)>> /\ Level(u) \in 1..Top(t)
         /\ \A u, w \in ToSet(openupval[t]) : Level(u) = Level(w) => u = w
<1>1. /\ openupval[t] \in Seq(UpVals) /\ Len(openupval[t]) \in Nat
      /\ DOMAIN openupval[t] = 1..Len(openupval[t]) /\ Top(t) \in Nat
  BY LenProperties DEF ListsInv, TypeOK, Top
<1>2. ASSUME NEW u \in ToSet(openupval[t])
      PROVE  /\ u \in ups /\ v[u] = <<t, Level(u)>> /\ Level(u) \in 1..Top(t)
             /\ upisopen(u) /\ v[u][1] = t
  <2>1. u \in ups /\ v[u] \in {t} \X (1..Top(t))
    BY DEF ListsInv, OpenListSorted, ToSet
  <2>2. v[u] = <<t, Level(u)>> /\ Level(u) \in 1..Top(t)
    BY <2>1 DEF Level
  <2>3. v[u] \in Slots
    <3>1. MaxLevel[t] \in Nat /\ Top(t) <= MaxLevel[t]
      BY BoundsAssumption DEF ListsInv, Fits, Threads
    <3>2. Level(u) \in 1..MaxLevel[t]
      BY <1>1, <2>2, <3>1
    <3>3. QED
      BY <2>2, <3>2 DEF Slots
  <2>4. QED
    BY <2>1, <2>2, <2>3, OwnAssumption DEF upisopen
<1>3. ASSUME NEW u \in ups, upisopen(u), v[u][1] = t PROVE u \in ToSet(openupval[t])
  BY <1>3 DEF ListsInv, OpenListSorted
<1>4. ASSUME NEW u \in ToSet(openupval[t]), NEW w \in ToSet(openupval[t]), Level(u) = Level(w)
      PROVE  u = w
  <2>1. PICK i \in 1..Len(openupval[t]), j \in 1..Len(openupval[t]) :
          u = openupval[t][i] /\ w = openupval[t][j]
    BY <1>1 DEF ToSet
  <2>2. Level(u) \in Nat /\ ~(i < j) /\ ~(j < i)
    BY <1>1, <1>2, <1>4, <2>1 DEF ListsInv, OpenListSorted, Level
  <2>3. QED
    BY <1>1, <2>1, <2>2
<1>5. QED
  BY <1>1, <1>2, <1>3, <1>4

\* The open upvalues of a thread at a level and above it.
Gone(t, level) == {u \in ups : upisopen(u) /\ v[u][1] = t /\ Level(u) >= level}

\* What luaF_close takes off the list.
LEMMA CloseList ==
  ASSUME ListsInv, NEW t \in Threads, NEW level \in Nat
  PROVE  LET rest == SubSeq(openupval[t], Above(t, level) + 1, Len(openupval[t])) IN
         /\ {openupval[t][i] : i \in 1..Above(t, level)} = Gone(t, level)
         /\ rest \in Seq(UpVals)
         /\ ToSet(rest) = ToSet(openupval[t]) \ Gone(t, level)
         /\ \A i, j \in DOMAIN rest : i < j => Level(rest[i]) > Level(rest[j])
<1> DEFINE open == openupval[t]
           n    == Len(open)
           k    == Above(t, level)
           rest == SubSeq(open, k + 1, n)
<1>1. /\ open \in Seq(UpVals) /\ n \in Nat /\ DOMAIN open = 1..n
      /\ ToSet(open) = {u \in ups : upisopen(u) /\ v[u][1] = t}
      /\ \A i \in 1..n : Level(open[i]) \in Nat /\ open[i] \in UpVals
      /\ \A i, j \in 1..n : i < j => Level(open[i]) > Level(open[j])
  <2>1. \A i \in 1..n : open[i] \in ToSet(open) /\ open[i] \in UpVals
    BY OpenList, ElementOfSeq DEF ToSet
  <2>2. QED
    BY OpenList, <2>1 DEF ListsInv, OpenListSorted, Level
<1>2. k \in 0..n /\ \A i \in 1..n : i <= k <=> Level(open[i]) >= level
  BY AboveSplits DEF ListsInv
<1> HIDE DEF k, open
<1>3. /\ rest \in Seq(UpVals) /\ DOMAIN rest = 1..(n - k)
      /\ \A i \in 1..(n - k) : rest[i] = open[k + i]
  <2>1. \A i \in (k + 1)..n : open[i] \in UpVals
    BY <1>1, <1>2
  <2>2. QED
    BY <1>1, <1>2, <2>1, SubSeqProperties, LenProperties
<1> HIDE DEF rest
<1>4. {open[i] : i \in 1..k} = Gone(t, level)
  <2>1. ASSUME NEW i \in 1..k PROVE open[i] \in Gone(t, level)
    BY <1>1, <1>2 DEF Gone, ToSet
  <2>2. ASSUME NEW u \in Gone(t, level) PROVE \E i \in 1..k : u = open[i]
    <3>1. u \in ToSet(open) /\ Level(u) >= level
      BY <1>1 DEF Gone
    <3>2. QED
      BY <1>1, <1>2, <3>1 DEF ToSet
  <2>3. QED
    BY <2>1, <2>2
<1>5. ToSet(rest) = ToSet(open) \ Gone(t, level)
  <2>1. ASSUME NEW i \in 1..(n - k) PROVE rest[i] \in ToSet(open) \ Gone(t, level)
    <3>1. k + i \in 1..n /\ ~(k + i <= k)
      BY <1>1, <1>2
    <3>2. QED
      BY <1>1, <1>2, <1>3, <3>1 DEF ToSet, Gone
  <2>2. ASSUME NEW u \in ToSet(open) \ Gone(t, level) PROVE u \in ToSet(rest)
    <3>1. PICK i \in 1..n : u = open[i]
      BY <1>1 DEF ToSet
    <3>2. ~(i <= k)
      BY <1>4, <3>1
    <3>3. i - k \in 1..(n - k) /\ k + (i - k) = i
      BY <1>1, <1>2, <3>2
    <3>4. QED
      BY <1>3, <3>1, <3>3 DEF ToSet
  <2>3. QED
    BY <1>3, <2>1, <2>2 DEF ToSet
<1>6. ASSUME NEW i \in DOMAIN rest, NEW j \in DOMAIN rest, i < j
      PROVE  Level(rest[i]) > Level(rest[j])
  <2>1. k + i \in 1..n /\ k + j \in 1..n /\ k + i < k + j
    BY <1>1, <1>2, <1>3, <1>6
  <2>2. QED
    BY <1>1, <1>3, <2>1
<1>7. QED
  BY <1>3, <1>4, <1>5, <1>6 DEF rest, open, k

\* x is inserted behind the first k elements.
Insertion(s, k, x) == SubSeq(s, 1, k) \o <<x>> \o SubSeq(s, k + 1, Len(s))

\* What an insertion puts where.
LEMMA Inserted ==
  ASSUME NEW S, NEW s \in Seq(S), NEW x \in S, NEW k \in 0..Len(s)
  PROVE  /\ Insertion(s, k, x) \in Seq(S) /\ DOMAIN Insertion(s, k, x) = 1..(Len(s) + 1)
         /\ \A i \in 1..k : Insertion(s, k, x)[i] = s[i]
         /\ Insertion(s, k, x)[k + 1] = x
         /\ \A i \in (k + 2)..(Len(s) + 1) : Insertion(s, k, x)[i] = s[i - 1]
         /\ ToSet(Insertion(s, k, x)) = ToSet(s) \cup {x}
<1> DEFINE n  == Len(s)
           s1 == SubSeq(s, 1, k)
           s2 == SubSeq(s, k + 1, n)
           l1 == s1 \o <<x>>
           list == l1 \o s2
<1>1. n \in Nat /\ DOMAIN s = 1..n /\ \A i \in 1..n : s[i] \in S
  BY LenProperties, ElementOfSeq
<1>2. /\ s1 \in Seq(S) /\ Len(s1) = k /\ \A i \in 1..k : s1[i] = s[i]
  <2>1. \A i \in 1..k : s[i] \in S
    BY <1>1
  <2>2. QED
    BY <1>1, <2>1, SubSeqProperties
<1>3. /\ s2 \in Seq(S) /\ Len(s2) = n - k /\ \A i \in 1..(n - k) : s2[i] = s[k + i]
  <2>1. \A i \in (k + 1)..n : s[i] \in S
    BY <1>1
  <2>2. /\ s2 \in Seq(S) /\ Len(s2) = IF k + 1 <= n THEN n - (k + 1) + 1 ELSE 0
        /\ \A i \in 1..(n - (k + 1) + 1) : s2[i] = s[(k + 1) + i - 1]
    <3>1. k + 1 \in Int /\ n \in Int
      BY <1>1
    <3> HIDE DEF n
    <3>2. QED
      BY <2>1, <3>1, SubSeqProperties
  <2>k. k \in 0..n /\ n \in Nat
    BY <1>1
  <2> HIDE DEF s2, n
  <2>3. /\ k \in Int /\ n \in Int /\ k <= n /\ n - (k + 1) + 1 = n - k
        /\ k + 1 <= n \/ n - k = 0
        /\ \A i \in 1..(n - k) : (k + 1) + i - 1 = k + i
    BY <2>k
  <2>4. Len(s2) = n - k
    BY <2>2, <2>3
  <2>5. ASSUME NEW i \in 1..(n - k)
        PROVE  s2[i] = s[k + i]
    <3>1. (k + 1) + i - 1 = k + i /\ i \in 1..(n - (k + 1) + 1)
      BY <2>3, <2>5
    <3>2. QED
      BY <2>2, <3>1
  <2>6. QED
    BY <2>2, <2>4, <2>5
<1>4. <<x>> \in Seq(S) /\ Len(<<x>>) = 1 /\ <<x>>[1] = x
  OBVIOUS
<1> HIDE DEF s1, s2
<1>5. /\ l1 \in Seq(S) /\ Len(l1) = k + 1
      /\ \A i \in 1..(k + 1) : l1[i] = IF i <= k THEN s1[i] ELSE <<x>>[i - k]
  BY <1>1, <1>2, <1>4, ConcatProperties
<1>6. l1[k + 1] = x /\ \A i \in 1..k : l1[i] = s[i]
  BY <1>1, <1>2, <1>4, <1>5
<1> HIDE DEF l1
<1>7. /\ list \in Seq(S) /\ Len(list) = n + 1
      /\ \A i \in 1..(n + 1) : list[i] = IF i <= k + 1 THEN l1[i] ELSE s2[i - (k + 1)]
  <2>1. /\ list \in Seq(S) /\ Len(list) = Len(l1) + Len(s2)
        /\ \A i \in 1..(Len(l1) + Len(s2)) :
             list[i] = IF i <= Len(l1) THEN l1[i] ELSE s2[i - Len(l1)]
    BY <1>3, <1>5, ConcatProperties
  <2>2. Len(l1) = k + 1 /\ Len(l1) + Len(s2) = n + 1
    BY <1>1, <1>3, <1>5
  <2> HIDE DEF list
  <2>3. QED
    BY <2>1, <2>2
<1> HIDE DEF list
<1>8. DOMAIN list = 1..(n + 1)
  BY <1>7, LenProperties
<1>9. /\ \A i \in 1..k : list[i] = s[i]
      /\ list[k + 1] = x
  BY <1>1, <1>6, <1>7
<1>10. ASSUME NEW i \in (k + 2)..(n + 1) PROVE list[i] = s[i - 1]
  <2>1. i - (k + 1) \in 1..(n - k) /\ k + (i - (k + 1)) = i - 1 /\ i \in 1..(n + 1) /\ ~(i <= k + 1)
    BY <1>1
  <2>2. QED
    BY <1>3, <1>7, <2>1
<1>11. ASSUME NEW i \in 1..(n + 1) PROVE list[i] \in ToSet(s) \cup {x}
  <2>1. CASE i \in 1..k
    BY <1>1, <1>9, <2>1 DEF ToSet
  <2>2. CASE i = k + 1
    BY <1>9, <2>2
  <2>3. CASE i \in (k + 2)..(n + 1)
    <3>1. i - 1 \in 1..n
      BY <1>1, <2>3
    <3>2. QED
      BY <1>1, <1>10, <2>3, <3>1 DEF ToSet
  <2>4. QED
    BY <1>1, <2>1, <2>2, <2>3
<1>12. ASSUME NEW i \in 1..n PROVE \E j \in 1..(n + 1) : list[j] = s[i]
  <2>1. CASE i <= k
    <3>1. i \in 1..k /\ i \in 1..(n + 1)
      BY <1>1, <2>1
    <3>2. QED
      BY <1>9, <3>1
  <2>2. CASE i > k
    <3>1. i + 1 \in (k + 2)..(n + 1) /\ (i + 1) - 1 = i /\ i + 1 \in 1..(n + 1)
      BY <1>1, <2>2
    <3>2. QED
      BY <1>10, <3>1
  <2>3. QED
    BY <1>1, <2>1, <2>2
<1>13. ToSet(list) = ToSet(s) \cup {x}
  <2>1. k + 1 \in 1..(n + 1)
    BY <1>1
  <2>2. ToSet(list) = {list[i] : i \in 1..(n + 1)} /\ ToSet(s) = {s[i] : i \in 1..n}
    BY <1>1, <1>8 DEF ToSet
  <2>3. ASSUME NEW y \in ToSet(s) PROVE y \in ToSet(list)
    BY <1>12, <2>2
  <2>4. x \in ToSet(list)
    BY <1>9, <2>1, <2>2
  <2>5. ASSUME NEW y \in ToSet(list) PROVE y \in ToSet(s) \cup {x}
    BY <1>11, <2>2
  <2>6. QED
    BY <2>3, <2>4, <2>5
<1>14. QED
  BY <1>7, <1>8, <1>9, <1>10, <1>13 DEF Insertion, list, l1, s1, s2

\* What luaF_findupval finds or adds: f has an upvalue of the level and the list.
Finds(f, t, level) ==
  /\ f.u \in UpVals
  /\ f.u \in ups => v[f.u] = <<t, level>> /\ f.list = openupval[t]
  /\ f.u \notin ups =>
       /\ \A u \in ups : v[u] # <<t, level>>
       /\ f.list \in Seq(UpVals)
       /\ ToSet(f.list) = ToSet(openupval[t]) \cup {f.u}
       /\ \A i, j \in DOMAIN f.list : i < j =>
            /\ f.list[i] = f.u => level > Level(f.list[j])
            /\ f.list[j] = f.u => Level(f.list[i]) > level
            /\ f.u \notin {f.list[i], f.list[j]} => Level(f.list[i]) > Level(f.list[j])
            /\ f.list[i] # f.list[j]

\* It gives an upvalue of that level, and a list that has it in its place.
LEMMA FindList ==
  ASSUME ListsInv, NEW t \in Threads, NEW level \in Nat, <<t, level>> \in Slots, ups # UpVals,
         NEW f, f = luaF_findupval(t, level)
  PROVE  Finds(f, t, level)
<1> DEFINE open == openupval[t]
           n    == Len(open)
           k    == Above(t, level)
           w    == CHOOSE u \in UpVals \ ups : TRUE
           list == Insertion(open, k, w)
<1>1. /\ open \in Seq(UpVals) /\ n \in Nat /\ DOMAIN open = 1..n
      /\ ToSet(open) = {u \in ups : upisopen(u) /\ v[u][1] = t}
      /\ \A u \in ToSet(open) : v[u] = <<t, Level(u)>>
      /\ \A i \in 1..n : Level(open[i]) \in Nat /\ open[i] \in ToSet(open) /\ open[i] \in UpVals
      /\ \A i, j \in 1..n : i < j => Level(open[i]) > Level(open[j])
  <2>1. \A i \in 1..n : open[i] \in ToSet(open) /\ open[i] \in UpVals
    BY OpenList, ElementOfSeq DEF ToSet
  <2>2. QED
    BY OpenList, <2>1 DEF ListsInv, OpenListSorted, Level
<1>2. ups \subseteq UpVals /\ w \in UpVals \ ups
  BY DEF ListsInv, TypeOK
<1>3. CASE Found(t, level) # {}
  <2>1. f.u \in Found(t, level) /\ f.list = open
    BY <1>3 DEF luaF_findupval
  <2>2. QED
    BY <1>1, <1>2, <2>1 DEF Finds, Found, Level
<1>4. CASE Found(t, level) = {}
  <2>1. f.u = w /\ f.list = list
    BY <1>4 DEF luaF_findupval, Insertion
  <2>2. k \in 0..n /\ \A i \in 1..n : i <= k <=> Level(open[i]) >= level
    BY AboveSplits DEF ListsInv
  <2>3. \A i \in 1..n : Level(open[i]) # level
    BY <1>1, <1>4 DEF Found, Level
  <2>4. ASSUME NEW u \in ups PROVE v[u] # <<t, level>>
    <3>1. ASSUME v[u] = <<t, level>> PROVE FALSE
      <4>1. upisopen(u)
        BY <3>1, OwnAssumption DEF upisopen
      <4>2. QED
        BY <1>1, <1>4, <3>1, <4>1 DEF Found
    <3>2. QED
      BY <3>1
  <2> HIDE DEF k, open, w
  <2>5. /\ list \in Seq(UpVals) /\ DOMAIN list = 1..(n + 1)
        /\ \A i \in 1..k : list[i] = open[i]
        /\ list[k + 1] = w
        /\ \A i \in (k + 2)..(n + 1) : list[i] = open[i - 1]
        /\ ToSet(list) = ToSet(open) \cup {w}
    <3>1. open \in Seq(UpVals) /\ w \in UpVals /\ k \in 0..Len(open)
      BY <1>1, <1>2, <2>2
    <3>2. QED
      BY <3>1, Inserted
  <2> HIDE DEF list
  <2>6. w \notin ToSet(open)
    BY <1>1, <1>2
  <2>7. \A m \in 1..n : (m <= k => Level(open[m]) > level) /\ (m > k => Level(open[m]) < level)
    BY <1>1, <2>2, <2>3
  <2>8. ASSUME NEW i \in 1..(n + 1), NEW j \in 1..(n + 1), i < j
        PROVE  /\ list[i] = w => level > Level(list[j])
               /\ list[j] = w => Level(list[i]) > level
               /\ w \notin {list[i], list[j]} => Level(list[i]) > Level(list[j])
               /\ list[i] # list[j]
    <3>1. \A m \in 1..n : open[m] # w
      BY <1>1, <2>6
    <3>2. CASE j \in 1..k
      <4>1. i \in 1..k /\ i \in 1..n /\ j \in 1..n
        BY <1>1, <2>2, <2>8, <3>2
      <4>2. Level(open[i]) > Level(open[j]) /\ Level(open[i]) \in Nat /\ Level(open[j]) \in Nat
        BY <1>1, <2>8, <4>1
      <4>3. QED
        BY <2>5, <3>1, <3>2, <4>1, <4>2
    <3>3. CASE j = k + 1
      <4>1. i \in 1..k /\ i \in 1..n /\ i <= k
        BY <1>1, <2>2, <2>8, <3>3
      <4>2. Level(open[i]) > level
        BY <2>7, <4>1
      <4>3. QED
        BY <2>5, <3>1, <3>3, <4>1, <4>2
    <3>4. CASE j \in (k + 2)..(n + 1)
      <4>1. j - 1 \in 1..n /\ j - 1 > k /\ list[j] = open[j - 1]
        BY <1>1, <2>2, <2>5, <3>4
      <4>2. CASE i \in 1..k
        <5>1. i \in 1..n /\ i < j - 1 /\ list[i] = open[i]
          BY <1>1, <2>2, <2>5, <3>4, <4>2
        <5>2. Level(open[i]) > Level(open[j - 1]) /\ Level(open[i]) \in Nat /\ Level(open[j - 1]) \in Nat
          BY <1>1, <4>1, <5>1
        <5>3. QED
          BY <3>1, <4>1, <5>1, <5>2
      <4>3. CASE i = k + 1
        <5>1. level > Level(open[j - 1])
          BY <1>1, <2>7, <4>1
        <5>2. QED
          BY <2>5, <3>1, <4>1, <4>3, <5>1
      <4>4. CASE i \in (k + 2)..(n + 1)
        <5>1. i - 1 \in 1..n /\ i - 1 < j - 1 /\ list[i] = open[i - 1]
          BY <1>1, <2>2, <2>5, <2>8, <4>4
        <5>2. Level(open[i - 1]) > Level(open[j - 1])
              /\ Level(open[i - 1]) \in Nat /\ Level(open[j - 1]) \in Nat
          BY <1>1, <4>1, <5>1
        <5>3. QED
          BY <3>1, <4>1, <5>1, <5>2
      <4>5. QED
        BY <1>1, <2>2, <4>2, <4>3, <4>4
    <3>5. QED
      BY <1>1, <2>2, <3>2, <3>3, <3>4
  <2>9. QED
    BY <1>2, <2>1, <2>4, <2>5, <2>8 DEF Finds, open
<1>5. QED
  BY <1>3, <1>4

-----------------------------------------------------------------------------
(* Reference counts.                                                       *)

Users(u) == {c \in Closures : uv[c] = u}

\* The closures that refer to an upvalue can be counted.
LEMMA UsersFinite ==
  \A u : IsFiniteSet(Users(u)) /\ Cardinality(Users(u)) \in Nat
         /\ (Cardinality(Users(u)) = 0 <=> Users(u) = {})
<1> TAKE u
<1>1. Users(u) \in SUBSET Closures
  BY DEF Users
<1>2. IsFiniteSet(Users(u))
  BY <1>1, ObjectsAssumption, FS_Subset
<1>3. QED
  BY <1>2, FS_CardinalityType, FS_EmptySet

\* A closure is made to refer to another upvalue.
LEMMA UsersMove ==
  ASSUME NEW c \in Closures, uv \in [Closures -> UpVals \cup {None}], NEW x, x # uv[c],
         uv' = [uv EXCEPT ![c] = x]
  PROVE  /\ Cardinality(Users(x)') = Cardinality(Users(x)) + 1
         /\ Cardinality(Users(uv[c])) >= 1
         /\ \A y : y = uv[c] => Cardinality({d \in Closures : uv'[d] = y}) = Cardinality(Users(y)) - 1
         /\ \A y : y \notin {x, uv[c]} => {d \in Closures : uv'[d] = y} = Users(y)
<1>1. /\ {d \in Closures : uv'[d] = x} = Users(x) \cup {c} /\ c \notin Users(x)
      /\ {d \in Closures : uv'[d] = uv[c]} = Users(uv[c]) \ {c} /\ c \in Users(uv[c])
  BY DEF Users
<1>2. Cardinality(Users(x) \cup {c}) = Cardinality(Users(x)) + 1
  BY <1>1, UsersFinite, FS_AddElement
<1>3. Cardinality(Users(uv[c]) \ {c}) = Cardinality(Users(uv[c])) - 1
  BY <1>1, UsersFinite, FS_RemoveElement
<1>4. Cardinality(Users(uv[c])) >= 1
  BY <1>1, UsersFinite
<1>5. \A y : y \notin {x, uv[c]} => {d \in Closures : uv'[d] = y} = Users(y)
  BY DEF Users
<1>6. QED
  BY <1>1, <1>2, <1>3, <1>4, <1>5 DEF Users

-----------------------------------------------------------------------------
(* What upvalues contain.                                                  *)

\* An upvalue is closed and has a value, or it is open and on the list of its thread.
LEMMA Reads ==
  ASSUME ListsInv, NEW u \in ups
  PROVE  /\ u \in UpVals
         /\ upisopen(u) => /\ v[u] \in Slots /\ v[u][1] \in Threads /\ v[u][2] \in 1..Top(v[u][1])
                           /\ v[u][2] \in Nat /\ v[u] = <<v[u][1], v[u][2]>>
                           /\ u \in ToSet(openupval[v[u][1]])
                           /\ openupval[v[u][1]] # <<>>
                           /\ Read(u) = stack[v[u][1]][v[u][2]]
                           /\ Read(u) \in ToSet(stack[v[u][1]]) /\ Read(u) \in Heap
         /\ ~upisopen(u) => Read(u) = value[u] /\ v[u] = Own /\ Read(u) \in Heap \cup {Nil}
<1>1. u \in UpVals /\ v[u] \in Slots \cup {Own} /\ value[u] \in Heap \cup {Nil}
  BY DEF ListsInv, TypeOK
<1>2. CASE upisopen(u)
  <2>1. v[u] \in Slots /\ v[u][1] \in Threads
    BY <1>1, <1>2, SlotsAre DEF upisopen
  <2>2. u \in ToSet(openupval[v[u][1]])
    BY <1>2 DEF ListsInv, OpenListSorted
  <2>3. v[u] = <<v[u][1], v[u][2]>> /\ v[u][2] \in 1..Top(v[u][1]) /\ Top(v[u][1]) \in Nat
    BY <2>1, <2>2, OpenList DEF Level
  <2>4. openupval[v[u][1]] # <<>>
    BY <2>2 DEF ToSet
  <2>5. /\ stack[v[u][1]][v[u][2]] \in Heap
        /\ stack[v[u][1]][v[u][2]] \in ToSet(stack[v[u][1]])
    BY <2>1, <2>3, ElementOfSeq, LenProperties DEF ListsInv, TypeOK, Top, ToSet
  <2>6. QED
    BY <1>1, <1>2, <2>1, <2>2, <2>3, <2>4, <2>5 DEF Read, ReadVia
<1>3. CASE ~upisopen(u)
  BY <1>1, <1>3 DEF upisopen, Read, ReadVia
<1>4. QED
  BY <1>1, <1>2, <1>3

\* What the program holds is there.
LEMMA HeldIsAlive ==
  ASSUME SafeInv
  PROVE  /\ running \in Threads /\ running \in Alive
         /\ Top(running) \in Nat /\ stack[running] \in Seq(Heap)
         /\ DOMAIN stack[running] = 1..Top(running)
         /\ OnStack \subseteq Alive \cap Heap
         /\ \A c \in OnStack \cap Closures :
              uv[c] \in ups /\ Read(uv[c]) \in Alive /\ Read(uv[c]) \in Heap
<1>1. /\ running \in Threads /\ running \in Alive /\ stack[running] \in Seq(Heap)
      /\ Top(running) \in Nat /\ DOMAIN stack[running] = 1..Top(running)
  BY LenProperties DEF SafeInv, UpvalInv, ListsInv, TypeOK, NoDangling, Top
<1>2. OnStack \subseteq Alive /\ OnStack \subseteq Heap
  BY <1>1, ElementOfSeq DEF SafeInv, NoDangling, OnStack, ToSet
<1>3. ASSUME NEW c \in OnStack \cap Closures
      PROVE  uv[c] \in ups /\ Read(uv[c]) \in Alive /\ Read(uv[c]) \in Heap
  <2>1. uv[c] \in ups /\ Read(uv[c]) \in Alive
    BY <1>2 DEF SafeInv, NoDangling
  <2>2. Read(uv[c]) \in Heap \cup {Nil}
    BY <2>1, Reads DEF SafeInv, UpvalInv
  <2>3. QED
    BY <2>1, <2>2, Kinds DEF Alive
<1>4. QED
  BY <1>1, <1>2, <1>3

\* What marking S changes.
LEMMA MarkEffect ==
  ASSUME color \in [Objs -> {"free", "white", "dead", "gray", "black"}], NEW S
  PROVE  /\ Marked(S) \in [Objs -> {"free", "white", "dead", "gray", "black"}]
         /\ \A o \in Objs :
              /\ Marked(S)[o] = "white" <=> color[o] = "white" /\ o \notin S
              /\ Marked(S)[o] = "free" <=> color[o] = "free"
              /\ Marked(S)[o] = "dead" <=> color[o] = "dead"
              /\ Marked(S)[o] = "gray" <=> color[o] = "gray" \/ o \in Grayed(S)
              /\ Marked(S)[o] = "black" <=> color[o] = "black" \/ (o \in Leaves /\ o \in S \cap White)
         /\ Grayed(S) \subseteq Threads \cup Closures
BY Kinds DEF Marked, Grayed, White

\* Marks and barriers keep the types of colors.
LEMMA MarkTypes ==
  ASSUME TypeOK, NEW S, mark(S) \/ luaC_upvalbarrier(S)
  PROVE  /\ color' \in [Objs -> {"free", "white", "dead", "gray", "black"}]
         /\ \A o \in Objs : color'[o] = "free" <=> color[o] = "free"
         /\ \A t \in Threads : color'[t] # "black"
         /\ gray' \subseteq Threads \cup Closures
<1>1. \/ color' = Marked(S) /\ gray' = gray \cup Grayed(S)
      \/ color' = color /\ gray' = gray
  BY DEF mark, luaC_upvalbarrier, marks
<1>2. CASE color' = color /\ gray' = gray
  BY <1>2 DEF TypeOK
<1>3. CASE color' = Marked(S) /\ gray' = gray \cup Grayed(S)
  <2>1. /\ color \in [Objs -> {"free", "white", "dead", "gray", "black"}]
        /\ \A t \in Threads : t \in Objs /\ t \notin Leaves /\ color[t] # "black"
        /\ gray \subseteq Threads \cup Closures
    BY Kinds DEF TypeOK
  <2>2. QED
    BY <1>3, <2>1, MarkEffect
<1>4. QED
  BY <1>1, <1>2, <1>3

-----------------------------------------------------------------------------
(* The structure.                                                          *)

\* As long as stacks do not shrink, lists that stay are right.
LEMMA ListsStay ==
  ASSUME ListsInv, TypeOK', UNCHANGED <<openupval, ups, v>>,
         \A t \in Threads : Top(t) <= Top(t)' /\ Top(t)' <= MaxLevel[t]
  PROVE  ListsInv'
<1>1. ASSUME NEW t \in Threads, NEW i \in DOMAIN openupval[t]
      PROVE  openupval[t][i] \in ups /\ v[openupval[t][i]] \in {t} \X (1..Top(t)')
  <2>1. openupval[t][i] \in ups /\ v[openupval[t][i]] \in {t} \X (1..Top(t))
    BY DEF ListsInv, OpenListSorted
  <2>2. Top(t) \in Nat /\ Top(t)' \in Nat /\ Top(t) <= Top(t)'
    BY LenProperties DEF ListsInv, TypeOK, Top
  <2>3. 1..Top(t) \subseteq 1..Top(t)'
    BY <2>2
  <2>4. QED
    BY <2>1, <2>3
<1>2. OpenListSorted'
  BY <1>1 DEF ListsInv, OpenListSorted, upisopen
<1>3. Fits'
  BY DEF Fits
<1>4. QED
  BY <1>2, <1>3 DEF ListsInv

\* Steps that neither free anything nor move upvalues keep the structure.
LEMMA StructStays ==
  ASSUME UpvalInv, TypeOK', UNCHANGED <<openupval, uv, ups, refcount, v>>,
         \A o \in Objs : color'[o] = "free" => color[o] = "free",
         \A c \in Closures : color[c] = "free" => color'[c] = "free",
         \A t \in Threads : Top(t) <= Top(t)' /\ Top(t)' <= MaxLevel[t],
         \A t \in Threads : color'[t] = "free" => stack'[t] = stack[t]
  PROVE  UpvalInv'
<1>1. ListsInv'
  BY ListsStay DEF UpvalInv
<1>2. RefcountsRight'
  BY DEF UpvalInv, RefcountsRight, upisopen
<1>3. FreeInv'
  BY Kinds DEF UpvalInv, FreeInv
<1>4. QED
  BY <1>1, <1>2, <1>3 DEF UpvalInv

\* So do steps that leave the stacks alone.
LEMMA StructStays2 ==
  ASSUME UpvalInv, TypeOK', UNCHANGED <<stack, openupval, uv, ups, refcount, v>>,
         \A o \in Objs : color'[o] = "free" <=> color[o] = "free"
  PROVE  UpvalInv'
<1>1. \A t \in Threads : Top(t) \in Nat /\ Top(t) <= MaxLevel[t] /\ Top(t)' = Top(t)
  BY LenProperties DEF UpvalInv, ListsInv, TypeOK, Fits, Top
<1>2. QED
  BY <1>1, Kinds, StructStays

\* Pushing on a stack.
LEMMA Pushing ==
  ASSUME ListsInv, NEW t \in Threads, NEW x \in Heap, Top(t) < MaxLevel[t]
  PROVE  LET stk == [stack EXCEPT ![t] = Append(@, x)] IN
         /\ stk \in [Threads -> Seq(Heap)]
         /\ stk[t] = Append(stack[t], x)
         /\ \A w \in Threads : w # t => stk[w] = stack[w]
         /\ \A w \in Threads : Len(stk[w]) = (IF w = t THEN Top(t) + 1 ELSE Top(w))
         /\ \A w \in Threads : Top(w) <= Len(stk[w]) /\ Len(stk[w]) <= MaxLevel[w]
         /\ \A w \in Threads, l \in Nat : l \in 1..Top(w) => stk[w][l] = stack[w][l]
         /\ ToSet(stk[t]) = ToSet(stack[t]) \cup {x}
         /\ stk[t][Top(t) + 1] = x
<1>1. \A w \in Threads : stack[w] \in Seq(Heap) /\ Top(w) = Len(stack[w]) /\ Top(w) \in Nat
                         /\ Top(w) <= MaxLevel[w] /\ MaxLevel[w] \in Nat
                         /\ DOMAIN stack[w] = 1..Top(w)
  BY LenProperties, BoundsAssumption DEF ListsInv, TypeOK, Top, Fits, Threads
<1>2. /\ Append(stack[t], x) \in Seq(Heap) /\ Len(Append(stack[t], x)) = Top(t) + 1
      /\ \A l \in 1..Top(t) : Append(stack[t], x)[l] = stack[t][l]
      /\ Append(stack[t], x)[Top(t) + 1] = x
      /\ DOMAIN Append(stack[t], x) = 1..(Top(t) + 1)
  BY <1>1, AppendProperties, LenProperties
<1>3. ToSet(Append(stack[t], x)) = ToSet(stack[t]) \cup {x}
  <2>1. 1..(Top(t) + 1) = 1..Top(t) \cup {Top(t) + 1}
    BY <1>1
  <2>2. QED
    BY <1>1, <1>2, <2>1 DEF ToSet
<1>4. stack \in [Threads -> Seq(Heap)]
  BY DEF ListsInv, TypeOK
<1>5. QED
  BY <1>1, <1>2, <1>3, <1>4

\* luaC_newobj: the lists stay sound.
LEMMA StructNewObject ==
  ASSUME SafeInv, NEW o \in Leaves \cup Coroutines, luaC_newobj(o)
  PROVE  UpvalInv'
<1> DEFINE stk == Pushed(o)
<1>1. /\ ListsInv /\ TypeOK /\ o \in Heap /\ running \in Threads
      /\ Top(running) < MaxLevel[running] /\ color[o] = "free"
  BY Kinds, HeldIsAlive DEF SafeInv, UpvalInv, ListsInv, luaC_newobj, Room
<1>2. /\ stk \in [Threads -> Seq(Heap)] /\ stk[running] = Append(stack[running], o)
      /\ \A w \in Threads : w # running => stk[w] = stack[w]
      /\ \A w \in Threads : Top(w) <= Len(stk[w]) /\ Len(stk[w]) <= MaxLevel[w]
  BY <1>1, Pushing DEF Pushed
<1>3. stack' = stk /\ color' = [color EXCEPT ![o] = "white"]
      /\ UNCHANGED <<unlinked, gray, running, openupval, twups, uv, upval>>
  BY DEF luaC_newobj
<1> HIDE DEF stk
<1>4. TypeOK'
  BY <1>1, <1>2, <1>3, Kinds DEF TypeOK, unlinked, upval
<1>5. color[running] # "free"
  BY <1>1, HeldIsAlive DEF Alive
<1>6. QED
  <2>1. \A c \in Objs : color'[c] = "free" => color[c] = "free"
    BY <1>1, <1>3 DEF TypeOK
  <2>2. \A c \in Closures : color[c] = "free" => color'[c] = "free"
    BY <1>1, <1>3, Kinds DEF TypeOK
  <2>3. \A t \in Threads : color'[t] = "free" => stack'[t] = stack[t]
    BY <1>2, <1>3, <1>5, <2>1, Kinds
  <2>4. \A t \in Threads : Top(t) <= Top(t)' /\ Top(t)' <= MaxLevel[t]
    BY <1>2, <1>3 DEF Top
  <2>5. QED
    BY <1>3, <1>4, <2>1, <2>2, <2>3, <2>4, StructStays DEF SafeInv, upval

\* A push: the lists stay sound.
LEMMA StructGetValue ==
  ASSUME SafeInv, NEW x \in Heap, GetValue(x)
  PROVE  UpvalInv'
<1> DEFINE stk == Pushed(x)
<1>1. /\ ListsInv /\ TypeOK /\ running \in Threads /\ Top(running) < MaxLevel[running]
  BY HeldIsAlive DEF SafeInv, UpvalInv, ListsInv, GetValue, Room
<1>2. /\ stk \in [Threads -> Seq(Heap)]
      /\ \A w \in Threads : w # running => stk[w] = stack[w]
      /\ \A w \in Threads : Top(w) <= Len(stk[w]) /\ Len(stk[w]) <= MaxLevel[w]
  BY <1>1, Pushing DEF Pushed
<1>3. stack' = stk
      /\ UNCHANGED <<unlinked, marks, running, openupval, twups, uv, upval>>
  BY DEF GetValue
<1> HIDE DEF stk
<1>4. TypeOK'
  BY <1>1, <1>2, <1>3, Kinds DEF TypeOK, unlinked, upval, marks
<1>5. \A t \in Threads : color'[t] = "free" => stack'[t] = stack[t]
  BY <1>2, <1>3, Kinds, HeldIsAlive DEF Alive, marks
<1>6. \A t \in Threads : Top(t) <= Top(t)' /\ Top(t)' <= MaxLevel[t]
  BY <1>2, <1>3 DEF Top
<1>7. QED
  BY <1>3, <1>4, <1>5, <1>6, StructStays DEF SafeInv, upval, marks

\* Replacing a value on a stack.
Replaced(t, l, x) == [stack EXCEPT ![t][l] = x]

\* What a store in a slot changes.
LEMMA Replacing ==
  ASSUME ListsInv, NEW t \in Threads, NEW l \in 1..Top(t), NEW x \in Heap
  PROVE  LET stk == Replaced(t, l, x) IN
         /\ stk \in [Threads -> Seq(Heap)]
         /\ \A w \in Threads : w # t => stk[w] = stack[w]
         /\ \A w \in Threads : Len(stk[w]) = Top(w) /\ Top(w) \in Nat /\ Top(w) <= MaxLevel[w]
         /\ \A w \in Threads, m \in Nat :
              m \in 1..Top(w) => stk[w][m] = IF w = t /\ m = l THEN x ELSE stack[w][m]
         /\ ToSet(stk[t]) \subseteq ToSet(stack[t]) \cup {x}
<1>1. \A w \in Threads : stack[w] \in Seq(Heap) /\ Top(w) = Len(stack[w]) /\ Top(w) \in Nat
                         /\ Top(w) <= MaxLevel[w] /\ DOMAIN stack[w] = 1..Top(w)
  BY LenProperties DEF ListsInv, TypeOK, Top, Fits
<1>2. /\ [stack[t] EXCEPT ![l] = x] \in Seq(Heap)
      /\ Len([stack[t] EXCEPT ![l] = x]) = Top(t)
      /\ \A m \in 1..Top(t) : [stack[t] EXCEPT ![l] = x][m] = IF m = l THEN x ELSE stack[t][m]
      /\ DOMAIN [stack[t] EXCEPT ![l] = x] = 1..Top(t)
  BY <1>1, ExceptSeq
<1>3. stack \in [Threads -> Seq(Heap)]
      /\ [stack EXCEPT ![t][l] = x] = [stack EXCEPT ![t] = [stack[t] EXCEPT ![l] = x]]
  BY DEF ListsInv, TypeOK
<1>4. ToSet([stack[t] EXCEPT ![l] = x]) \subseteq ToSet(stack[t]) \cup {x}
  BY <1>1, <1>2 DEF ToSet
<1>5. QED
  BY <1>1, <1>2, <1>3, <1>4 DEF Replaced

\* An assignment to a local variable: the lists stay sound.
LEMMA StructSetLocal ==
  ASSUME SafeInv, NEW l \in Levels, NEW x \in Heap, SetLocal(l, x)
  PROVE  UpvalInv'
<1> DEFINE stk == Replaced(running, l, x)
<1>1. /\ ListsInv /\ TypeOK /\ running \in Threads /\ l \in 1..Top(running)
  BY HeldIsAlive DEF SafeInv, UpvalInv, ListsInv, SetLocal
<1>2. /\ stk \in [Threads -> Seq(Heap)]
      /\ \A w \in Threads : w # running => stk[w] = stack[w]
      /\ \A w \in Threads : Len(stk[w]) = Top(w) /\ Top(w) \in Nat /\ Top(w) <= MaxLevel[w]
  BY <1>1, Replacing
<1>3. stack' = stk
      /\ UNCHANGED <<unlinked, marks, running, openupval, twups, uv, upval>>
  BY DEF SetLocal, Replaced
<1> HIDE DEF stk
<1>4. TypeOK'
  BY <1>1, <1>2, <1>3, Kinds DEF TypeOK, unlinked, upval, marks
<1>5. \A t \in Threads : color'[t] = "free" => stack'[t] = stack[t]
  BY <1>2, <1>3, Kinds, HeldIsAlive DEF Alive, marks
<1>6. \A t \in Threads : Top(t) <= Top(t)' /\ Top(t)' <= MaxLevel[t]
  BY <1>2, <1>3 DEF Top
<1>7. QED
  BY <1>3, <1>4, <1>5, <1>6, StructStays DEF SafeInv, upval, marks

\* OP_SETUPVAL: the lists stay sound.
LEMMA StructSetUpval ==
  ASSUME SafeInv, NEW c \in Closures, NEW x \in Heap, OP_SETUPVAL(c, x)
  PROVE  UpvalInv'
<1> DEFINE u == uv[c]
           stk == Replaced(v[u][1], v[u][2], x)
<1>1. /\ ListsInv /\ TypeOK /\ u \in ups /\ c \in OnStack /\ x \in OnStack
  BY HeldIsAlive DEF SafeInv, UpvalInv, ListsInv, OP_SETUPVAL
<1>2. UNCHANGED <<unlinked, running, openupval, twups, uv, ups, refcount, v, touched>>
  BY DEF OP_SETUPVAL
<1>3. CASE upisopen(u)
  <2>1. stack' = stk /\ UNCHANGED <<value, marks>>
    BY <1>3 DEF OP_SETUPVAL, Replaced
  <2>2. v[u][1] \in Threads /\ v[u][2] \in 1..Top(v[u][1]) /\ openupval[v[u][1]] # <<>>
    BY <1>1, <1>3, Reads
  <2>3. /\ stk \in [Threads -> Seq(Heap)]
        /\ \A w \in Threads : w # v[u][1] => stk[w] = stack[w]
        /\ \A w \in Threads : Len(stk[w]) = Top(w) /\ Top(w) \in Nat /\ Top(w) <= MaxLevel[w]
    BY <1>1, <2>2, Replacing
  <2> HIDE DEF stk
  <2>4. TypeOK'
    BY <1>1, <1>2, <2>1, <2>3, Kinds DEF TypeOK, unlinked, upval, marks
  <2>5. \A t \in Threads : color'[t] = "free" => stack'[t] = stack[t]
    BY <2>1, <2>2, <2>3, Kinds DEF SafeInv, UpvalInv, FreeInv, marks
  <2>6. \A t \in Threads : Top(t) <= Top(t)' /\ Top(t)' <= MaxLevel[t]
    BY <2>1, <2>3 DEF Top
  <2>7. color' = color /\ UNCHANGED <<openupval, uv, ups, refcount, v>>
    BY <1>2, <2>1 DEF marks
  <2>8. QED
    BY <2>4, <2>5, <2>6, <2>7, StructStays DEF SafeInv
<1>4. CASE ~upisopen(u)
  <2>1. value' = [value EXCEPT ![u] = x] /\ luaC_upvalbarrier({x}) /\ UNCHANGED stack
    BY <1>4 DEF OP_SETUPVAL
  <2>2. /\ color' \in [Objs -> {"free", "white", "dead", "gray", "black"}]
        /\ \A o \in Objs : color'[o] = "free" <=> color[o] = "free"
        /\ \A t \in Threads : color'[t] # "black"
        /\ gray' \subseteq Threads \cup Closures
    BY <1>1, <2>1, MarkTypes
  <2>3. TypeOK'
    BY <1>1, <1>2, <2>1, <2>2 DEF TypeOK, unlinked
  <2>4. QED
    BY <1>2, <2>1, <2>2, <2>3, StructStays2 DEF SafeInv
<1>5. QED
  BY <1>3, <1>4

\* Passing values to another stack.
Passing(t, xs) == [stack EXCEPT ![t] = @ \o xs]

\* What a push of several values changes.
LEMMA PassingIs ==
  ASSUME ListsInv, NEW t \in Threads, NEW xs \in Passed, Top(t) + Len(xs) <= MaxLevel[t]
  PROVE  LET stk == Passing(t, xs) IN
         /\ stk \in [Threads -> Seq(Heap)]
         /\ \A w \in Threads : w # t => stk[w] = stack[w]
         /\ \A w \in Threads : Top(w) <= Len(stk[w]) /\ Len(stk[w]) <= MaxLevel[w]
         /\ \A w \in Threads, l \in Nat : l \in 1..Top(w) => stk[w][l] = stack[w][l]
         /\ ToSet(stk[t]) = ToSet(stack[t]) \cup ToSet(xs)
         /\ xs = <<>> \/ \E x \in Heap : xs = <<x>> /\ Len(stk[t]) = Top(t) + 1
                                         /\ stk[t][Top(t) + 1] = x /\ Top(t) + 1 <= MaxLevel[t]
         /\ xs = <<>> => stk = stack
<1>1. \A w \in Threads : stack[w] \in Seq(Heap) /\ Top(w) = Len(stack[w]) /\ Top(w) \in Nat
                         /\ Top(w) <= MaxLevel[w] /\ MaxLevel[w] \in Nat
  BY LenProperties, BoundsAssumption DEF ListsInv, TypeOK, Top, Fits, Threads
<1>2. stack \in [Threads -> Seq(Heap)]
  BY DEF ListsInv, TypeOK
<1>3. CASE xs = <<>>
  <2>1. stack[t] \o xs = stack[t]
    BY <1>1, <1>3, ConcatEmptySeq
  <2>2. Passing(t, xs) = stack
    BY <1>2, <2>1 DEF Passing
  <2>3. ToSet(xs) = {}
    BY <1>3 DEF ToSet
  <2>4. QED
    BY <1>1, <1>2, <1>3, <2>2, <2>3
<1>4. CASE \E x \in Heap : xs = <<x>>
  <2>1. PICK x \in Heap : xs = <<x>>
    BY <1>4
  <2>2. Len(xs) = 1 /\ ToSet(xs) = {x} /\ xs # <<>>
    BY <2>1 DEF ToSet
  <2> DEFINE stk == [stack EXCEPT ![t] = Append(@, x)]
  <2>3. Passing(t, xs) = stk
    BY <1>1, <1>2, <2>1, AppendIsConcat DEF Passing
  <2>4. Top(t) < MaxLevel[t]
    BY <1>1, <2>2
  <2>5. /\ stk \in [Threads -> Seq(Heap)]
        /\ \A w \in Threads : w # t => stk[w] = stack[w]
        /\ \A w \in Threads : Len(stk[w]) = (IF w = t THEN Top(t) + 1 ELSE Top(w))
        /\ \A w \in Threads : Top(w) <= Len(stk[w]) /\ Len(stk[w]) <= MaxLevel[w]
        /\ \A w \in Threads, l \in Nat : l \in 1..Top(w) => stk[w][l] = stack[w][l]
        /\ ToSet(stk[t]) = ToSet(stack[t]) \cup {x}
        /\ stk[t][Top(t) + 1] = x
    BY <2>4, Pushing
  <2> HIDE DEF stk
  <2>6. QED
    BY <1>1, <2>1, <2>2, <2>3, <2>4, <2>5
<1>5. QED
  BY <1>3, <1>4 DEF Passed

\* lua_resume: the lists stay sound.
LEMMA StructResume ==
  ASSUME SafeInv, NEW t \in Coroutines, NEW xs \in Passed, lua_resume(t, xs)
  PROVE  UpvalInv'
<1> DEFINE stk == Passing(t, xs)
<1>1. ListsInv /\ TypeOK /\ t \in Threads /\ t \in Objs /\ color[t] # "free"
  BY HeldIsAlive, Kinds DEF SafeInv, UpvalInv, ListsInv, lua_resume, Alive
<1>2. /\ stk \in [Threads -> Seq(Heap)]
      /\ \A w \in Threads : w # t => stk[w] = stack[w]
      /\ \A w \in Threads : Top(w) <= Len(stk[w]) /\ Len(stk[w]) <= MaxLevel[w]
  BY <1>1, PassingIs DEF lua_resume
<1>3. /\ stack' = stk /\ running' = t
      /\ UNCHANGED <<unlinked, marks, openupval, twups, uv, upval>>
  BY DEF lua_resume, Passing
<1> HIDE DEF stk
<1>4. TypeOK'
  BY <1>1, <1>2, <1>3, Kinds DEF TypeOK, unlinked, upval, marks
<1>5. \A w \in Threads : color'[w] = "free" => stack'[w] = stack[w]
  BY <1>1, <1>2, <1>3 DEF marks
<1>6. \A w \in Threads : Top(w) <= Top(w)' /\ Top(w)' <= MaxLevel[w]
  BY <1>2, <1>3 DEF Top
<1>7. QED
  BY <1>3, <1>4, <1>5, <1>6, StructStays DEF SafeInv, upval, marks

\* lua_yield: the lists stay sound.
LEMMA StructYield ==
  ASSUME SafeInv, NEW xs \in Passed, lua_yield(xs)
  PROVE  UpvalInv'
<1> DEFINE stk == Passing(Main, xs)
<1>1. ListsInv /\ TypeOK /\ Main \in Threads /\ color[Main] # "free"
  BY Kinds DEF SafeInv, UpvalInv, ListsInv, PhaseInv
<1>2. /\ stk \in [Threads -> Seq(Heap)]
      /\ \A w \in Threads : w # Main => stk[w] = stack[w]
      /\ \A w \in Threads : Top(w) <= Len(stk[w]) /\ Len(stk[w]) <= MaxLevel[w]
  BY <1>1, PassingIs DEF lua_yield
<1>3. /\ stack' = stk /\ running' = Main
      /\ UNCHANGED <<unlinked, marks, openupval, twups, uv, upval>>
  BY DEF lua_yield, Passing
<1> HIDE DEF stk
<1>4. TypeOK'
  BY <1>1, <1>2, <1>3, Kinds DEF TypeOK, unlinked, upval, marks
<1>5. \A w \in Threads : color'[w] = "free" => stack'[w] = stack[w]
  BY <1>1, <1>2, <1>3 DEF marks
<1>6. \A w \in Threads : Top(w) <= Top(w)' /\ Top(w)' <= MaxLevel[w]
  BY <1>2, <1>3 DEF Top
<1>7. QED
  BY <1>3, <1>4, <1>5, <1>6, StructStays DEF SafeInv, upval, marks

\* A new closure counts as one more reference.
LEMMA CountNewClosure ==
  ASSUME UpvalInv, NEW c \in Closures, color[c] = "free", NEW u \in UpVals,
         uv' = [uv EXCEPT ![c] = u], color' = [color EXCEPT ![c] = "white"], ups' = ups \cup {u},
         refcount' = [refcount EXCEPT ![u] = IF u \in ups THEN @ + 1 ELSE 1],
         \A w \in ups : v'[w] = v[w]
  PROVE  RefcountsRight'
<1>1. /\ uv \in [Closures -> UpVals \cup {None}] /\ uv[c] = None /\ u # None
      /\ refcount \in [UpVals -> Nat] /\ ups \subseteq UpVals
      /\ color \in [Objs -> {"free", "white", "dead", "gray", "black"}] /\ c \in Objs
  BY Kinds, ObjectsAssumption DEF UpvalInv, ListsInv, TypeOK, FreeInv
<1>2. /\ Cardinality(Users(u)') = Cardinality(Users(u)) + 1
      /\ \A w \in ups \ {u} : {d \in Closures : uv'[d] = w} = Users(w)
  BY <1>1, UsersMove, ObjectsAssumption
<1>3. u \notin ups => Users(u) = {}
  BY <1>1, ObjectsAssumption DEF UpvalInv, RefcountsRight, FreeInv, Users
<1>4. refcount'[u] = Cardinality(Users(u)') /\ refcount'[u] # 0
  <2>1. CASE u \in ups
    BY <1>1, <1>2, <2>1, UsersFinite DEF UpvalInv, RefcountsRight, Users
  <2>2. CASE u \notin ups
    BY <1>1, <1>2, <1>3, <2>2, UsersFinite
  <2>3. QED
    BY <2>1, <2>2
<1>5. ASSUME NEW w \in ups', w # u
      PROVE  /\ refcount'[w] = Cardinality({d \in Closures : uv'[d] = w})
             /\ refcount'[w] = 0 => upisopen(w)'
  <2>1. refcount'[w] = refcount[w] /\ w \in ups /\ {d \in Closures : uv'[d] = w} = Users(w)
        /\ v'[w] = v[w]
    BY <1>1, <1>2, <1>5
  <2>2. refcount[w] = Cardinality(Users(w)) /\ (refcount[w] = 0 => upisopen(w))
    BY <2>1 DEF UpvalInv, RefcountsRight, Users
  <2>3. QED
    BY <2>1, <2>2 DEF upisopen
<1>6. ASSUME NEW d \in Closures, color'[d] # "free" PROVE uv'[d] \in ups'
  BY <1>1, <1>6, Kinds DEF UpvalInv, RefcountsRight
<1>7. QED
  BY <1>4, <1>5, <1>6 DEF RefcountsRight, Users

\* A closure that shares an upvalue: its count is one more.
LEMMA StructEnclosing ==
  ASSUME SafeInv, NEW c \in Closures, NEW e \in Closures, pushclosure_enclosing(c, e)
  PROVE  UpvalInv'
<1> DEFINE stk == Pushed(c)
<1>1. /\ ListsInv /\ TypeOK /\ running \in Threads /\ Top(running) < MaxLevel[running]
      /\ color[running] # "free" /\ c \in Heap /\ c \in Objs /\ color[c] = "free"
      /\ uv[e] \in ups /\ uv[e] \in UpVals /\ UpvalInv
  BY HeldIsAlive, Kinds
     DEF SafeInv, UpvalInv, ListsInv, pushclosure_enclosing, Room, Alive, TypeOK
<1>2. /\ stk \in [Threads -> Seq(Heap)]
      /\ \A w \in Threads : w # running => stk[w] = stack[w]
      /\ \A w \in Threads : Top(w) <= Len(stk[w]) /\ Len(stk[w]) <= MaxLevel[w]
  BY <1>1, Pushing DEF Pushed
<1>3. /\ stack' = stk /\ color' = [color EXCEPT ![c] = "white"]
      /\ uv' = [uv EXCEPT ![c] = uv[e]]
      /\ refcount' = [refcount EXCEPT ![uv[e]] = @ + 1]
      /\ UNCHANGED <<unlinked, gray, running, openupval, twups, ups, v, value, touched>>
  BY DEF pushclosure_enclosing, Counted
<1> HIDE DEF stk
<1>4. TypeOK'
  BY <1>1, <1>2, <1>3, Kinds DEF TypeOK, unlinked
<1>5. RefcountsRight'
  BY <1>1, <1>3, CountNewClosure
<1>6. FreeInv'
  BY <1>1, <1>2, <1>3, Kinds DEF UpvalInv, FreeInv, TypeOK
<1>7. ListsInv'
  <2>1. \A w \in Threads : Top(w) <= Top(w)' /\ Top(w)' <= MaxLevel[w]
    BY <1>2, <1>3 DEF Top
  <2>2. QED
    BY <1>1, <1>3, <1>4, <2>1, ListsStay
<1>8. QED
  BY <1>5, <1>6, <1>7 DEF UpvalInv

\* A closure that captures a slot: luaF_findupval finds the upvalue or inserts one in order.
LEMMA StructPushClosure ==
  ASSUME SafeInv, NEW c \in Closures, NEW l \in Levels, pushclosure(c, l)
  PROVE  UpvalInv'
<1> DEFINE stk == Pushed(c)
<1>0. PICK f : f = luaF_findupval(running, l)
  OBVIOUS
<1>1. /\ ListsInv /\ TypeOK /\ running \in Threads /\ Top(running) < MaxLevel[running]
      /\ color[running] # "free" /\ c \in Heap /\ c \in Objs /\ color[c] = "free"
      /\ ups # UpVals /\ UpvalInv /\ Top(running) \in Nat /\ l \in 1..(Top(running) + 1)
      /\ l \in Nat /\ <<running, l>> \in Slots
  <2>1. /\ ListsInv /\ TypeOK /\ running \in Threads /\ Top(running) < MaxLevel[running]
        /\ color[running] # "free" /\ c \in Heap /\ c \in Objs /\ color[c] = "free"
        /\ ups # UpVals /\ UpvalInv /\ Top(running) \in Nat /\ l \in 1..(Top(running) + 1)
    BY HeldIsAlive, Kinds DEF SafeInv, UpvalInv, ListsInv, pushclosure, Room, Alive
  <2>2. MaxLevel[running] \in Nat
    BY <2>1, BoundsAssumption DEF Threads
  <2>3. l \in Nat /\ l \in 1..MaxLevel[running]
    BY <2>1, <2>2
  <2>4. QED
    BY <2>1, <2>3 DEF Slots
<1>2. /\ stk \in [Threads -> Seq(Heap)]
      /\ \A w \in Threads : w # running => stk[w] = stack[w]
      /\ \A w \in Threads : Top(w) <= Len(stk[w]) /\ Len(stk[w]) <= MaxLevel[w]
      /\ Len(stk[running]) = Top(running) + 1
  BY <1>1, Pushing DEF Pushed
<1>3. /\ stack' = stk /\ color' = [color EXCEPT ![c] = "white"]
      /\ uv' = [uv EXCEPT ![c] = f.u]
      /\ openupval' = [openupval EXCEPT ![running] = f.list]
      /\ UNCHANGED <<unlinked, gray, running, value>>
  BY <1>0 DEF pushclosure
<1>4. /\ f.u \in UpVals
      /\ f.u \in ups => v[f.u] = <<running, l>> /\ f.list = openupval[running]
      /\ f.u \notin ups =>
           /\ \A u \in ups : v[u] # <<running, l>>
           /\ f.list \in Seq(UpVals)
           /\ ToSet(f.list) = ToSet(openupval[running]) \cup {f.u}
           /\ \A i, j \in DOMAIN f.list : i < j =>
                /\ f.list[i] = f.u => l > Level(f.list[j])
                /\ f.list[j] = f.u => Level(f.list[i]) > l
                /\ f.u \notin {f.list[i], f.list[j]} => Level(f.list[i]) > Level(f.list[j])
                /\ f.list[i] # f.list[j]
  <2>1. ListsInv /\ running \in Threads /\ l \in Nat /\ <<running, l>> \in Slots /\ ups # UpVals
    BY <1>1
  <2> HIDE DEF stk
  <2>2. QED
    <3>1. Finds(f, running, l)
      BY <1>0, <2>1, FindList
    <3>2. QED
      BY <3>1 DEF Finds
<1>5. \A w \in Threads : Top(w) <= Top(w)' /\ Top(w)' <= MaxLevel[w]
  BY <1>2, <1>3 DEF Top
<1>6. CASE f.u \in ups
  <2>1. /\ refcount' = [refcount EXCEPT ![f.u] = @ + 1]
        /\ UNCHANGED <<ups, v, touched, twups>>
    BY <1>0, <1>6 DEF pushclosure, Counted
  <2> HIDE DEF stk
  <2>2. openupval' = openupval
    BY <1>1, <1>3, <1>4, <1>6 DEF TypeOK
  <2>3. TypeOK'
    BY SMTT(60), <1>1, <1>2, <1>3, <1>4, <2>1, <2>2, Kinds DEF TypeOK, unlinked
  <2>4. RefcountsRight'
    BY <1>1, <1>3, <1>4, <1>6, <2>1, CountNewClosure
  <2>5. FreeInv'
    BY <1>1, <1>2, <1>3, <2>2, Kinds DEF UpvalInv, FreeInv, TypeOK
  <2>6. ListsInv'
    BY <1>1, <1>5, <2>1, <2>2, <2>3, ListsStay
  <2>7. QED
    BY <2>4, <2>5, <2>6 DEF UpvalInv
<1>7. CASE f.u \notin ups
  <2>1. /\ refcount' = [refcount EXCEPT ![f.u] = 1]
        /\ ups' = ups \cup {f.u}
        /\ v' = [v EXCEPT ![f.u] = <<running, l>>]
        /\ touched' = [touched EXCEPT ![f.u] = TRUE]
        /\ twups' = twups \cup {running}
    BY <1>0, <1>7 DEF pushclosure
  <2> HIDE DEF stk
  <2>2. TypeOK'
    BY <1>1, <1>2, <1>3, <1>4, <1>7, <2>1, Kinds DEF TypeOK, unlinked
  <2>3. \A w \in ups : v'[w] = v[w]
    BY <1>1, <1>7, <2>1 DEF TypeOK
  <2>4. RefcountsRight'
    BY <1>1, <1>3, <1>4, <1>7, <2>1, <2>3, CountNewClosure
  <2>5. FreeInv'
    BY <1>1, <1>2, <1>3, Kinds DEF UpvalInv, FreeInv, TypeOK
  <2>6. /\ v'[f.u] = <<running, l>>
        /\ Level(f.u)' = l
        /\ \A u \in ups : Level(u)' = Level(u) /\ (upisopen(u)' <=> upisopen(u))
    <3>1. v'[f.u] = <<running, l>>
      BY <1>1, <1>4, <2>1 DEF TypeOK
    <3>2. QED
      BY <2>3, <3>1 DEF Level, upisopen
  <2>7. OpenListSorted'
    <3>1. ASSUME NEW t \in Threads, t # running
          PROVE  /\ \A i \in DOMAIN openupval'[t] :
                      /\ openupval'[t][i] \in ups'
                      /\ v'[openupval'[t][i]] \in {t} \X (1..Top(t)')
                 /\ \A i, j \in DOMAIN openupval'[t] :
                      i < j => v'[openupval'[t][i]][2] > v'[openupval'[t][j]][2]
      <4>1. openupval'[t] = openupval[t] /\ Top(t)' = Top(t)
        BY <1>1, <1>2, <1>3, <3>1 DEF TypeOK, Top
      <4>2. \A i \in DOMAIN openupval[t] : openupval[t][i] \in ups
        BY <1>1 DEF ListsInv, OpenListSorted
      <4>3. QED
        BY <1>1, <2>1, <2>3, <4>1, <4>2 DEF ListsInv, OpenListSorted
    <3>2. openupval'[running] = f.list /\ Top(running)' = Top(running) + 1
      BY <1>1, <1>2, <1>3 DEF TypeOK, Top
    <3>3. ASSUME NEW i \in DOMAIN f.list
          PROVE  f.list[i] \in ups' /\ v'[f.list[i]] \in {running} \X (1..Top(running)')
      <4>1. f.list[i] \in ToSet(openupval[running]) \cup {f.u}
        <5>1. f.list[i] \in ToSet(f.list)
          BY DEF ToSet
        <5>2. QED
          BY <1>4, <1>7, <5>1
      <4>2. CASE f.list[i] = f.u
        BY <1>1, <2>1, <2>6, <3>2, <4>2
      <4>3. CASE f.list[i] \in ToSet(openupval[running])
        <5>1. /\ f.list[i] \in ups /\ Level(f.list[i]) \in 1..Top(running)
              /\ v[f.list[i]] = <<running, Level(f.list[i])>>
          BY <1>1, <4>3, OpenList
        <5>2. QED
          BY <1>1, <2>1, <2>3, <3>2, <5>1
      <4>4. QED
        BY <4>1, <4>2, <4>3
    <3>4. ASSUME NEW i \in DOMAIN f.list, NEW j \in DOMAIN f.list, i < j
          PROVE  v'[f.list[i]][2] > v'[f.list[j]][2]
      <4>1. \A m \in DOMAIN f.list : f.list[m] = f.u \/ f.list[m] \in ups
        BY <2>1, <3>3
      <4>2. QED
        BY <1>4, <1>7, <2>6, <3>4, <4>1 DEF Level
    <3>5. ASSUME NEW u \in ups', upisopen(u)' PROVE u \in ToSet(openupval'[v'[u][1]])
      <4>1. CASE u = f.u
        BY <1>4, <1>7, <2>6, <3>2, <4>1
      <4>2. CASE u # f.u
        <5>1. u \in ups /\ v'[u] = v[u] /\ upisopen(u)
          BY <2>1, <2>3, <2>6, <3>5, <4>2
        <5>2. v[u][1] \in Threads /\ u \in ToSet(openupval[v[u][1]])
          BY <1>1, <5>1, Reads
        <5>3. QED
          BY <1>1, <1>3, <1>4, <1>7, <3>2, <5>1, <5>2 DEF TypeOK
      <4>3. QED
        BY <4>1, <4>2
    <3>6. ASSUME NEW t \in Threads
          PROVE  /\ \A i \in DOMAIN openupval'[t] :
                      /\ openupval'[t][i] \in ups'
                      /\ v'[openupval'[t][i]] \in {t} \X (1..Top(t)')
                 /\ \A i, j \in DOMAIN openupval'[t] :
                      i < j => v'[openupval'[t][i]][2] > v'[openupval'[t][j]][2]
      <4>1. CASE t = running
        <5>1. openupval'[t] = f.list /\ Top(t)' = Top(running)' /\ t = running
          BY <1>3, <3>2, <4>1
        <5>2. QED
          BY <3>3, <3>4, <5>1
      <4>2. QED
        BY <3>1, <4>1
    <3>7. QED
      BY <3>5, <3>6 DEF OpenListSorted
  <2>8. QED
    BY <1>5, <2>2, <2>4, <2>5, <2>7 DEF UpvalInv, ListsInv, Fits
<1>8. QED
  BY <1>6, <1>7

\* What luaF_close changes.
LEMMA CloseEffect ==
  ASSUME ListsInv, NEW t \in Threads, NEW level \in Nat, luaF_close(t, level)
  PROVE  /\ ups' = ups \ {u \in Gone(t, level) : refcount[u] = 0}
         /\ v' = [u \in UpVals |-> IF u \in Gone(t, level) THEN Own ELSE v[u]]
         /\ value' = [u \in UpVals |-> IF u \in Gone(t, level) /\ refcount[u] # 0
                                       THEN Read(u) ELSE value[u]]
         /\ touched' = [u \in UpVals |-> touched[u] /\ u \notin Gone(t, level)]
         /\ openupval' \in [Threads -> Seq(UpVals)]
         /\ \A w \in Threads : w # t => openupval'[w] = openupval[w]
         /\ ToSet(openupval'[t]) = ToSet(openupval[t]) \ Gone(t, level)
         /\ \A i, j \in DOMAIN openupval'[t] :
              i < j => Level(openupval'[t][i]) > Level(openupval'[t][j])
<1> DEFINE gone == {openupval[t][i] : i \in 1..Above(t, level)}
           rest == SubSeq(openupval[t], Above(t, level) + 1, Len(openupval[t]))
<1>1. /\ gone = Gone(t, level) /\ rest \in Seq(UpVals)
      /\ ToSet(rest) = ToSet(openupval[t]) \ Gone(t, level)
      /\ \A i, j \in DOMAIN rest : i < j => Level(rest[i]) > Level(rest[j])
  BY CloseList
<1>2. /\ openupval' = [openupval EXCEPT ![t] = rest]
      /\ ups' = ups \ (gone \ {u \in gone : refcount[u] # 0})
      /\ v' = [u \in UpVals |-> IF u \in gone THEN Own ELSE v[u]]
      /\ value' = [u \in UpVals |-> IF u \in {w \in gone : refcount[w] # 0}
                                    THEN Read(u) ELSE value[u]]
      /\ touched' = [u \in UpVals |-> touched[u] /\ u \notin gone]
  BY DEF luaF_close, ClosedValue
<1> HIDE DEF gone, rest
<1>3. openupval'[t] = rest /\ openupval' \in [Threads -> Seq(UpVals)]
      /\ \A w \in Threads : w # t => openupval'[w] = openupval[w]
  BY <1>1, <1>2 DEF ListsInv, TypeOK
<1>4. ups' = ups \ {u \in Gone(t, level) : refcount[u] = 0}
  BY <1>1, <1>2
<1>5. v' = [u \in UpVals |-> IF u \in Gone(t, level) THEN Own ELSE v[u]]
  BY <1>1, <1>2
<1>6. value' = [u \in UpVals |-> IF u \in Gone(t, level) /\ refcount[u] # 0
                                 THEN Read(u) ELSE value[u]]
  BY <1>1, <1>2
<1>7. touched' = [u \in UpVals |-> touched[u] /\ u \notin Gone(t, level)]
  BY <1>1, <1>2
<1>8. QED
  BY <1>1, <1>3, <1>4, <1>5, <1>6, <1>7

\* The types of what luaF_close changes; its values stay what they were.
LEMMA CloseTypes ==
  ASSUME ListsInv, NEW t \in Threads, NEW level \in Nat, luaF_close(t, level)
  PROVE  /\ openupval' \in [Threads -> Seq(UpVals)] /\ ups' \subseteq UpVals
         /\ v' \in [UpVals -> Slots \cup {Own}] /\ value' \in [UpVals -> Heap \cup {Nil}]
         /\ touched' \in [UpVals -> BOOLEAN]
         /\ \A u \in ups' \cap Gone(t, level) : ~upisopen(u)' /\ value'[u] = Read(u)
         /\ \A u \in ups' \ Gone(t, level) : v'[u] = v[u] /\ value'[u] = value[u]
<1>1. \A u \in Gone(t, level) : u \in UpVals /\ Read(u) \in Heap
  BY Reads DEF Gone
<1>2. TypeOK
  BY DEF ListsInv
<1> DEFINE G == Gone(t, level)
<1>3. /\ ups' = ups \ {u \in G : refcount[u] = 0}
      /\ v' = [u \in UpVals |-> IF u \in G THEN Own ELSE v[u]]
      /\ value' = [u \in UpVals |-> IF u \in G /\ refcount[u] # 0 THEN Read(u) ELSE value[u]]
      /\ touched' = [u \in UpVals |-> touched[u] /\ u \notin G]
      /\ openupval' \in [Threads -> Seq(UpVals)]
  BY CloseEffect
<1> HIDE DEF G
<1>4. ups' \subseteq UpVals /\ v' \in [UpVals -> Slots \cup {Own}]
      /\ touched' \in [UpVals -> BOOLEAN]
  BY <1>2, <1>3 DEF TypeOK
<1>5. value' \in [UpVals -> Heap \cup {Nil}]
  BY <1>1, <1>2, <1>3 DEF TypeOK, G
<1>6. \A u \in ups' \cap G : ~upisopen(u)' /\ value'[u] = Read(u)
  BY <1>2, <1>3 DEF TypeOK, upisopen
<1>7. \A u \in ups' \ G : v'[u] = v[u] /\ value'[u] = value[u]
  BY <1>2, <1>3 DEF TypeOK
<1>8. QED
  BY <1>3, <1>4, <1>5, <1>6, <1>7 DEF G

\* luaF_close on a stack that is cut at the level.
LEMMA CloseStruct ==
  ASSUME UpvalInv, TypeOK', NEW t \in Threads, NEW level \in Nat \ {0}, luaF_close(t, level),
         UNCHANGED <<uv, refcount>>,
         \A w \in Threads : w # t => Top(w)' = Top(w),
         level - 1 <= Top(t)', Top(t)' <= MaxLevel[t],
         \A c \in Closures : color'[c] = "free" <=> color[c] = "free"
  PROVE  ListsInv' /\ RefcountsRight'
<1> DEFINE G == Gone(t, level)
<1>1. /\ ups' = ups \ {u \in G : refcount[u] = 0}
      /\ v' = [u \in UpVals |-> IF u \in G THEN Own ELSE v[u]]
      /\ \A w \in Threads : w # t => openupval'[w] = openupval[w]
      /\ ToSet(openupval'[t]) = ToSet(openupval[t]) \ G
      /\ \A i, j \in DOMAIN openupval'[t] :
           i < j => Level(openupval'[t][i]) > Level(openupval'[t][j])
      /\ openupval' \in [Threads -> Seq(UpVals)]
  BY CloseEffect DEF UpvalInv
<1>2. /\ TypeOK /\ ListsInv /\ ups \subseteq UpVals
      /\ \A w \in Threads : Top(w) \in Nat /\ Top(w)' \in Nat
  BY LenProperties DEF UpvalInv, ListsInv, TypeOK, Top
<1>3. /\ \A u \in ups' : u \in ups /\ u \in UpVals
      /\ \A u \in ups \ G : u \in ups' /\ v'[u] = v[u]
      /\ \A u \in G : v'[u] = Own
  BY <1>1, <1>2, Reads DEF Gone
<1>4. \A u \in ToSet(openupval[t]) \ G :
        u \in ups /\ v[u] = <<t, Level(u)>> /\ Level(u) \in 1..Top(t)'
  <2>1. ASSUME NEW u \in ToSet(openupval[t]), u \notin G
        PROVE  u \in ups /\ v[u] = <<t, Level(u)>> /\ Level(u) \in 1..Top(t)'
    <3>1. u \in ups /\ upisopen(u) /\ v[u][1] = t /\ v[u] = <<t, Level(u)>> /\ Level(u) \in 1..Top(t)
      BY <1>2, <2>1, OpenList
    <3>2. Level(u) < level
      BY <1>2, <2>1, <3>1 DEF Gone
    <3>3. QED
      BY <1>2, <3>1, <3>2
  <2>2. QED
    BY <2>1
<1> HIDE DEF G
<1>5. ASSUME NEW w \in Threads
      PROVE  /\ \A i \in DOMAIN openupval'[w] :
                  /\ openupval'[w][i] \in ups'
                  /\ v'[openupval'[w][i]] \in {w} \X (1..Top(w)')
             /\ \A i, j \in DOMAIN openupval'[w] :
                  i < j => v'[openupval'[w][i]][2] > v'[openupval'[w][j]][2]
  <2>1. CASE w = t
    <3>1. \A i \in DOMAIN openupval'[t] : openupval'[t][i] \in ToSet(openupval[t]) \ G
      <4>1. \A i \in DOMAIN openupval'[t] : openupval'[t][i] \in ToSet(openupval'[t])
        BY DEF ToSet
      <4>2. QED
        BY <1>1, <4>1
    <3>2. \A u \in ToSet(openupval[t]) \ G :
            u \in ups' /\ v'[u] = v[u] /\ v'[u] \in {t} \X (1..Top(t)')
      BY <1>3, <1>4
    <3>3. \A i, j \in DOMAIN openupval'[t] :
            i < j => v'[openupval'[t][i]][2] > v'[openupval'[t][j]][2]
      <4>1. \A u \in ToSet(openupval[t]) \ G : v'[u][2] = Level(u)
        BY <3>2 DEF Level
      <4>2. QED
        BY <1>1, <3>1, <4>1
    <3>4. \A i \in DOMAIN openupval'[t] :
            openupval'[t][i] \in ups' /\ v'[openupval'[t][i]] \in {t} \X (1..Top(t)')
      BY <3>1, <3>2
    <3>5. QED
      BY <2>1, <3>3, <3>4
  <2>2. CASE w # t
    <3>1. \A i \in DOMAIN openupval[w] :
            /\ openupval[w][i] \in ups \ G
            /\ v[openupval[w][i]] \in {w} \X (1..Top(w))
      <4>1. \A i \in DOMAIN openupval[w] :
              openupval[w][i] \in ups /\ v[openupval[w][i]] \in {w} \X (1..Top(w))
        BY <1>2 DEF ListsInv, OpenListSorted
      <4>2. QED
        BY <2>2, <4>1 DEF G, Gone
    <3>2. \A i, j \in DOMAIN openupval[w] :
            i < j => v[openupval[w][i]][2] > v[openupval[w][j]][2]
      BY <1>2 DEF ListsInv, OpenListSorted
    <3>3. openupval'[w] = openupval[w] /\ Top(w)' = Top(w)
      BY <1>1, <2>2
    <3>4. QED
      BY <1>3, <3>1, <3>2, <3>3
  <2>3. QED
    BY <2>1, <2>2
<1>6. ASSUME NEW u \in ups', upisopen(u)' PROVE u \in ToSet(openupval'[v'[u][1]])
  <2>1. u \in ups \ G /\ v'[u] = v[u] /\ upisopen(u)
    BY <1>3, <1>6 DEF upisopen
  <2>2. v[u][1] \in Threads /\ u \in ToSet(openupval[v[u][1]])
    BY <1>2, <2>1, Reads
  <2>3. QED
    BY <1>1, <2>1, <2>2
<1>7. OpenListSorted'
  BY <1>5, <1>6 DEF OpenListSorted
<1>8. RefcountsRight'
  <2>1. ASSUME NEW c \in Closures, color[c] # "free" PROVE uv[c] \in ups'
    <3>1. uv[c] \in ups /\ refcount[uv[c]] = Cardinality(Users(uv[c])) /\ Users(uv[c]) # {}
      BY <2>1 DEF UpvalInv, RefcountsRight, Users
    <3>2. QED
      BY <1>1, <3>1, UsersFinite
  <2>2. ASSUME NEW u \in ups'
        PROVE  /\ refcount[u] = Cardinality({c \in Closures : uv[c] = u})
               /\ refcount[u] = 0 => upisopen(u)'
    <3>1. /\ refcount[u] = Cardinality({c \in Closures : uv[c] = u})
          /\ refcount[u] = 0 => upisopen(u)
      BY <1>3 DEF UpvalInv, RefcountsRight
    <3>2. refcount[u] = 0 => u \notin G
      BY <1>1
    <3>3. QED
      BY <1>3, <3>1, <3>2 DEF upisopen
  <2>3. QED
    BY <2>1, <2>2 DEF RefcountsRight
<1>9. Fits'
  BY <1>2 DEF Fits, ListsInv
<1>10. QED
  BY <1>7, <1>8, <1>9 DEF ListsInv

\* A stack is cut at a level.
Cut(t, level) == [stack EXCEPT ![t] = SubSeq(@, 1, level - 1)]

\* What is left of a stack that is cut.
LEMMA Cutting ==
  ASSUME ListsInv, NEW t \in Threads, NEW level \in Nat \ {0}, level <= Top(t) + 1
  PROVE  LET stk == Cut(t, level) IN
         /\ stk \in [Threads -> Seq(Heap)]
         /\ \A w \in Threads : w # t => stk[w] = stack[w]
         /\ Len(stk[t]) = level - 1 /\ level - 1 \in Nat
         /\ Len(stk[t]) <= MaxLevel[t]
         /\ \A l \in 1..(level - 1) : stk[t][l] = stack[t][l]
         /\ ToSet(stk[t]) \subseteq ToSet(stack[t])
<1> DEFINE cut == SubSeq(stack[t], 1, level - 1)
<1>1. /\ stack \in [Threads -> Seq(Heap)] /\ stack[t] \in Seq(Heap) /\ Top(t) = Len(stack[t])
      /\ Top(t) \in Nat /\ Top(t) <= MaxLevel[t] /\ MaxLevel[t] \in Nat
      /\ \A i \in 1..Top(t) : stack[t][i] \in Heap
      /\ DOMAIN stack[t] = 1..Top(t)
  BY LenProperties, ElementOfSeq, BoundsAssumption DEF ListsInv, TypeOK, Top, Fits, Threads
<1>2. /\ cut \in Seq(Heap) /\ Len(cut) = level - 1
      /\ \A l \in 1..(level - 1) : cut[l] = stack[t][l]
  <2>1. /\ \A i \in 1..(level - 1) : stack[t][i] \in Heap
        /\ 1 \in Int /\ level - 1 \in Int /\ level - 1 \in Nat
    BY <1>1
  <2>2. /\ cut \in Seq(Heap) /\ Len(cut) = IF 1 <= level - 1 THEN (level - 1) - 1 + 1 ELSE 0
        /\ \A i \in 1..((level - 1) - 1 + 1) : cut[i] = stack[t][1 + i - 1]
    BY <2>1, SubSeqProperties
  <2> HIDE DEF cut
  <2>3. QED
    BY <2>1, <2>2
<1> HIDE DEF cut
<1>3. ToSet(cut) \subseteq ToSet(stack[t])
  <2>1. DOMAIN cut = 1..(level - 1)
    BY <1>2, LenProperties
  <2>2. QED
    BY <1>1, <1>2, <2>1 DEF ToSet
<1>4. QED
  <2>1. Cut(t, level) = [stack EXCEPT ![t] = cut]
    BY <1>1 DEF cut, Cut
  <2>2. QED
    BY <1>1, <1>2, <1>3, <2>1

\* luaF_close takes the upvalues of the slots that go from the front of the list.
LEMMA StructLeave ==
  ASSUME SafeInv, NEW level \in Levels, Leave(level)
  PROVE  UpvalInv'
<1> DEFINE stk == Cut(running, level)
<1>1. /\ UpvalInv /\ ListsInv /\ TypeOK /\ running \in Threads /\ color[running] # "free"
      /\ Top(running) \in Nat /\ level \in 1..Top(running)
  BY HeldIsAlive DEF SafeInv, UpvalInv, ListsInv, Leave, Alive
<1>2. level \in Nat \ {0} /\ level \in Nat /\ level <= Top(running) + 1
  BY <1>1
<1>3. /\ stk \in [Threads -> Seq(Heap)]
      /\ \A w \in Threads : w # running => stk[w] = stack[w]
      /\ Len(stk[running]) = level - 1 /\ level - 1 \in Nat /\ Len(stk[running]) <= MaxLevel[running]
  BY <1>1, <1>2, Cutting
<1>4. /\ luaF_close(running, level) /\ stack' = stk
      /\ UNCHANGED <<unlinked, running, twups, uv, refcount>>
      /\ luaC_upvalbarrier({stack[running][l] : l \in CapturedFrom(running, level)})
  BY DEF Leave, Cut
<1> HIDE DEF stk
<1>5. /\ color' \in [Objs -> {"free", "white", "dead", "gray", "black"}]
      /\ \A o \in Objs : color'[o] = "free" <=> color[o] = "free"
      /\ \A t \in Threads : color'[t] # "black"
      /\ gray' \subseteq Threads \cup Closures
  BY <1>1, <1>4, MarkTypes
<1>6. /\ openupval' \in [Threads -> Seq(UpVals)] /\ ups' \subseteq UpVals
      /\ v' \in [UpVals -> Slots \cup {Own}] /\ value' \in [UpVals -> Heap \cup {Nil}]
      /\ touched' \in [UpVals -> BOOLEAN]
  BY <1>1, <1>2, <1>4, CloseTypes
<1>7. TypeOK'
  BY <1>1, <1>3, <1>4, <1>5, <1>6 DEF TypeOK, unlinked
<1>8. ListsInv' /\ RefcountsRight'
  <2>1. /\ level - 1 <= Len(stack'[running]) /\ Len(stack'[running]) <= MaxLevel[running]
        /\ \A w \in Threads : w # running => Len(stack'[w]) = Len(stack[w])
    BY <1>3, <1>4
  <2>2. \A c \in Closures : color'[c] = "free" <=> color[c] = "free"
    BY <1>5, Kinds
  <2>3. UNCHANGED <<uv, refcount>>
    BY <1>4
  <2>4. QED
    BY <1>1, <1>2, <1>4, <1>7, <2>1, <2>2, <2>3, CloseStruct DEF Top
<1>9. FreeInv'
  <2>1. \A w \in Threads : w # running => openupval'[w] = openupval[w] /\ stack'[w] = stack[w]
    BY <1>1, <1>2, <1>3, <1>4, CloseEffect
  <2>2. QED
    BY <1>1, <1>4, <1>5, <2>1, Kinds DEF UpvalInv, FreeInv
<1>10. QED
  BY <1>8, <1>9 DEF UpvalInv

\* luaE_freethread.
LEMMA StructFreeThread ==
  ASSUME SafeInv, NEW t \in Coroutines, t \in Allocated, luaE_freethread(t),
         color' = [color EXCEPT ![t] = "free"], unswept' \subseteq unswept,
         UNCHANGED <<gcstate, apc, gray, grayagain, running, twups, todo>>
  PROVE  UpvalInv'
<1>1. /\ UpvalInv /\ ListsInv /\ TypeOK /\ t \in Threads /\ t \in Objs /\ t \notin Closures
      /\ MaxLevel[t] \in Nat
  BY Kinds, BoundsAssumption DEF SafeInv, UpvalInv, ListsInv, Threads
<1>2. luaF_close(t, 1) /\ stack' = [stack EXCEPT ![t] = <<>>] /\ UNCHANGED <<uv, refcount>>
  BY DEF luaE_freethread
<1>3. /\ openupval' \in [Threads -> Seq(UpVals)] /\ ups' \subseteq UpVals
      /\ v' \in [UpVals -> Slots \cup {Own}] /\ value' \in [UpVals -> Heap \cup {Nil}]
      /\ touched' \in [UpVals -> BOOLEAN]
  BY <1>1, <1>2, CloseTypes
<1>4. /\ stack' \in [Threads -> Seq(Heap)] /\ stack'[t] = <<>>
      /\ \A w \in Threads : w # t => stack'[w] = stack[w]
  BY <1>1, <1>2, EmptySeq DEF TypeOK
<1>5. TypeOK'
  BY <1>1, <1>2, <1>3, <1>4 DEF TypeOK
<1>6. ListsInv' /\ RefcountsRight'
  <2>1. /\ 1 - 1 <= Len(stack'[t]) /\ Len(stack'[t]) <= MaxLevel[t]
        /\ \A w \in Threads : w # t => Len(stack'[w]) = Len(stack[w])
    BY <1>1, <1>4, EmptySeq
  <2>2. \A c \in Closures : color'[c] = "free" <=> color[c] = "free"
    BY <1>1, Kinds DEF TypeOK
  <2>3. 1 \in Nat \ {0}
    OBVIOUS
  <2>4. QED
    BY <1>1, <1>2, <1>5, <2>1, <2>2, <2>3, CloseStruct DEF Top
<1>7. openupval'[t] = <<>> /\ \A w \in Threads : w # t => openupval'[w] = openupval[w]
  <2>1. /\ \A w \in Threads : w # t => openupval'[w] = openupval[w]
        /\ ToSet(openupval'[t]) = ToSet(openupval[t]) \ Gone(t, 1)
    BY <1>1, <1>2, CloseEffect
  <2>2. ToSet(openupval[t]) \subseteq Gone(t, 1)
    BY <1>1, OpenList DEF Gone
  <2>3. openupval'[t] \in Seq(UpVals) /\ ToSet(openupval'[t]) = {}
    BY <1>1, <1>3, <2>1, <2>2
  <2>4. openupval'[t] # <<>> => 1 \in DOMAIN openupval'[t]
    BY <2>3, EmptySeq, LenProperties
  <2>5. QED
    BY <2>1, <2>3, <2>4 DEF ToSet
<1>8. FreeInv'
  BY <1>1, <1>2, <1>4, <1>7, Kinds DEF UpvalInv, FreeInv, TypeOK
<1>9. QED
  BY <1>6, <1>8 DEF UpvalInv

\* luaC_upvdeccount: a closure lets go of its upvalue, for another one perhaps.
LEMMA Releasing ==
  ASSUME UpvalInv, TypeOK', NEW c \in Closures, uv[c] \in ups, NEW x \in ups \cup {None}, x # uv[c],
         Release(uv[c]), uv' = [uv EXCEPT ![c] = x],
         refcount' = IF x = None THEN Uncounted(refcount, uv[c])
                     ELSE Counted(Uncounted(refcount, uv[c]), x),
         UNCHANGED <<stack, openupval, v>>,
         \A d \in Closures : color[d] = "free" \/ (d = c /\ x = None) => color'[d] = "free"
  PROVE  ListsInv' /\ RefcountsRight'
<1> DEFINE u == uv[c]
<1>1. /\ ListsInv /\ TypeOK /\ uv \in [Closures -> UpVals \cup {None}] /\ u \in UpVals
      /\ refcount \in [UpVals -> Nat] /\ ups \subseteq UpVals
      /\ refcount[u] = Cardinality(Users(u)) /\ None \notin ups
  BY ObjectsAssumption DEF UpvalInv, ListsInv, TypeOK, RefcountsRight, Users
<1>2. /\ Cardinality(Users(x)') = Cardinality(Users(x)) + 1
      /\ Cardinality(Users(u)) >= 1
      /\ \A y : y = u => Cardinality({d \in Closures : uv'[d] = y}) = Cardinality(Users(y)) - 1
      /\ \A y : y \notin {x, u} => {d \in Closures : uv'[d] = y} = Users(y)
  BY <1>1, UsersMove
<1>3. /\ refcount'[u] = refcount[u] - 1
      /\ x # None => refcount'[x] = refcount[x] + 1
      /\ \A w \in UpVals : w \notin {u, x} => refcount'[w] = refcount[w]
  BY <1>1 DEF Counted, Uncounted
<1>4. /\ ups' \subseteq ups /\ ups \ {u} \subseteq ups'
      /\ u \in ups' <=> ~(refcount[u] - 1 = 0 /\ ~upisopen(u))
  BY <1>1 DEF Release, Uncounted
<1>5. ASSUME NEW d \in Closures, color'[d] # "free" PROVE uv'[d] \in ups'
  <2>1. CASE d = c
    BY <1>1, <1>4, <1>5, <2>1 DEF UpvalInv, FreeInv
  <2>2. CASE d # c
    <3>1. uv'[d] = uv[d] /\ color[d] # "free" /\ uv[d] \in ups
      BY <1>1, <1>5, <2>2 DEF UpvalInv, RefcountsRight
    <3>2. CASE uv[d] = u
      <4>1. {e \in Closures : uv'[e] = u} # {}
        BY <3>1, <3>2
      <4>2. IsFiniteSet({e \in Closures : uv'[e] = u})
        <5>1. {e \in Closures : uv'[e] = u} \in SUBSET Closures
          OBVIOUS
        <5>2. QED
          BY <5>1, ObjectsAssumption, FS_Subset
      <4>3. Cardinality({e \in Closures : uv'[e] = u}) # 0
        BY <4>1, <4>2, FS_EmptySet
      <4>4. QED
        BY <1>1, <1>2, <1>4, <3>1, <3>2, <4>3
    <3>3. QED
      BY <1>4, <3>1, <3>2
  <2>3. QED
    BY <2>1, <2>2
<1>6. ASSUME NEW w \in ups'
      PROVE  /\ refcount'[w] = Cardinality({d \in Closures : uv'[d] = w})
             /\ refcount'[w] = 0 => upisopen(w)'
  <2>1. w \in ups /\ w \in UpVals /\ refcount[w] = Cardinality(Users(w))
        /\ (refcount[w] = 0 => upisopen(w)) /\ (upisopen(w)' <=> upisopen(w))
    BY <1>1, <1>4 DEF UpvalInv, RefcountsRight, Users, upisopen
  <2>2. CASE w = u
    BY <1>1, <1>2, <1>3, <1>4, <2>1, <2>2
  <2>3. CASE w = x
    BY <1>1, <1>2, <1>3, <2>1, <2>3 DEF Users
  <2>4. CASE w \notin {u, x}
    BY <1>2, <1>3, <2>1, <2>4
  <2>5. QED
    BY <2>2, <2>3, <2>4
<1>7. RefcountsRight'
  BY <1>5, <1>6 DEF RefcountsRight
<1>8. OpenListSorted'
  <2>1. \A w \in ups : upisopen(w) => w \in ups'
    BY <1>4
  <2>2. \A t \in Threads : \A i \in DOMAIN openupval[t] :
          openupval[t][i] \in ups' /\ v[openupval[t][i]] \in {t} \X (1..Top(t))
    <3>1. ASSUME NEW t \in Threads, NEW i \in DOMAIN openupval[t]
          PROVE  openupval[t][i] \in ups' /\ v[openupval[t][i]] \in {t} \X (1..Top(t))
      <4>1. openupval[t][i] \in ToSet(openupval[t])
        BY DEF ToSet
      <4>2. openupval[t][i] \in ups /\ upisopen(openupval[t][i])
        BY <1>1, <4>1, OpenList
      <4>3. QED
        BY <1>1, <2>1, <4>2 DEF ListsInv, OpenListSorted
    <3>2. QED
      BY <3>1
  <2>3. \A t \in Threads : Top(t)' = Top(t)
    BY DEF Top
  <2>4. \A t \in Threads : \A i, j \in DOMAIN openupval[t] :
          i < j => v[openupval[t][i]][2] > v[openupval[t][j]][2]
    BY <1>1 DEF ListsInv, OpenListSorted
  <2>5. \A w \in ups' : upisopen(w)' => w \in ToSet(openupval[v[w][1]])
    BY <1>1, <1>4 DEF ListsInv, OpenListSorted, upisopen
  <2>6. QED
    BY <2>2, <2>3, <2>4, <2>5 DEF OpenListSorted
<1>9. Fits'
  BY <1>1 DEF Fits, ListsInv, Top
<1>10. QED
  BY <1>7, <1>8, <1>9 DEF ListsInv

\* A sweep frees closures, whose upvalues lose a reference, and threads, whose list goes with them.
LEMMA StructSweep ==
  ASSUME SafeInv, NEW o \in Heap, Sweep(o)
  PROVE  UpvalInv'
<1>1. /\ UpvalInv /\ ListsInv /\ TypeOK /\ gcstate = "sweep" /\ o \in unswept /\ o \in Objs
      /\ o \in Allocated
      /\ unswept' = unswept \ {o}
      /\ UNCHANGED <<gcstate, apc, gray, grayagain, running, twups, todo>>
  BY Kinds DEF SafeInv, UpvalInv, ListsInv, Sweep, PhaseInv
<1>2. CASE color[o] # "dead"
  <2>1. color' = [color EXCEPT ![o] = "white"] /\ UNCHANGED <<stack, openupval, uv, upval>>
    BY <1>2 DEF Sweep
  <2>2. \A w \in Objs : color'[w] = "free" <=> color[w] = "free"
    BY <1>1, <2>1 DEF TypeOK, Allocated
  <2>3. TypeOK'
    BY <1>1, <2>1, Kinds DEF TypeOK, upval
  <2>4. QED
    BY <1>1, <2>1, <2>2, <2>3, StructStays2 DEF upval
<1>3. CASE color[o] = "dead"
  <2>1. color' = [color EXCEPT ![o] = "free"]
    BY <1>3 DEF Sweep
  <2>2. CASE o \in Leaves /\ UNCHANGED <<stack, openupval, uv, upval>>
    <3>1. TypeOK'
      BY <1>1, <2>1, <2>2, Kinds DEF TypeOK, upval
    <3>2. /\ \A c \in Closures : color'[c] = color[c]
          /\ \A t \in Threads : color'[t] = color[t]
      BY <1>1, <2>1, <2>2, Kinds DEF TypeOK
    <3>3. ListsInv'
      <4>1. \A t \in Threads : Top(t) \in Nat /\ Top(t) <= MaxLevel[t] /\ Top(t)' = Top(t)
        BY <1>1, <2>2, LenProperties DEF TypeOK, ListsInv, Fits, Top
      <4>2. QED
        BY <1>1, <2>2, <3>1, <4>1, ListsStay DEF upval
    <3>4. RefcountsRight' /\ FreeInv'
      BY <1>1, <2>2, <3>2 DEF UpvalInv, RefcountsRight, FreeInv, upisopen, upval
    <3>5. QED
      BY <3>3, <3>4 DEF UpvalInv
  <2>3. CASE o \in Closures /\ freeLclosure(o)
    <3>1. /\ refcount' = Uncounted(refcount, uv[o]) /\ Release(uv[o])
          /\ uv' = [uv EXCEPT ![o] = None]
          /\ UNCHANGED <<stack, openupval, v, touched>>
      BY <2>3 DEF freeLclosure
    <3>2. uv[o] \in ups /\ uv[o] \in UpVals /\ None \notin ups
      BY <1>1, <1>3, <2>3, ObjectsAssumption DEF UpvalInv, RefcountsRight, TypeOK
    <3>3. refcount[uv[o]] - 1 \in Nat
      <4>1. o \in Users(uv[o]) /\ refcount[uv[o]] = Cardinality(Users(uv[o]))
        BY <1>1, <2>3, <3>2 DEF Users, UpvalInv, RefcountsRight
      <4>2. QED
        BY <4>1, UsersFinite
    <3>4. refcount' \in [UpVals -> Nat]
      BY <1>1, <3>1, <3>2, <3>3 DEF TypeOK, Uncounted
    <3>5. value' \in [UpVals -> Heap \cup {Nil}] /\ ups' \subseteq UpVals
      BY <1>1, <3>1, <3>2 DEF TypeOK, Release
    <3>6. TypeOK'
      BY <1>1, <2>1, <2>3, <3>1, <3>4, <3>5, Kinds DEF TypeOK
    <3>7. /\ \A d \in Closures : color[d] = "free" \/ d = o => color'[d] = "free"
          /\ \A d \in Closures : color'[d] = "free" => color[d] = "free" \/ d = o
          /\ \A t \in Threads : color'[t] = color[t]
      BY <1>1, <2>1, <2>3, Kinds DEF TypeOK
    <3>8. ListsInv' /\ RefcountsRight'
      <4>1. o \in Closures /\ None \in ups \cup {None} /\ None # uv[o]
        BY <2>3, <3>2
      <4>2. QED
        BY <1>1, <3>1, <3>2, <3>6, <3>7, <4>1, Releasing
    <3>9. FreeInv'
      BY <1>1, <2>3, <3>1, <3>7 DEF UpvalInv, FreeInv, TypeOK
    <3>10. QED
      BY <3>8, <3>9 DEF UpvalInv
  <2>4. CASE o \in Coroutines /\ luaE_freethread(o)
    <3>1. unswept' \subseteq unswept
      BY <1>1
    <3>2. QED
      BY <1>1, <2>1, <2>4, <3>1, StructFreeThread
  <2>5. QED
    BY <1>3, <2>2, <2>3, <2>4 DEF Sweep
<1>4. QED
  BY <1>2, <1>3

\* lua_upvaluejoin with two closures that share their upvalue changes nothing of it.
LEMMA JoinItself ==
  ASSUME SelfJoin = FALSE, SafeInv, NEW f1 \in Closures, NEW f2 \in Closures,
         lua_upvaluejoin(f1, f2), uv[f1] = uv[f2]
  PROVE  UNCHANGED <<uv, ups, refcount, value>>
<1>1. TypeOK /\ uv[f1] \in ups /\ uv[f1] \in UpVals
  BY HeldIsAlive DEF SafeInv, UpvalInv, ListsInv, TypeOK, lua_upvaluejoin
<1>2. upisopen(uv[f1]) \/ refcount[uv[f1]] # 1
  BY DEF lua_upvaluejoin
<1>3. UNCHANGED <<ups, value>>
  BY <1>1, <1>2 DEF lua_upvaluejoin, Release, Uncounted, TypeOK
<1>4. UNCHANGED <<uv, refcount>>
  BY <1>1 DEF lua_upvaluejoin, Counted, Uncounted, TypeOK
<1>5. QED
  BY <1>3, <1>4

\* lua_upvaluejoin moves a reference from one upvalue to another.
LEMMA StructJoin ==
  ASSUME SelfJoin = FALSE, SafeInv, NEW f1 \in Closures, NEW f2 \in Closures,
         lua_upvaluejoin(f1, f2)
  PROVE  UpvalInv'
<1> DEFINE u1 == uv[f1]
           u2 == uv[f2]
<1>1. /\ UpvalInv /\ ListsInv /\ TypeOK /\ u1 \in ups /\ u2 \in ups /\ u1 \in UpVals /\ u2 \in UpVals
      /\ f1 \in Objs /\ color[f1] # "free" /\ color[f2] # "free"
  BY HeldIsAlive, Kinds DEF SafeInv, UpvalInv, ListsInv, TypeOK, lua_upvaluejoin, Alive
<1>2. /\ Release(u1) /\ uv' = [uv EXCEPT ![f1] = u2]
      /\ refcount' = Counted(Uncounted(refcount, u1), u2)
      /\ touched' = [touched EXCEPT ![u2] = @ \/ upisopen(u2)]
      /\ UNCHANGED <<unlinked, running, stack, openupval, twups, v>>
      /\ UNCHANGED marks \/ luaC_upvalbarrier({Read(u2)})
  BY DEF lua_upvaluejoin
<1>3. /\ color' \in [Objs -> {"free", "white", "dead", "gray", "black"}]
      /\ \A o \in Objs : color'[o] = "free" <=> color[o] = "free"
      /\ \A t \in Threads : color'[t] # "black"
      /\ gray' \subseteq Threads \cup Closures
  <2>1. CASE UNCHANGED marks
    BY <1>1, <2>1 DEF marks, TypeOK
  <2>2. CASE luaC_upvalbarrier({Read(u2)})
    BY <1>1, <2>2, MarkTypes
  <2>3. QED
    BY <1>2, <2>1, <2>2
<1>4. touched' \in [UpVals -> BOOLEAN]
  <2>1. touched \in [UpVals -> BOOLEAN] /\ (touched[u2] \/ upisopen(u2)) \in BOOLEAN
    BY <1>1 DEF TypeOK
  <2>2. QED
    BY <1>2, <2>1
<1>5. value' \in [UpVals -> Heap \cup {Nil}] /\ ups' \subseteq UpVals
      /\ uv' \in [Closures -> UpVals \cup {None}]
  BY <1>1, <1>2 DEF TypeOK, Release
<1>6. refcount' \in [UpVals -> Nat]
  <2>1. refcount[u1] - 1 \in Nat
    <3>1. f1 \in Users(u1) /\ refcount[u1] = Cardinality(Users(u1))
      BY <1>1 DEF Users, UpvalInv, RefcountsRight
    <3>2. QED
      BY <3>1, UsersFinite
  <2>2. Uncounted(refcount, u1) \in [UpVals -> Nat]
    BY <1>1, <2>1 DEF TypeOK, Uncounted
  <2>3. QED
    BY <1>1, <1>2, <2>2 DEF Counted
<1>7. TypeOK'
  BY <1>1, <1>2, <1>3, <1>4, <1>5, <1>6 DEF TypeOK, unlinked
<1>8. CASE u1 = u2
  BY <1>1, <1>2, <1>3, <1>7, <1>8, JoinItself, StructStays2
<1>9. CASE u1 # u2
  <2>1. ListsInv' /\ RefcountsRight'
    <3>1. u2 # None /\ u2 \in ups \cup {None}
      BY <1>1, ObjectsAssumption
    <3>2. \A d \in Closures : color[d] = "free" \/ (d = f1 /\ u2 = None) => color'[d] = "free"
      BY <1>3, <3>1, Kinds
    <3>3. QED
      BY <1>1, <1>2, <1>7, <1>9, <3>1, <3>2, Releasing
  <2>2. FreeInv'
    BY <1>1, <1>2, <1>3, Kinds DEF UpvalInv, FreeInv, TypeOK
  <2>3. QED
    BY <2>1, <2>2 DEF UpvalInv
<1>10. QED
  BY <1>8, <1>9

\* The steps of the collector before the sweep.
LEMMA StructPropagate ==
  ASSUME SafeInv, NEW o \in gray, gcstate \in {"propagate", "atomic", "insideatomic"},
         propagatemark(o),
         gcstate' = gcstate \/ (gcstate = "propagate" /\ gcstate' = "atomic")
  PROVE  UpvalInv'
<1>1. /\ UpvalInv /\ TypeOK /\ Marking /\ o \in Threads \cup Closures /\ o \in Objs
      /\ color[o] = "gray"
      /\ color \in [Objs -> {"free", "white", "dead", "gray", "black"}]
  <2>1. UpvalInv /\ TypeOK /\ Marking /\ o \in Threads \cup Closures
    BY DEF SafeInv, UpvalInv, ListsInv, TypeOK, Marking
  <2>2. color[o] = "gray"
    BY <2>1 DEF SafeInv, MarkInv, Linked
  <2>3. QED
    BY <2>1, <2>2, Kinds DEF TypeOK
<1>2. /\ UNCHANGED <<apc, unswept, running, stack, openupval, todo, uv, ups, refcount, v, value>>
      /\ \/ o \in Closures /\ traverseLclosure(o)
         \/ o \in Threads /\ traversethread(o)
  BY DEF propagatemark
<1>3. apc # "none" <=> gcstate' = "insideatomic"
  BY <1>1 DEF TypeOK
<1>4. CASE o \in Closures /\ traverseLclosure(o)
  <2>1. PICK S, later : /\ touched' = [touched EXCEPT ![uv[o]] = @ \/ later] /\ later \in BOOLEAN
                        /\ color' = [Marked(S) EXCEPT ![o] = "black"]
                        /\ gray' = (gray \ {o}) \cup Grayed(S)
                        /\ UNCHANGED <<grayagain, twups>>
    <3>1. \E S, later : /\ later = (upisopen(uv[o]) /\ gcstate # "insideatomic")
                        /\ S = IF later THEN {} ELSE {Read(uv[o])}
      OBVIOUS
    <3>2. PICK S, later : /\ later = (upisopen(uv[o]) /\ gcstate # "insideatomic")
                          /\ S = IF later THEN {} ELSE {Read(uv[o])}
      BY <3>1
    <3>3. later \in BOOLEAN
      BY <3>2
    <3>4. QED
      BY <1>4, <3>2, <3>3, Zenon DEF traverseLclosure
  <2>2. /\ Marked(S) \in [Objs -> {"free", "white", "dead", "gray", "black"}]
        /\ Grayed(S) \subseteq Threads \cup Closures
        /\ \A w \in Objs : Marked(S)[w] = "free" <=> color[w] = "free"
        /\ \A w \in Objs : Marked(S)[w] = "black" <=> color[w] = "black" \/ (w \in Leaves /\ w \in S \cap White)
    BY <1>1, MarkEffect
  <2>3. \A w \in Objs : color'[w] = "free" <=> color[w] = "free"
    BY <1>1, <2>1, <2>2
  <2>4. touched' \in [UpVals -> BOOLEAN]
    BY <1>1, <2>1 DEF TypeOK
  <2>5. /\ color' \in [Objs -> {"free", "white", "dead", "gray", "black"}]
        /\ \A t \in Threads : color'[t] # "black"
        /\ gray' \subseteq Threads \cup Closures
    BY <1>1, <1>4, <2>1, <2>2, Kinds DEF TypeOK
  <2>6. TypeOK'
    BY <1>1, <1>2, <1>3, <2>1, <2>4, <2>5 DEF TypeOK
  <2>7. QED
    BY <1>1, <1>2, <2>3, <2>6, StructStays2
<1>5. CASE o \in Threads /\ traversethread(o)
  <2> DEFINE S == ToSet(stack[o])
  <2>1. /\ color' = Marked(S) /\ gray' = (gray \ {o}) \cup Grayed(S)
        /\ grayagain' = grayagain \cup {o} /\ twups' \subseteq twups \cup {o}
        /\ UNCHANGED touched
    BY <1>5 DEF traversethread
  <2> HIDE DEF S
  <2>2. /\ Marked(S) \in [Objs -> {"free", "white", "dead", "gray", "black"}]
        /\ Grayed(S) \subseteq Threads \cup Closures
        /\ \A w \in Objs : Marked(S)[w] = "free" <=> color[w] = "free"
        /\ \A w \in Objs : Marked(S)[w] = "black" <=> color[w] = "black" \/ (w \in Leaves /\ w \in S \cap White)
    BY <1>1, MarkEffect
  <2>3. TypeOK'
    BY <1>1, <1>2, <1>3, <1>5, <2>1, <2>2, Kinds DEF TypeOK
  <2>4. QED
    BY <1>1, <1>2, <2>1, <2>2, <2>3, StructStays2
<1>6. QED
  BY <1>2, <1>4, <1>5

\* The other steps of the collector: the lists stay sound.
LEMMA StructAtomic ==
  ASSUME SafeInv,
         \/ restartcollection \/ AtomicBegin \/ (\E t \in Threads : remarkupvals(t))
         \/ AtomicGrayAgain \/ AtomicEnd \/ SweepEnds \/ luaC_fullgc
  PROVE  UpvalInv'
<1>1. /\ UpvalInv /\ TypeOK /\ Main \in Objs /\ color[Main] # "free"
      /\ color \in [Objs -> {"free", "white", "dead", "gray", "black"}]
  BY Kinds DEF SafeInv, UpvalInv, ListsInv, PhaseInv, TypeOK
<1>2. CASE restartcollection
  <2>1. /\ gcstate = "pause" /\ gcstate' = "propagate"
        /\ color' = Marked({Main}) /\ gray' = Grayed({Main}) /\ grayagain' = {}
        /\ UNCHANGED <<apc, unswept, running, stack, openupval, twups, todo, uv, upval>>
    BY <1>2 DEF restartcollection
  <2>2. /\ Marked({Main}) \in [Objs -> {"free", "white", "dead", "gray", "black"}]
        /\ Grayed({Main}) \subseteq Threads \cup Closures
        /\ \A w \in Objs : Marked({Main})[w] = "free" <=> color[w] = "free"
        /\ \A w \in Objs : Marked({Main})[w] = "black" <=>
             color[w] = "black" \/ (w \in Leaves /\ w \in {Main} \cap White)
    BY <1>1, MarkEffect
  <2>3. TypeOK'
    BY <1>1, <2>1, <2>2, Kinds DEF TypeOK, upval
  <2>4. QED
    BY <1>1, <2>1, <2>2, <2>3, StructStays2 DEF upval
<1>3. CASE AtomicBegin
  <2>1. /\ gcstate = "atomic" /\ gcstate' = "insideatomic" /\ apc' = "remark"
        /\ mark({running}) /\ todo' = twups
        /\ UNCHANGED <<unswept, grayagain, running, stack, openupval, twups, uv, upval>>
    BY <1>3 DEF AtomicBegin
  <2>2. /\ color' \in [Objs -> {"free", "white", "dead", "gray", "black"}]
        /\ \A o \in Objs : color'[o] = "free" <=> color[o] = "free"
        /\ \A t \in Threads : color'[t] # "black"
        /\ gray' \subseteq Threads \cup Closures
    BY <1>1, <2>1, MarkTypes
  <2>3. TypeOK'
    BY <1>1, <2>1, <2>2 DEF TypeOK, upval
  <2>4. QED
    BY <1>1, <2>1, <2>2, <2>3, StructStays2 DEF upval
<1>4. ASSUME NEW t \in Threads, remarkupvals(t) PROVE UpvalInv'
  <2>1. /\ todo' = todo \ {t} /\ twups' \subseteq twups
        /\ UNCHANGED <<gcstate, apc, unswept, grayagain, running, stack, openupval, uv, ups,
                       refcount, v, value>>
        /\ (\E S : mark(S)) \/ UNCHANGED marks
        /\ touched' = touched \/ \E S : touched' = [u \in UpVals |-> touched[u] /\ u \notin S]
    BY <1>4 DEF remarkupvals
  <2>2. /\ color' \in [Objs -> {"free", "white", "dead", "gray", "black"}]
        /\ \A o \in Objs : color'[o] = "free" <=> color[o] = "free"
        /\ \A w \in Threads : color'[w] # "black"
        /\ gray' \subseteq Threads \cup Closures
    <3>1. CASE \E S : mark(S)
      BY <1>1, <3>1, MarkTypes
    <3>2. CASE UNCHANGED marks
      BY <1>1, <3>2 DEF TypeOK, marks
    <3>3. QED
      BY <2>1, <3>1, <3>2
  <2>3. touched' \in [UpVals -> BOOLEAN]
    BY <1>1, <2>1 DEF TypeOK
  <2>4. TypeOK'
    BY <1>1, <2>1, <2>2, <2>3 DEF TypeOK
  <2>5. QED
    BY <1>1, <2>1, <2>2, <2>4, StructStays2
<1>5. CASE AtomicGrayAgain
  <2>1. TypeOK'
    BY <1>1, <1>5 DEF AtomicGrayAgain, TypeOK, upval
  <2>2. QED
    BY <1>1, <1>5, <2>1, StructStays2 DEF AtomicGrayAgain, upval
<1>6. CASE AtomicEnd
  <2>1. TypeOK'
    BY <1>1, <1>6, Kinds DEF AtomicEnd, TypeOK, upval, Allocated, Objs
  <2>2. \A o \in Objs : color'[o] = "free" <=> color[o] = "free"
    BY <1>6 DEF AtomicEnd, White
  <2>3. QED
    BY <1>1, <1>6, <2>1, <2>2, StructStays2 DEF AtomicEnd, upval
<1>7. CASE SweepEnds
  <2>1. TypeOK'
    BY <1>1, <1>7, Kinds DEF SweepEnds, TypeOK, upval
  <2>2. \A o \in Objs : color'[o] = "free" <=> color[o] = "free"
    BY <1>1, <1>7 DEF SweepEnds
  <2>3. QED
    BY <1>1, <1>7, <2>1, <2>2, StructStays2 DEF SweepEnds, upval
<1>8. CASE luaC_fullgc
  <2>1. TypeOK'
    BY <1>1, <1>8, Kinds DEF luaC_fullgc, keepinvariant, TypeOK, upval, Allocated, Objs
  <2>2. QED
    BY <1>1, <1>8, <2>1, StructStays2 DEF luaC_fullgc, upval
<1>9. QED
  BY <1>2, <1>3, <1>4, <1>5, <1>6, <1>7, <1>8

\* Every step keeps the lists sound, unless a closure joins its upvalue to itself.
LEMMA StructNext ==
  ASSUME SelfJoin = FALSE, SafeInv, Next
  PROVE  UpvalInv'
<1>1. CASE Program
  <2>1. CASE \E o \in Leaves \cup Coroutines : luaC_newobj(o)
    BY <2>1, StructNewObject
  <2>2. CASE \E x \in Heap : GetValue(x)
    BY <2>2, StructGetValue
  <2>3. CASE \E l \in Levels, x \in Heap : SetLocal(l, x)
    BY <2>3, StructSetLocal
  <2>4. CASE \E c \in Closures, l \in Levels : pushclosure(c, l)
    BY <2>4, StructPushClosure
  <2>5. CASE \E c, e \in Closures : pushclosure_enclosing(c, e) \/ lua_upvaluejoin(c, e)
    BY <2>5, StructEnclosing, StructJoin
  <2>6. CASE \E c \in Closures, x \in Heap : OP_SETUPVAL(c, x)
    BY <2>6, StructSetUpval
  <2>7. CASE \E l \in Levels : Leave(l)
    BY <2>7, StructLeave
  <2>8. CASE \E t \in Coroutines, xs \in Passed : lua_resume(t, xs)
    BY <2>8, StructResume
  <2>9. CASE \E xs \in Passed : lua_yield(xs)
    BY <2>9, StructYield
  <2>10. QED
    BY <1>1, <2>1, <2>2, <2>3, <2>4, <2>5, <2>6, <2>7, <2>8, <2>9 DEF Program
<1>2. CASE Collector
  <2>1. CASE Propagate
    <3>1. PICK o \in gray : propagatemark(o)
      BY <2>1 DEF Propagate
    <3>2. gcstate = "propagate" /\ gcstate' \in {gcstate, "atomic"}
      BY <2>1 DEF Propagate
    <3>3. QED
      BY <3>1, <3>2, StructPropagate
  <2>2. CASE PropagateAll
    <3>1. PICK o \in gray : propagatemark(o)
      BY <2>2 DEF PropagateAll
    <3>2. gcstate \in {"atomic", "insideatomic"} /\ gcstate' = gcstate
      BY <2>2 DEF PropagateAll
    <3>3. QED
      BY <3>1, <3>2, StructPropagate
  <2>3. CASE \E o \in Heap : Sweep(o)
    BY <2>3, StructSweep
  <2>4. QED
    BY <1>2, <2>1, <2>2, <2>3, StructAtomic DEF Collector
<1>3. QED
  BY <1>1, <1>2 DEF Next

\* They are at the start.
LEMMA StructInit ==
  ASSUME Init
  PROVE  UpvalInv
<1>1. \A t \in Threads : stack[t] = <<>> /\ openupval[t] = <<>> /\ Top(t) = 0 /\ MaxLevel[t] \in Nat
  BY EmptySeq, BoundsAssumption DEF Init, Top, Threads
<1>2. \A c \in Closures : uv[c] = None /\ color[c] = "free"
  BY Kinds DEF Init
<1>3. /\ stack \in [Threads -> Seq(Heap)] /\ openupval \in [Threads -> Seq(UpVals)]
      /\ color \in [Objs -> {"free", "white", "dead", "gray", "black"}]
  BY EmptySeq DEF Init
<1>4. TypeOK
  BY <1>3, Kinds DEF Init, TypeOK
<1>5. Fits /\ FreeInv
  BY <1>1, <1>2 DEF Fits, FreeInv
<1>6. OpenListSorted /\ RefcountsRight
  <2>1. \A t \in Threads : DOMAIN openupval[t] = {}
    BY <1>1, EmptySeq, LenProperties
  <2>2. ups = {}
    BY DEF Init
  <2>3. QED
    BY <1>2, <2>1, <2>2 DEF OpenListSorted, RefcountsRight
<1>7. QED
  BY <1>4, <1>5, <1>6 DEF UpvalInv, ListsInv

-----------------------------------------------------------------------------
\* What a step of the program does to colors: an object is new, or a barrier marks.
Recolored ==
  /\ \A o \in Objs :
       \/ color'[o] = color[o]
       \/ color[o] = "free" /\ color'[o] = "white"
       \/ /\ color[o] = "white" /\ keepinvariant
          /\ \/ color'[o] = "gray" /\ o \in gray'
             \/ color'[o] = "black" /\ o \in Leaves
  /\ gray \subseteq gray'
  /\ \A o \in gray' \ gray : color'[o] = "gray" /\ color[o] = "white"

\* The value of a black closure stays marked, or is marked, or is left to the atomic phase.
Settled(c) ==
  \/ ~upisopen(uv[c])' /\ Read(uv[c])' \notin White'
  \/ upisopen(uv[c])' /\ touched'[uv'[c]]
  \/ /\ uv'[c] = uv[c] /\ (upisopen(uv[c])' <=> upisopen(uv[c]))
     /\ ~upisopen(uv[c]) => Read(uv[c])' = Read(uv[c])
     /\ upisopen(uv[c]) => touched'[uv[c]] = touched[uv[c]]

\* An object that was free is new and white.
LEMMA NewColor ==
  ASSUME TypeOK, NEW o \in Heap, color[o] = "free", color' = [color EXCEPT ![o] = "white"],
         gray' = gray
  PROVE  Recolored
BY Kinds DEF Recolored, TypeOK

\* A step that leaves the marks alone recolors nothing.
LEMMA SameColor ==
  ASSUME UNCHANGED marks
  PROVE  Recolored
BY DEF Recolored, marks

\* The barrier of upvalues recolors as it may, and what it guards is not white while marks are kept.
LEMMA BarrierColor ==
  ASSUME TypeOK, NEW S, luaC_upvalbarrier(S)
  PROVE  /\ Recolored
         /\ keepinvariant => \A o \in Objs : o \in S => o \notin White'
         /\ Alive' = Alive
<1>1. CASE keepinvariant
  <2>1. color' = Marked(S) /\ gray' = gray \cup Grayed(S)
    BY <1>1 DEF luaC_upvalbarrier, mark
  <2>2. \A o \in Objs : color'[o] = IF o \notin S \cap White THEN color[o]
                                    ELSE IF o \in Leaves THEN "black" ELSE "gray"
    BY <2>1 DEF Marked
  <2>3. \A o \in Grayed(S) : o \in Objs /\ o \in S \cap White /\ o \notin Leaves
    BY DEF Grayed, White
  <2>4. Recolored
    BY <1>1, <2>1, <2>2, <2>3 DEF Recolored, White, Grayed
  <2>5. QED
    BY <2>2, <2>4 DEF White, Alive
<1>2. CASE ~keepinvariant
  BY <1>2, SameColor DEF luaC_upvalbarrier, marks, Alive
<1>3. QED
  BY <1>1, <1>2

-----------------------------------------------------------------------------
(* Steps of the program.                                                   *)

\* A step of the program breaks no list of marks and buries nothing: what was alive stays alive.
LEMMA ProgramColors ==
  ASSUME SafeInv, UpvalInv', Runs, UNCHANGED unlinked, Recolored
  PROVE  /\ PhaseInv'
         /\ Marking' => Linked'
         /\ Alive \subseteq Alive'
         /\ \A o \in Objs : o \in Alive' \ Alive => color[o] = "free" /\ color'[o] = "white"
         /\ \A c \in Closures : color'[c] = "black" <=> color[c] = "black"
         /\ \A o \in Alive : o \in White' => o \in White
<1>1. /\ TypeOK /\ PhaseInv /\ (Marking => Linked)
      /\ UNCHANGED <<gcstate, apc, unswept, grayagain, todo>>
      /\ gcstate # "insideatomic" /\ apc = "none"
      /\ gray \subseteq Objs /\ gray' \subseteq Objs /\ grayagain \subseteq Objs
      /\ Main \in Objs /\ Heap \subseteq Objs /\ Threads \subseteq Objs /\ Closures \subseteq Objs
      /\ Threads \cap Leaves = {} /\ Closures \cap Leaves = {} /\ Main \notin Heap
  BY SMTT(60), Kinds DEF SafeInv, MarkInv, UpvalInv, ListsInv, TypeOK, Runs, unlinked
<1>2. PhaseInv'
  BY <1>1 DEF PhaseInv, Recolored, keepinvariant, Allocated
<1>3. ASSUME Marking' PROVE Linked'
  <2>1. Linked /\ Marking
    BY <1>1, <1>3 DEF Marking
  <2>2. color[Main] # "free"
    BY <1>1 DEF PhaseInv
  <2>3. Main \notin White'
    BY <1>1, <2>1, <2>2 DEF Linked, White, Recolored
  <2>4. \A o \in gray' \cup grayagain' : color'[o] = "gray"
    BY <1>1, <2>1 DEF Linked, Recolored
  <2>5. \A c \in Closures : color'[c] = "gray" => c \in gray'
    BY <1>1, <2>1 DEF Linked, Recolored
  <2>6. \A t \in Threads : color'[t] = "gray" => t \in gray' \/ t \in grayagain'
    BY <1>1, <2>1 DEF Linked, Recolored
  <2>7. QED
    BY <1>1, <2>3, <2>4, <2>5, <2>6 DEF Linked
<1>4. /\ Alive \subseteq Alive'
      /\ \A o \in Objs : o \in Alive' \ Alive => color[o] = "free" /\ color'[o] = "white"
      /\ \A o \in Alive : o \in White' => o \in White
  BY <1>1 DEF Alive, White, Recolored
<1>5. \A c \in Closures : color'[c] = "black" <=> color[c] = "black"
  BY <1>1 DEF Recolored
<1>6. QED
  BY <1>2, <1>3, <1>4, <1>5

\* A step of the program is safe if what it shows is alive, or was shown before.
LEMMA ProgramStep ==
  ASSUME SafeInv, UpvalInv', Runs, UNCHANGED unlinked, Recolored,
         running' \in Alive',
         twups \subseteq twups', twups' \subseteq twups \cup Alive,
         \A t \in Threads : openupval'[t] # <<>> => openupval[t] # <<>> \/ t \in twups',
         \A t \in Threads : ToSet(stack'[t]) \subseteq ToSet(stack[t]) \cup Alive',
         \A c \in Closures \cap Alive' :
           Read(uv[c])' \in Alive' \/ (c \in Alive /\ Read(uv[c])' = Read(uv[c])),
         keepinvariant => \A c \in Closures : color[c] = "black" => Settled(c)
  PROVE  SafeInv'
<1>1. /\ PhaseInv' /\ (Marking' => Linked') /\ Alive \subseteq Alive'
      /\ \A o \in Objs : o \in Alive' \ Alive => color[o] = "free" /\ color'[o] = "white"
      /\ \A c \in Closures : color'[c] = "black" <=> color[c] = "black"
      /\ \A o \in Alive : o \in White' => o \in White
  BY ProgramColors
<1>2. /\ UpvalInv /\ NoDangling /\ TwupsInv /\ MarkInv /\ FreeInv /\ RefcountsRight'
      /\ gcstate # "insideatomic" /\ gcstate' = gcstate
  BY DEF SafeInv, UpvalInv, Runs, unlinked
<1>3. NoDangling'
  <2>1. Main \in Alive'
    BY <1>1, <1>2 DEF NoDangling
  <2>2. ASSUME NEW t \in Threads, t \in Alive' PROVE ToSet(stack'[t]) \subseteq Alive'
    <3>1. CASE t \in Alive
      BY <1>1, <1>2, <3>1 DEF NoDangling
    <3>2. CASE t \notin Alive
      <4>1. stack[t] = <<>>
        BY <1>1, <1>2, <2>2, <3>2, Kinds DEF FreeInv
      <4>2. ToSet(stack[t]) = {}
        BY <4>1 DEF ToSet
      <4>3. QED
        BY <4>2
    <3>3. QED
      BY <3>1, <3>2
  <2>3. ASSUME NEW c \in Closures, c \in Alive' PROVE uv'[c] \in ups' /\ Read(uv[c])' \in Alive'
    <3>1. uv'[c] \in ups'
      BY <1>2, <2>3 DEF RefcountsRight, Alive
    <3>2. QED
      BY <1>1, <1>2, <2>3, <3>1 DEF NoDangling
  <2>4. QED
    BY <2>1, <2>2, <2>3 DEF NoDangling
<1>4. TwupsInv'
  <2>1. twups' \subseteq Alive'
    BY <1>1, <1>2 DEF TwupsInv
  <2>2. ASSUME NEW t \in Threads, t \in Alive', openupval'[t] # <<>> PROVE t \in twups'
    <3>1. CASE t \in Alive
      BY <1>2, <2>2, <3>1 DEF TwupsInv
    <3>2. CASE t \notin Alive
      BY <1>1, <1>2, <2>2, <3>2, Kinds DEF FreeInv
    <3>3. QED
      BY <3>1, <3>2
  <2>3. QED
    BY <1>2, <2>1, <2>2 DEF TwupsInv, Runs
<1>5. MarkInv'
  <2>1. ASSUME Marking', NEW c \in Closures, color'[c] = "black" PROVE Done(c)'
    <3>1. Marking /\ keepinvariant
      BY <1>2, <2>1 DEF Marking, keepinvariant
    <3>2. color[c] = "black" /\ Settled(c) /\ Done(c) /\ c \in Alive
      BY <1>1, <1>2, <2>1, <3>1, Kinds DEF MarkInv, Alive
    <3>3. Read(uv[c]) \in Alive
      BY <1>2, <3>2 DEF NoDangling
    <3>4. gcstate' # "insideatomic"
      BY <1>2
    <3>5. CASE ~upisopen(uv[c])' /\ Read(uv[c])' \notin White'
      BY <3>5 DEF Done
    <3>6. CASE upisopen(uv[c])' /\ touched'[uv'[c]]
      BY <3>4, <3>6 DEF Done
    <3>7. CASE /\ uv'[c] = uv[c] /\ (upisopen(uv[c])' <=> upisopen(uv[c]))
               /\ ~upisopen(uv[c]) => Read(uv[c])' = Read(uv[c])
               /\ upisopen(uv[c]) => touched'[uv[c]] = touched[uv[c]]
      <4>1. CASE upisopen(uv[c])
        BY <1>2, <3>2, <3>4, <3>7, <4>1 DEF Done
      <4>2. CASE ~upisopen(uv[c])
        BY <1>1, <1>2, <3>2, <3>3, <3>7, <4>2 DEF Done
      <4>3. QED
        BY <4>1, <4>2
    <3>8. QED
      BY <3>2, <3>5, <3>6, <3>7 DEF Settled
  <2>2. QED
    BY <1>1, <2>1 DEF MarkInv
<1>6. QED
  BY <1>1, <1>3, <1>4, <1>5 DEF SafeInv

\* An upvalue that stays, with its slot or its value, is read as before.
LEMMA ReadSame ==
  ASSUME NEW u, v'[u] = v[u], ~upisopen(u) => value'[u] = value[u],
         upisopen(u) => stack'[v[u][1]][v[u][2]] = stack[v[u][1]][v[u][2]]
  PROVE  (upisopen(u)' <=> upisopen(u)) /\ Read(u)' = Read(u)
BY DEF upisopen, Read, ReadVia

\* Steps that leave upvalues alone and only add alive values to stacks.
LEMMA GrowingStep ==
  ASSUME SafeInv, UpvalInv', Runs, UNCHANGED unlinked, Recolored,
         running' \in Alive', UNCHANGED <<openupval, twups, uv, upval>>,
         \A t \in Threads, l \in Nat : l \in 1..Top(t) => stack'[t][l] = stack[t][l],
         \A t \in Threads : ToSet(stack'[t]) \subseteq ToSet(stack[t]) \cup Alive'
  PROVE  SafeInv'
<1>1. /\ UpvalInv /\ ListsInv /\ TypeOK /\ NoDangling
      /\ UNCHANGED <<uv, ups, refcount, v, value, touched, twups, openupval>>
  BY DEF SafeInv, UpvalInv, ListsInv, upval
<1>2. ASSUME NEW u \in ups PROVE (upisopen(u)' <=> upisopen(u)) /\ Read(u)' = Read(u)
  <2>1. upisopen(u) => v[u][1] \in Threads /\ v[u][2] \in 1..Top(v[u][1]) /\ v[u][2] \in Nat
    BY <1>1, Reads
  <2>2. QED
    BY <1>1, <2>1, ReadSame
<1>3. /\ Alive \subseteq Alive'
      /\ \A o \in Objs : o \in Alive' \ Alive => color[o] = "free" /\ color'[o] = "white"
  BY ProgramColors
<1>4. ASSUME NEW c \in Closures, c \in Alive' PROVE c \in Alive /\ Read(uv[c])' = Read(uv[c])
  <2>1. c \in Alive
    <3>1. c \in Objs /\ None \notin ups /\ (color'[c] # "free" => uv'[c] \in ups')
      BY <1>1, Kinds DEF TypeOK, UpvalInv, RefcountsRight
    <3>2. color[c] = "free" => uv[c] = None
      BY <1>1 DEF UpvalInv, FreeInv
    <3>3. QED
      BY <1>1, <1>3, <1>4, <3>1, <3>2 DEF Alive
  <2>2. uv[c] \in ups /\ uv'[c] = uv[c]
    BY <1>1, <2>1 DEF NoDangling
  <2>3. QED
    BY <1>2, <2>1, <2>2
<1>5. ASSUME NEW c \in Closures, color[c] = "black" PROVE Settled(c)
  <2>1. c \in Alive
    BY <1>5, Kinds DEF Alive
  <2>2. uv[c] \in ups /\ uv'[c] = uv[c]
    BY <1>1, <2>1 DEF NoDangling
  <2>3. QED
    BY <1>1, <1>2, <2>2 DEF Settled
<1>6. QED
  BY <1>1, <1>4, <1>5, ProgramStep

\* A new object is alive, and on the stack of the running thread.
LEMMA SafeNewObject ==
  ASSUME SafeInv, NEW o \in Leaves \cup Coroutines, luaC_newobj(o)
  PROVE  SafeInv'
<1>1. UpvalInv'
  BY StructNewObject
<1>2. /\ ListsInv /\ TypeOK /\ o \in Heap /\ o \in Objs /\ running \in Threads /\ running \in Alive
      /\ Top(running) < MaxLevel[running] /\ color[o] = "free" /\ Runs
      /\ color' = [color EXCEPT ![o] = "white"] /\ stack' = Pushed(o) /\ gray' = gray
      /\ UNCHANGED unlinked /\ UNCHANGED <<running, openupval, twups, uv, upval>>
  BY Kinds, HeldIsAlive DEF SafeInv, UpvalInv, ListsInv, luaC_newobj, Room
<1>3. Recolored
  BY <1>2, NewColor
<1>4. o \in Alive' /\ running \in Alive'
  BY <1>2 DEF Alive, TypeOK
<1>5. /\ \A t \in Threads, l \in Nat : l \in 1..Top(t) => stack'[t][l] = stack[t][l]
      /\ \A t \in Threads : ToSet(stack'[t]) \subseteq ToSet(stack[t]) \cup {o}
  <2> DEFINE stk == Pushed(o)
  <2>1. /\ \A t \in Threads, l \in Nat : l \in 1..Top(t) => stk[t][l] = stack[t][l]
        /\ ToSet(stk[running]) = ToSet(stack[running]) \cup {o}
        /\ \A t \in Threads : t # running => stk[t] = stack[t]
    BY <1>2, Pushing DEF Pushed
  <2>2. stack' = stk
    BY <1>2
  <2> HIDE DEF stk
  <2>3. QED
    BY <2>1, <2>2
<1>6. QED
  BY <1>1, <1>2, <1>3, <1>4, <1>5, GrowingStep

\* What the program pushes is on some stack or in an upvalue, so it is alive.
LEMMA SafeGetValue ==
  ASSUME SafeInv, NEW x \in Heap, GetValue(x)
  PROVE  SafeInv'
<1>1. UpvalInv'
  BY StructGetValue
<1>2. /\ ListsInv /\ running \in Threads /\ running \in Alive /\ x \in Alive
      /\ Top(running) < MaxLevel[running] /\ Runs /\ stack' = Pushed(x)
      /\ UNCHANGED unlinked /\ UNCHANGED marks /\ UNCHANGED <<running, openupval, twups, uv, upval>>
  BY HeldIsAlive DEF SafeInv, UpvalInv, GetValue, Room
<1>3. Recolored /\ Alive' = Alive
  BY <1>2, SameColor DEF marks, Alive
<1>4. /\ \A t \in Threads, l \in Nat : l \in 1..Top(t) => stack'[t][l] = stack[t][l]
      /\ \A t \in Threads : ToSet(stack'[t]) \subseteq ToSet(stack[t]) \cup {x}
  <2> DEFINE stk == Pushed(x)
  <2>1. /\ \A t \in Threads, l \in Nat : l \in 1..Top(t) => stk[t][l] = stack[t][l]
        /\ ToSet(stk[running]) = ToSet(stack[running]) \cup {x}
        /\ \A t \in Threads : t # running => stk[t] = stack[t]
    BY <1>2, Pushing DEF Pushed
  <2>2. stack' = stk
    BY <1>2
  <2> HIDE DEF stk
  <2>3. QED
    BY <2>1, <2>2
<1>5. QED
  BY <1>1, <1>2, <1>3, <1>4, GrowingStep

\* What passes between threads was on a stack.
LEMMA SafePassing ==
  ASSUME SafeInv, UpvalInv', Runs, NEW t \in Threads, NEW xs \in Passed,
         ToSet(xs) \subseteq OnStack, Top(t) + Len(xs) <= MaxLevel[t], stack' = Passing(t, xs),
         running' \in Alive,
         UNCHANGED unlinked, UNCHANGED marks, UNCHANGED <<openupval, twups, uv, upval>>
  PROVE  SafeInv'
<1>1. ListsInv /\ OnStack \subseteq Alive
  BY HeldIsAlive DEF SafeInv, UpvalInv
<1>2. Recolored /\ Alive' = Alive
  BY SameColor DEF marks, Alive
<1>3. /\ \A w \in Threads, l \in Nat : l \in 1..Top(w) => stack'[w][l] = stack[w][l]
      /\ \A w \in Threads : ToSet(stack'[w]) \subseteq ToSet(stack[w]) \cup ToSet(xs)
  BY <1>1, PassingIs
<1>4. QED
  BY <1>1, <1>2, <1>3, GrowingStep

\* lua_resume passes values to a coroutine that is alive.
LEMMA SafeResume ==
  ASSUME SafeInv, NEW t \in Coroutines, NEW xs \in Passed, lua_resume(t, xs)
  PROVE  SafeInv'
<1>1. t \in Threads /\ t \in Alive
  BY Kinds, HeldIsAlive DEF lua_resume
<1>2. QED
  BY <1>1, StructResume, SafePassing DEF lua_resume, Passing

\* lua_yield passes values to the main thread, which is alive.
LEMMA SafeYield ==
  ASSUME SafeInv, NEW xs \in Passed, lua_yield(xs)
  PROVE  SafeInv'
<1>1. Main \in Threads /\ Main \in Alive
  BY Kinds DEF SafeInv, NoDangling
<1>2. QED
  BY <1>1, StructYield, SafePassing DEF lua_yield, Passing

\* One value on a stack is replaced; only open upvalues can see it.
LEMMA ReplacingStep ==
  ASSUME SafeInv, UpvalInv', Runs, NEW t \in Threads, NEW l \in 1..Top(t), NEW x \in Heap,
         x \in Alive, stack' = Replaced(t, l, x),
         UNCHANGED unlinked, UNCHANGED marks, UNCHANGED <<running, openupval, twups, uv, upval>>
  PROVE  SafeInv'
<1>1. /\ UpvalInv /\ ListsInv /\ TypeOK /\ NoDangling /\ running \in Alive
      /\ UNCHANGED <<uv, ups, refcount, v, value, touched, twups, openupval>>
  BY HeldIsAlive DEF SafeInv, UpvalInv, ListsInv, upval
<1>2. Recolored /\ Alive' = Alive
  BY SameColor DEF marks, Alive
<1>3. /\ \A w \in Threads, m \in Nat :
           m \in 1..Top(w) => stack'[w][m] = IF w = t /\ m = l THEN x ELSE stack[w][m]
      /\ \A w \in Threads : w # t => stack'[w] = stack[w]
      /\ ToSet(stack'[t]) \subseteq ToSet(stack[t]) \cup {x}
  <2> DEFINE stk == Replaced(t, l, x)
  <2>1. /\ \A w \in Threads, m \in Nat :
             m \in 1..Top(w) => stk[w][m] = IF w = t /\ m = l THEN x ELSE stack[w][m]
        /\ \A w \in Threads : w # t => stk[w] = stack[w]
        /\ ToSet(stk[t]) \subseteq ToSet(stack[t]) \cup {x}
    <3>1. ListsInv /\ t \in Threads /\ l \in 1..Top(t) /\ x \in Heap
      BY <1>1
    <3>2. QED
      BY ONLY <3>1, Replacing
  <2>2. stack' = stk
    OBVIOUS
  <2> HIDE DEF stk
  <2>3. QED
    BY <2>1, <2>2
<1>4. \A w \in Threads : ToSet(stack'[w]) \subseteq ToSet(stack[w]) \cup Alive'
  BY <1>2, <1>3
<1>5. ASSUME NEW u \in ups
      PROVE  /\ upisopen(u)' <=> upisopen(u)
             /\ Read(u)' = Read(u) \/ Read(u)' = x
             /\ ~upisopen(u) => Read(u)' = Read(u)
  <2>1. upisopen(u) => /\ v[u][1] \in Threads /\ v[u][2] \in 1..Top(v[u][1]) /\ v[u][2] \in Nat
    BY <1>1, Reads
  <2>2. CASE upisopen(u)
    BY <1>1, <1>3, <2>1, <2>2 DEF upisopen, Read, ReadVia
  <2>3. CASE ~upisopen(u)
    BY <1>1, <2>3 DEF upisopen, Read, ReadVia
  <2>4. QED
    BY <2>2, <2>3
<1>6. \A c \in Closures \cap Alive : uv'[c] = uv[c] /\ uv[c] \in ups /\ Read(uv[c]) \in Alive
  BY <1>1 DEF NoDangling
<1>7. \A c \in Closures \cap Alive' :
        Read(uv[c])' \in Alive' \/ (c \in Alive /\ Read(uv[c])' = Read(uv[c]))
  <2>1. \A c \in Closures \cap Alive : Read(uv[c])' = Read(uv[c]) \/ Read(uv[c])' = x
    BY <1>5, <1>6
  <2>2. QED
    BY <1>2, <2>1
<1>8. ASSUME NEW c \in Closures, color[c] = "black" PROVE Settled(c)
  <2>1. c \in Alive
    BY <1>8, Kinds DEF Alive
  <2>2. QED
    BY <1>1, <1>5, <1>6, <2>1 DEF Settled
<1>9. QED
  BY <1>1, <1>2, <1>4, <1>7, <1>8, ProgramStep

\* An assignment to a local variable writes a value that is alive, also where closures read it.
LEMMA SafeSetLocal ==
  ASSUME SafeInv, NEW l \in Levels, NEW x \in Heap, SetLocal(l, x)
  PROVE  SafeInv'
<1>1. running \in Threads /\ l \in 1..Top(running) /\ x \in Alive
  BY HeldIsAlive DEF SetLocal
<1>2. QED
  BY <1>1, StructSetLocal, ReplacingStep DEF SetLocal, Replaced

\* OP_SETUPVAL writes a value that is alive, and its barrier marks it for black closures.
LEMMA SafeSetUpval ==
  ASSUME SafeInv, NEW c \in Closures, NEW x \in Heap, OP_SETUPVAL(c, x)
  PROVE  SafeInv'
<1> DEFINE u == uv[c]
<1>1. UpvalInv'
  BY StructSetUpval
<1>2. /\ UpvalInv /\ ListsInv /\ TypeOK /\ NoDangling /\ Runs
      /\ u \in ups /\ u \in UpVals /\ x \in Alive /\ running \in Alive
      /\ UNCHANGED unlinked /\ UNCHANGED <<running, openupval, twups, uv, ups, refcount, v, touched>>
  BY HeldIsAlive DEF SafeInv, UpvalInv, ListsInv, TypeOK, OP_SETUPVAL
<1>3. CASE upisopen(u)
  <2>1. v[u][1] \in Threads /\ v[u][2] \in 1..Top(v[u][1])
    BY <1>2, <1>3, Reads
  <2>2. /\ stack' = Replaced(v[u][1], v[u][2], x) /\ UNCHANGED marks
        /\ UNCHANGED <<running, openupval, twups, uv, upval>>
    BY <1>2, <1>3 DEF OP_SETUPVAL, Replaced, upval
  <2>3. QED
    BY <1>1, <1>2, <2>1, <2>2, ReplacingStep
<1>4. CASE ~upisopen(u)
  <2>1. value' = [value EXCEPT ![u] = x] /\ luaC_upvalbarrier({x}) /\ UNCHANGED stack
    BY <1>4 DEF OP_SETUPVAL
  <2>2. /\ Recolored /\ Alive' = Alive
        /\ keepinvariant => x \notin White'
    BY <1>2, <2>1, BarrierColor DEF Alive
  <2>3. \A w \in ups : /\ upisopen(w)' <=> upisopen(w)
                       /\ w # u => Read(w)' = Read(w)
                       /\ w = u => Read(w)' = x
    BY <1>2, <1>4, <2>1 DEF upisopen, Read, ReadVia, TypeOK
  <2>4. \A d \in Closures \cap Alive : uv'[d] = uv[d] /\ uv[d] \in ups
    BY <1>2 DEF NoDangling
  <2>5. \A d \in Closures \cap Alive : Read(uv[d])' = Read(uv[d]) \/ Read(uv[d])' = x
    BY <2>3, <2>4
  <2>6. ASSUME NEW d \in Closures, color[d] = "black", keepinvariant PROVE Settled(d)
    <3>1. d \in Alive
      BY <2>6, Kinds DEF Alive
    <3>2. uv'[d] = uv[d] /\ uv[d] \in ups
      BY <2>4, <3>1
    <3>3. CASE uv[d] = u
      BY <1>4, <2>2, <2>3, <2>6, <3>2, <3>3 DEF Settled
    <3>4. CASE uv[d] # u
      BY <1>2, <2>3, <3>2, <3>4 DEF Settled
    <3>5. QED
      BY <3>3, <3>4
  <2>7. \A w \in Threads : ToSet(stack'[w]) \subseteq ToSet(stack[w]) \cup Alive'
    BY <2>1
  <2>8. QED
    BY <1>1, <1>2, <2>2, <2>5, <2>6, <2>7, ProgramStep
<1>5. QED
  BY <1>3, <1>4

\* A new closure's upvalue is on the running thread's stack, or was there.
LEMMA NewClosureStep ==
  ASSUME SafeInv, UpvalInv', Runs, NEW c \in Closures, color[c] = "free",
         color' = [color EXCEPT ![c] = "white"], gray' = gray, Top(running) < MaxLevel[running],
         stack' = Pushed(c), UNCHANGED unlinked, UNCHANGED <<running, value>>,
         \A d \in Closures \ {c} : uv'[d] = uv[d],
         \A u \in ups : v'[u] = v[u] /\ touched'[u] = touched[u],
         twups \subseteq twups', twups' \subseteq twups \cup {running},
         \A t \in Threads : openupval'[t] # <<>> => openupval[t] # <<>> \/ t \in twups',
         uv'[c] \in ups \/ v'[uv'[c]] \in {running} \X (1..Top(running)'),
         uv'[c] \in ups => Read(uv'[c]) \in Alive
  PROVE  SafeInv'
<1>1. /\ UpvalInv /\ ListsInv /\ TypeOK /\ NoDangling /\ running \in Threads /\ running \in Alive
      /\ c \in Heap /\ c \in Objs /\ FreeInv
  BY Kinds, HeldIsAlive DEF SafeInv, UpvalInv, ListsInv
<1>2. Recolored
  BY <1>1, NewColor
<1>3. Alive' = Alive \cup {c}
  BY <1>1 DEF Alive, TypeOK
<1>4. /\ \A t \in Threads, l \in Nat : l \in 1..Top(t) => stack'[t][l] = stack[t][l]
      /\ \A t \in Threads : ToSet(stack'[t]) \subseteq ToSet(stack[t]) \cup {c}
  <2> DEFINE stk == Pushed(c)
  <2>1. /\ \A t \in Threads, l \in Nat : l \in 1..Top(t) => stk[t][l] = stack[t][l]
        /\ ToSet(stk[running]) = ToSet(stack[running]) \cup {c}
        /\ \A t \in Threads : t # running => stk[t] = stack[t]
    BY ZenonT(60), <1>1, Pushing DEF Pushed
  <2>2. stack' = stk
    OBVIOUS
  <2> HIDE DEF stk
  <2>3. QED
    BY <2>1, <2>2
<1>5. ASSUME NEW u \in ups PROVE (upisopen(u)' <=> upisopen(u)) /\ Read(u)' = Read(u)
  <2>1. upisopen(u) => v[u][1] \in Threads /\ v[u][2] \in 1..Top(v[u][1]) /\ v[u][2] \in Nat
    BY <1>1, Reads
  <2>2. QED
    BY <1>4, <2>1, ReadSame
<1>6. Read(uv[c])' \in Alive'
  <2>1. CASE uv'[c] \in ups
    <3>1. \A u \in ups : Read(u)' = Read(u)
      BY <1>5
    <3>2. PICK u \in ups : u = uv'[c]
      BY <2>1
    <3>3. Read(u)' = Read(u) /\ Read(u) \in Alive
      BY <2>1, <3>1, <3>2
    <3>4. Read(uv[c])' = Read(u)'
      BY <3>2 DEF Read, ReadVia, upisopen
    <3>5. QED
      BY <1>3, <3>3, <3>4
  <2>2. CASE v'[uv'[c]] \in {running} \X (1..Top(running)')
    <3>1. PICK l \in 1..Top(running)' : v'[uv'[c]] = <<running, l>>
      BY <2>2
    <3>2. <<running, l>> # Own
      <4>1. running' = running /\ Fits'
        BY DEF UpvalInv, ListsInv
      <4>2. Top(running)' <= MaxLevel[running] /\ MaxLevel[running] \in Nat
        BY <1>1, <4>1, BoundsAssumption DEF Fits, Threads
      <4>3. Top(running)' \in Nat
        BY <1>1, <4>1, LenProperties DEF Top, UpvalInv, ListsInv, TypeOK
      <4>4. l \in 1..MaxLevel[running]
        BY <4>2, <4>3
      <4>5. <<running, l>> \in Slots
        BY <1>1, <4>4 DEF Slots
      <4>6. QED
        BY <4>5, OwnAssumption
    <3>3. Read(uv[c])' = stack'[running][l]
      BY <3>1, <3>2 DEF Read, ReadVia, upisopen
    <3>4. stack'[running][l] \in ToSet(stack'[running])
      <4>1. stack'[running] \in Seq(Heap) /\ running' = running
        BY <1>1 DEF UpvalInv, ListsInv, TypeOK
      <4>2. DOMAIN stack'[running] = 1..Top(running)'
        BY <4>1, LenProperties DEF Top
      <4>3. QED
        BY <3>1, <4>2 DEF ToSet
    <3>5. QED
      BY <1>1, <1>3, <1>4, <3>3, <3>4 DEF NoDangling
  <2>3. QED
    BY <2>1, <2>2
<1>7. ASSUME NEW d \in Closures, d \in Alive
      PROVE  /\ uv'[d] = uv[d] /\ uv[d] \in ups /\ d # c
             /\ (upisopen(uv[d])' <=> upisopen(uv[d])) /\ Read(uv[d])' = Read(uv[d])
  <2>1. d # c /\ uv'[d] = uv[d] /\ uv[d] \in ups
    BY <1>1, <1>7 DEF Alive, NoDangling
  <2>2. PICK u \in ups : u = uv[d]
    BY <2>1
  <2>3. (upisopen(u)' <=> upisopen(u)) /\ Read(u)' = Read(u)
    BY <1>5
  <2>4. (upisopen(uv[d])' <=> upisopen(u)') /\ Read(uv[d])' = Read(u)'
    BY <2>1, <2>2 DEF Read, ReadVia, upisopen
  <2>5. QED
    BY <2>1, <2>2, <2>3, <2>4
<1>8. ASSUME NEW d \in Closures, color[d] = "black" PROVE Settled(d)
  <2>1. d \in Alive
    BY <1>8, Kinds DEF Alive
  <2>2. touched'[uv[d]] = touched[uv[d]]
    BY <1>7, <2>1
  <2>3. QED
    BY <1>7, <2>1, <2>2 DEF Settled
<1>9. \A d \in Closures \cap Alive' :
        Read(uv[d])' \in Alive' \/ (d \in Alive /\ Read(uv[d])' = Read(uv[d]))
  BY <1>3, <1>6, <1>7
<1>10. /\ running' \in Alive' /\ twups' \subseteq twups \cup Alive
       /\ \A t \in Threads : ToSet(stack'[t]) \subseteq ToSet(stack[t]) \cup Alive'
  BY <1>1, <1>3, <1>4
<1>11. QED
  BY <1>2, <1>8, <1>9, <1>10, ProgramStep

\* A new closure that shares an upvalue of the enclosing one reads what that reads.
LEMMA SafeEnclosing ==
  ASSUME SafeInv, NEW c \in Closures, NEW e \in Closures, pushclosure_enclosing(c, e)
  PROVE  SafeInv'
<1>1. UpvalInv'
  BY StructEnclosing
<1>2. /\ uv[e] \in ups /\ Read(uv[e]) \in Alive /\ uv \in [Closures -> UpVals \cup {None}]
  BY HeldIsAlive DEF SafeInv, UpvalInv, ListsInv, TypeOK, pushclosure_enclosing
<1>3. /\ Runs /\ color[c] = "free" /\ color' = [color EXCEPT ![c] = "white"] /\ gray' = gray
      /\ Top(running) < MaxLevel[running] /\ stack' = Pushed(c)
      /\ UNCHANGED unlinked /\ UNCHANGED <<running, value, v, touched, twups, openupval>>
      /\ uv' = [uv EXCEPT ![c] = uv[e]]
  BY DEF pushclosure_enclosing, Room
<1>4. uv'[c] = uv[e] /\ \A d \in Closures \ {c} : uv'[d] = uv[d]
  BY <1>2, <1>3
<1>5. QED
  BY <1>1, <1>2, <1>3, <1>4, NewClosureStep

\* A new closure that captures a local variable reads a slot of the running stack.
LEMMA SafePushClosure ==
  ASSUME SafeInv, NEW c \in Closures, NEW l \in Levels, pushclosure(c, l)
  PROVE  SafeInv'
<1>0. PICK f : f = luaF_findupval(running, l)
  OBVIOUS
<1>1. UpvalInv'
  BY StructPushClosure
<1>2. /\ UpvalInv /\ ListsInv /\ TypeOK /\ NoDangling /\ running \in Threads /\ running \in Alive
      /\ Top(running) \in Nat /\ uv \in [Closures -> UpVals \cup {None}]
  BY HeldIsAlive DEF SafeInv, UpvalInv, ListsInv, TypeOK
<1>3. /\ Runs /\ color[c] = "free" /\ color' = [color EXCEPT ![c] = "white"] /\ gray' = gray
      /\ Top(running) < MaxLevel[running] /\ stack' = Pushed(c) /\ l \in 1..(Top(running) + 1)
      /\ ups # UpVals
      /\ UNCHANGED unlinked /\ UNCHANGED <<running, value>>
      /\ uv' = [uv EXCEPT ![c] = f.u]
      /\ openupval' = [openupval EXCEPT ![running] = f.list]
      /\ IF f.u \in ups
         THEN UNCHANGED <<ups, v, touched, twups>>
         ELSE /\ v' = [v EXCEPT ![f.u] = <<running, l>>]
              /\ touched' = [touched EXCEPT ![f.u] = TRUE]
              /\ twups' = twups \cup {running}
  BY <1>0 DEF pushclosure, Room
<1>4. uv'[c] = f.u /\ \A d \in Closures \ {c} : uv'[d] = uv[d]
  BY <1>2, <1>3
<1>5. /\ f.u \in UpVals
      /\ f.u \in ups => v[f.u] = <<running, l>> /\ f.list = openupval[running]
  <2>1. MaxLevel[running] \in Nat
    BY <1>2, BoundsAssumption DEF Threads
  <2>2. l \in Nat /\ l \in 1..MaxLevel[running]
    BY <1>2, <1>3, <2>1
  <2>3. <<running, l>> \in Slots
    BY <1>2, <2>2 DEF Slots
  <2>4. ListsInv /\ running \in Threads /\ l \in Nat /\ <<running, l>> \in Slots /\ ups # UpVals
    BY <1>2, <1>3, <2>2, <2>3
  <2>5. QED
    <3>1. Finds(f, running, l)
      BY ONLY <1>0, <2>4, FindList
    <3>2. QED
      BY <3>1 DEF Finds
<1>6. /\ \A u \in ups : v'[u] = v[u] /\ touched'[u] = touched[u]
      /\ twups \subseteq twups' /\ twups' \subseteq twups \cup {running}
      /\ \A t \in Threads : openupval'[t] # <<>> => openupval[t] # <<>> \/ t \in twups'
  BY <1>2, <1>3, <1>5 DEF TypeOK
<1>7. uv'[c] \in ups \/ v'[uv'[c]] \in {running} \X (1..Top(running)')
  <2>1. Top(running)' = Top(running) + 1
    <3>1. /\ stack[running] \in Seq(Heap) /\ c \in Heap /\ running' = running
          /\ stack'[running] = Append(stack[running], c)
      BY <1>2, <1>3, Kinds DEF TypeOK, Pushed
    <3>2. Len(Append(stack[running], c)) = Len(stack[running]) + 1
      BY <3>1, AppendProperties
    <3>3. Top(running)' = Len(stack'[running]) /\ Top(running) = Len(stack[running])
      BY <3>1 DEF Top
    <3>4. QED
      BY <3>1, <3>2, <3>3
  <2>2. f.u \notin ups => v'[f.u] = <<running, l>>
    BY <1>2, <1>3, <1>5 DEF TypeOK
  <2>3. l \in 1..Top(running)'
    BY <1>3, <2>1
  <2>4. <<running, l>> \in {running} \X (1..Top(running)')
    BY <2>3
  <2>5. QED
    BY <1>4, <2>2, <2>4
<1>8. uv'[c] \in ups => Read(uv'[c]) \in Alive
  <2>1. ASSUME f.u \in ups PROVE Read(f.u) \in Alive
    <3>1. upisopen(f.u) /\ v[f.u][1] = running
      <4>1. v[f.u] \in Slots \cup {Own} /\ v[f.u] = <<running, l>>
        BY <1>2, <1>5, <2>1 DEF TypeOK
      <4>2. MaxLevel[running] \in Nat
        BY <1>2, BoundsAssumption DEF Threads
      <4>3. l \in 1..MaxLevel[running]
        BY <1>2, <1>3, <4>2
      <4>4. QED
        BY <1>2, <4>1, <4>3, OwnAssumption DEF upisopen, Slots
    <3>2. Read(f.u) \in ToSet(stack[running])
      BY <1>2, <2>1, <3>1, Reads
    <3>3. QED
      BY <1>2, <3>2 DEF NoDangling
  <2>2. QED
    BY <1>4, <2>1
<1>9. QED
  BY <1>1, <1>3, <1>4, <1>6, <1>7, <1>8, NewClosureStep

\* lua_upvaluejoin makes one closure read what another one, alive, reads.
LEMMA SafeJoin ==
  ASSUME SelfJoin = FALSE, SafeInv, NEW f1 \in Closures, NEW f2 \in Closures,
         lua_upvaluejoin(f1, f2)
  PROVE  SafeInv'
<1> DEFINE u1 == uv[f1]
           u2 == uv[f2]
<1>1. UpvalInv'
  BY StructJoin
<1>2. /\ UpvalInv /\ ListsInv /\ TypeOK /\ NoDangling /\ Runs
      /\ u1 \in ups /\ u2 \in ups /\ u2 \in UpVals /\ Read(u2) \in Alive /\ running \in Alive
      /\ f1 \in Alive /\ uv \in [Closures -> UpVals \cup {None}]
      /\ touched \in [UpVals -> BOOLEAN] /\ value \in [UpVals -> Heap \cup {Nil}]
      /\ u1 \in UpVals /\ ups \subseteq UpVals
  BY HeldIsAlive DEF SafeInv, UpvalInv, ListsInv, TypeOK, lua_upvaluejoin
<1>3. /\ Release(u1) /\ uv' = [uv EXCEPT ![f1] = u2]
      /\ touched' = [touched EXCEPT ![u2] = @ \/ upisopen(u2)]
      /\ UNCHANGED unlinked /\ UNCHANGED <<running, stack, openupval, twups, v>>
      /\ IF upisopen(u2) THEN UNCHANGED marks ELSE luaC_upvalbarrier({Read(u2)})
  BY DEF lua_upvaluejoin, unlinked
<1>4. /\ Recolored /\ Alive' = Alive
      /\ keepinvariant /\ ~upisopen(u2) => Read(u2) \notin White'
  <2>1. CASE upisopen(u2)
    BY <1>3, <2>1, SameColor DEF marks, Alive
  <2>2. CASE ~upisopen(u2)
    BY <1>2, <1>3, <2>2, BarrierColor DEF Alive
  <2>3. QED
    BY <2>1, <2>2
<1>5. /\ ups' \subseteq ups
      /\ \A w \in ups' : value'[w] = value[w]
  BY <1>2, <1>3 DEF Release
<1>6. \A w \in ups' : (upisopen(w)' <=> upisopen(w)) /\ Read(w)' = Read(w)
  BY <1>3, <1>5 DEF Read, ReadVia, upisopen
<1>7. ASSUME NEW d \in Closures, d \in Alive
      PROVE  /\ uv'[d] \in ups' /\ uv'[d] = (IF d = f1 THEN u2 ELSE uv[d])
             /\ (upisopen(uv[d])' <=> upisopen(uv'[d])) /\ Read(uv[d])' = Read(uv'[d])
  <2>1. uv'[d] = (IF d = f1 THEN u2 ELSE uv[d])
    BY <1>2, <1>3
  <2>2. d \in Alive'
    BY <1>4, <1>7
  <2>3. uv'[d] \in ups'
    BY <1>1, <2>2 DEF UpvalInv, RefcountsRight, Alive
  <2>4. PICK w \in ups' : w = uv'[d]
    BY <2>3
  <2>5. (upisopen(uv[d])' <=> upisopen(w)') /\ Read(uv[d])' = Read(w)'
    BY <2>4 DEF Read, ReadVia, upisopen
  <2>6. (upisopen(w)' <=> upisopen(w)) /\ Read(w)' = Read(w)
    BY <1>6
  <2>7. QED
    BY <2>1, <2>3, <2>4, <2>5, <2>6
<1>8. \A d \in Closures \cap Alive' :
        Read(uv[d])' \in Alive' \/ (d \in Alive /\ Read(uv[d])' = Read(uv[d]))
  <2>1. ASSUME NEW d \in Closures, d \in Alive'
        PROVE  Read(uv[d])' \in Alive' \/ (d \in Alive /\ Read(uv[d])' = Read(uv[d]))
    <3>1. d \in Alive
      BY <1>4, <2>1
    <3>2. Read(uv'[d]) = IF d = f1 THEN Read(u2) ELSE Read(uv[d])
      BY <1>7, <3>1
    <3>3. QED
      BY <1>2, <1>4, <1>7, <3>1, <3>2
  <2>2. QED
    BY <2>1
<1>9. ASSUME NEW d \in Closures, color[d] = "black", keepinvariant PROVE Settled(d)
  <2>1. d \in Alive
    BY <1>9, Kinds DEF Alive
  <2>2. /\ uv'[d] = (IF d = f1 THEN u2 ELSE uv[d]) /\ uv[d] \in ups
        /\ (upisopen(uv[d])' <=> upisopen(uv'[d])) /\ Read(uv[d])' = Read(uv'[d])
    BY <1>2, <1>7, <2>1 DEF NoDangling
  <2>3. CASE uv'[d] = u2
    <3>1. CASE upisopen(u2)
      <4>1. touched'[u2]
        BY <1>2, <1>3, <3>1
      <4>2. QED
        BY <2>2, <2>3, <3>1, <4>1 DEF Settled
    <3>2. CASE ~upisopen(u2)
      BY <1>4, <1>9, <2>2, <2>3, <3>2 DEF Settled
    <3>3. QED
      BY <3>1, <3>2
  <2>4. CASE uv'[d] # u2
    <3>1. d # f1 /\ uv'[d] = uv[d] /\ uv[d] # u2
      BY <2>2, <2>4
    <3>2. touched'[uv[d]] = touched[uv[d]]
      BY <1>2, <1>3, <2>2, <3>1
    <3>3. QED
      BY <2>2, <3>1, <3>2 DEF Settled
  <2>5. QED
    BY <2>3, <2>4
<1>10. /\ running' \in Alive' /\ twups' = twups
       /\ \A t \in Threads : ToSet(stack'[t]) \subseteq ToSet(stack[t]) \cup Alive'
  BY <1>2, <1>3, <1>4
<1>11. QED
  BY <1>1, <1>2, <1>3, <1>4, <1>8, <1>9, <1>10, ProgramStep

\* The values of the slots that go are copied into their upvalues, with a barrier.
LEMMA SafeLeave ==
  ASSUME SafeInv, NEW level \in Levels, Leave(level)
  PROVE  SafeInv'
<1> DEFINE G == Gone(running, level)
           moved == {stack[running][l] : l \in CapturedFrom(running, level)}
<1>1. UpvalInv'
  BY StructLeave
<1>2. /\ UpvalInv /\ ListsInv /\ TypeOK /\ NoDangling /\ Runs /\ running \in Threads
      /\ running \in Alive /\ Top(running) \in Nat /\ level \in 1..Top(running)
  BY HeldIsAlive DEF SafeInv, UpvalInv, ListsInv, Leave
<1>3. /\ luaF_close(running, level) /\ luaC_upvalbarrier(moved) /\ stack' = Cut(running, level)
      /\ UNCHANGED unlinked /\ UNCHANGED <<running, twups, uv, refcount>>
  BY DEF Leave, Cut
<1>4. level \in Nat \ {0} /\ level \in Nat /\ level <= Top(running) + 1
  BY <1>2
<1>5. /\ ups' = ups \ {u \in G : refcount[u] = 0}
      /\ touched' = [u \in UpVals |-> touched[u] /\ u \notin G]
      /\ \A w \in Threads : w # running => openupval'[w] = openupval[w]
      /\ ToSet(openupval'[running]) = ToSet(openupval[running]) \ G
      /\ openupval' \in [Threads -> Seq(UpVals)]
  BY <1>2, <1>3, <1>4, CloseEffect
<1>6. /\ \A u \in ups' \cap G : ~upisopen(u)' /\ value'[u] = Read(u)
      /\ \A u \in ups' \ G : v'[u] = v[u] /\ value'[u] = value[u]
  BY <1>2, <1>3, <1>4, CloseTypes
<1>7. /\ \A w \in Threads : w # running => stack'[w] = stack[w]
      /\ \A l \in 1..(level - 1) : stack'[running][l] = stack[running][l]
      /\ ToSet(stack'[running]) \subseteq ToSet(stack[running])
  <2> DEFINE stk == Cut(running, level)
  <2>1. /\ \A w \in Threads : w # running => stk[w] = stack[w]
        /\ \A l \in 1..(level - 1) : stk[running][l] = stack[running][l]
        /\ ToSet(stk[running]) \subseteq ToSet(stack[running])
    <3>1. ListsInv /\ running \in Threads /\ level \in Nat \ {0} /\ level <= Top(running) + 1
      BY <1>2, <1>4
    <3>2. QED
      BY ONLY <3>1, Cutting
  <2>2. stack' = stk
    BY <1>3
  <2> HIDE DEF stk
  <2>3. QED
    BY <2>1, <2>2
<1>8. /\ Recolored /\ Alive' = Alive
      /\ keepinvariant => \A o \in Objs : o \in moved => o \notin White'
  <2> HIDE DEF moved
  <2>1. QED
    BY <1>2, <1>3, BarrierColor
<1> HIDE DEF G
<1>9. ASSUME NEW u \in ups'
      PROVE  /\ u \in ups /\ Read(u)' = Read(u)
             /\ u \in G => ~upisopen(u)' /\ upisopen(u) /\ v[u][1] = running /\ refcount[u] # 0
                           /\ Level(u) >= level
             /\ u \notin G => (upisopen(u)' <=> upisopen(u)) /\ touched'[u] = touched[u]
  <2>1. u \in ups /\ u \in UpVals
    BY <1>2, <1>5 DEF TypeOK
  <2>2. CASE u \in G
    <3>1. /\ ~upisopen(u)' /\ value'[u] = Read(u) /\ refcount[u] # 0
      BY <1>5, <1>6, <2>2
    <3>2. Read(u)' = value'[u]
      BY <3>1 DEF Read, ReadVia, upisopen
    <3>3. QED
      BY <2>1, <2>2, <3>1, <3>2 DEF G, Gone
  <2>3. CASE u \notin G
    <3>1. v'[u] = v[u] /\ value'[u] = value[u] /\ touched'[u] = touched[u]
      <4>1. u \in ups' \ G
        BY <2>3
      <4>2. touched \in [UpVals -> BOOLEAN]
        BY <1>2 DEF TypeOK
      <4>3. QED
        BY <1>5, <1>6, <2>1, <2>3, <4>1, <4>2
    <3>2. ASSUME upisopen(u) PROVE stack'[v[u][1]][v[u][2]] = stack[v[u][1]][v[u][2]]
      <4>1. v[u][1] \in Threads /\ v[u][2] \in 1..Top(v[u][1]) /\ v[u][2] \in Nat
        BY <1>2, <2>1, <3>2, Reads
      <4>2. CASE v[u][1] = running
        <5>1. ~(v[u][2] >= level)
          BY <2>1, <2>3, <3>2, <4>2 DEF G, Gone, Level
        <5>2. v[u][2] \in 1..(level - 1)
          BY <1>2, <1>4, <4>1, <4>2, <5>1
        <5>3. QED
          BY <1>7, <4>2, <5>2
      <4>3. CASE v[u][1] # running
        BY <1>7, <4>1, <4>3
      <4>4. QED
        BY <4>2, <4>3
    <3>3. QED
      BY <2>1, <2>3, <3>1, <3>2, ReadSame
  <2>4. QED
    BY <2>2, <2>3
<1>10. ASSUME NEW d \in Closures, d \in Alive
       PROVE  /\ uv'[d] = uv[d] /\ uv[d] \in ups' /\ uv[d] \in ups
              /\ Read(uv[d])' = Read(uv[d]) /\ Read(uv[d]) \in Alive
  <2>1. uv[d] \in ups /\ Read(uv[d]) \in Alive
    BY <1>2, <1>10 DEF NoDangling
  <2>2. uv'[d] \in ups' /\ uv'[d] = uv[d]
    BY <1>1, <1>3, <1>8, <1>10 DEF UpvalInv, RefcountsRight, Alive
  <2>3. PICK u \in ups' : u = uv[d]
    BY <2>2
  <2>4. Read(u)' = Read(u) /\ Read(uv[d])' = Read(u)'
    BY <1>9, <2>2, <2>3 DEF Read, ReadVia, upisopen
  <2>5. QED
    BY <2>1, <2>2, <2>3, <2>4
<1>11. ASSUME NEW d \in Closures, color[d] = "black", keepinvariant PROVE Settled(d)
  <2>1. d \in Alive
    BY <1>11, Kinds DEF Alive
  <2>2. PICK u \in ups' : u = uv[d] /\ u = uv'[d]
    BY <1>10, <2>1
  <2>3. Read(u)' = Read(u) /\ Read(uv[d])' = Read(u)' /\ (upisopen(uv[d])' <=> upisopen(u)')
    BY <1>9, <2>2 DEF Read, ReadVia, upisopen
  <2>4. CASE u \in G
    <3>1. ~upisopen(u)' /\ upisopen(u) /\ v[u][1] = running /\ refcount[u] # 0 /\ u \in ups
          /\ Level(u) >= level
      BY <1>9, <2>4
    <3>2. Read(u) = stack[running][v[u][2]] /\ u \in ToSet(openupval[running])
      BY <1>2, <3>1, Reads
    <3>3. v[u][2] \in CapturedFrom(running, level)
      BY <3>1, <3>2 DEF CapturedFrom, Level
    <3>4. Read(u) \in moved /\ Read(u) \in Alive
      BY <1>10, <2>1, <2>2, <3>2, <3>3
    <3>5. Read(u) \notin White'
      BY <1>8, <1>11, <3>4 DEF Alive
    <3>6. QED
      BY <2>3, <3>1, <3>5 DEF Settled
  <2>5. CASE u \notin G
    BY <1>9, <2>2, <2>3, <2>5 DEF Settled
  <2>6. QED
    BY <2>4, <2>5
<1>12. \A t \in Threads : openupval'[t] # <<>> => openupval[t] # <<>>
  <2>1. ASSUME NEW t \in Threads, openupval'[t] # <<>> PROVE openupval[t] # <<>>
    <3>1. CASE t = running
      <4>1. 1 \in DOMAIN openupval'[running]
        BY <1>2, <1>5, <2>1, <3>1, EmptySeq, LenProperties
      <4>2. openupval'[running][1] \in ToSet(openupval'[running])
        BY <4>1 DEF ToSet
      <4>3. ToSet(openupval[running]) # {}
        BY <1>5, <4>2
      <4>4. QED
        BY <3>1, <4>3 DEF ToSet
    <3>2. QED
      BY <1>5, <2>1, <3>1
  <2>2. QED
    BY <2>1
<1>13. /\ running' \in Alive' /\ twups' = twups
       /\ \A t \in Threads : ToSet(stack'[t]) \subseteq ToSet(stack[t]) \cup Alive'
       /\ \A d \in Closures \cap Alive' : Read(uv[d])' \in Alive'
  <2>1. \A t \in Threads : ToSet(stack'[t]) \subseteq ToSet(stack[t])
    BY <1>2, <1>7
  <2>2. QED
    BY <1>2, <1>3, <1>8, <1>10, <2>1
<1>14. QED
  BY <1>1, <1>2, <1>3, <1>8, <1>11, <1>12, <1>13, ProgramStep

-----------------------------------------------------------------------------
(* Steps of the collector.                                                 *)

\* A step of the collector that leaves stacks, upvalues and what is alive alone keeps every reader safe.
LEMMA CollectorAlive ==
  ASSUME SafeInv, UNCHANGED <<running, stack, uv, ups, v, value>>, Alive' = Alive
  PROVE  NoDangling' /\ \A u : Read(u)' = Read(u) /\ (upisopen(u)' <=> upisopen(u))
BY DEF SafeInv, NoDangling, Read, ReadVia, upisopen

\* What a step that marks S, and makes the closures in B black, does to colors.
Blackened(S, B) ==
  \A w \in Objs :
    /\ color'[w] = "free" <=> color[w] = "free"
    /\ color'[w] = "dead" <=> color[w] = "dead"
    /\ color'[w] = "white" <=> color[w] = "white" /\ w \notin S
    /\ color'[w] = "gray" <=> (color[w] = "gray" /\ w \notin B) \/ w \in Grayed(S)
    /\ w \in Closures => (color'[w] = "black" <=> color[w] = "black" \/ w \in B)

\* Marking makes closures gray, and blackens none.
LEMMA MarkBlackens ==
  ASSUME color \in [Objs -> {"free", "white", "dead", "gray", "black"}], NEW S,
         color' = Marked(S)
  PROVE  Blackened(S, {})
BY MarkEffect, Kinds DEF Blackened

\* propagatemark blackens a closure only with the value it reads marked.
LEMMA SafePropagate ==
  ASSUME SafeInv, NEW o \in gray, gcstate \in {"propagate", "atomic", "insideatomic"},
         gcstate = "propagate" \/ todo = {}, propagatemark(o),
         gcstate' = gcstate \/ (gcstate = "propagate" /\ gcstate' = "atomic")
  PROVE  SafeInv'
<1>1. UpvalInv'
  BY StructPropagate
<1>2. /\ UpvalInv /\ ListsInv /\ TypeOK /\ Marking /\ Linked /\ TwupsInv /\ PhaseInv /\ NoDangling
      /\ o \in Threads \cup Closures /\ o \in Objs /\ color[o] = "gray"
      /\ color \in [Objs -> {"free", "white", "dead", "gray", "black"}]
      /\ \A c \in Closures : color[c] = "black" => Done(c)
      /\ gray \subseteq Objs /\ grayagain \subseteq Objs
  <2>1. /\ UpvalInv /\ ListsInv /\ TypeOK /\ Marking /\ Linked /\ TwupsInv /\ PhaseInv /\ NoDangling
        /\ o \in Threads \cup Closures /\ gray \subseteq Threads \cup Closures
        /\ grayagain \subseteq Threads
        /\ \A c \in Closures : color[c] = "black" => Done(c)
    BY DEF SafeInv, UpvalInv, ListsInv, TypeOK, Marking, MarkInv
  <2>2. color[o] = "gray"
    BY <2>1 DEF Linked
  <2>3. QED
    BY <2>1, <2>2, Kinds DEF TypeOK
<1>3. /\ UNCHANGED <<apc, unswept, running, stack, openupval, todo, uv, ups, refcount, v, value>>
      /\ \/ o \in Closures /\ traverseLclosure(o)
         \/ o \in Threads /\ traversethread(o)
  BY DEF propagatemark
<1>4. /\ (gcstate' = "insideatomic" <=> gcstate = "insideatomic")
      /\ Marking' /\ gcstate' # "pause" /\ gcstate' # "sweep"
      /\ gcstate = "insideatomic" => todo = {}
  BY <1>2 DEF Marking
<1>5. ASSUME NEW S, NEW B, B \subseteq Closures, Blackened(S, B),
             B \cap grayagain = {}
      PROVE  /\ Alive' = Alive /\ NoDangling' /\ PhaseInv'
             /\ \A t \in Threads : color[t] = "gray" => color'[t] = "gray"
             /\ \A u : Read(u)' = Read(u) /\ (upisopen(u)' <=> upisopen(u))
             /\ \A w \in Objs : w \in White' <=> w \in White /\ w \notin S
  <2>1. Alive' = Alive
    BY <1>5 DEF Alive, Blackened
  <2>2. PhaseInv'
    BY <1>2, <1>3, <1>4, <1>5, Kinds DEF PhaseInv, Blackened
  <2>3. \A t \in Threads : color[t] = "gray" => color'[t] = "gray"
    BY <1>5, Kinds DEF Blackened
  <2>4. \A w \in Objs : w \in White' <=> w \in White /\ w \notin S
    BY <1>5 DEF Blackened, White
  <2>5. QED
    BY <1>3, <2>1, <2>2, <2>3, <2>4, CollectorAlive
<1>6. CASE o \in Closures /\ traverseLclosure(o)
  <2>1. PICK u, later, S : /\ u = uv[o] /\ later = (upisopen(u) /\ gcstate # "insideatomic")
                           /\ S = IF later THEN {} ELSE {Read(u)}
    OBVIOUS
  <2>2. /\ touched' = [touched EXCEPT ![u] = @ \/ later]
        /\ color' = [Marked(S) EXCEPT ![o] = "black"]
        /\ gray' = (gray \ {o}) \cup Grayed(S)
        /\ UNCHANGED <<grayagain, twups>>
    BY <1>6, <2>1, Zenon DEF traverseLclosure
  <2>3. Blackened(S, {o})
    <3>1. /\ Marked(S) \in [Objs -> {"free", "white", "dead", "gray", "black"}]
          /\ \A w \in Objs :
               /\ Marked(S)[w] = "white" <=> color[w] = "white" /\ w \notin S
               /\ Marked(S)[w] = "free" <=> color[w] = "free"
               /\ Marked(S)[w] = "dead" <=> color[w] = "dead"
               /\ Marked(S)[w] = "gray" <=> color[w] = "gray" \/ w \in Grayed(S)
               /\ Marked(S)[w] = "black" <=> color[w] = "black" \/ (w \in Leaves /\ w \in S \cap White)
      BY <1>2, MarkEffect
    <3>2. o \notin Grayed(S) /\ \A w \in Objs : color'[w] = IF w = o THEN "black" ELSE Marked(S)[w]
      BY <1>2, <2>2, <3>1 DEF Grayed, White
    <3>3. QED
      BY <1>2, <3>1, <3>2, Kinds DEF Blackened
  <2>4. {o} \subseteq Closures /\ {o} \cap grayagain = {} /\ o \notin Threads
    BY <1>2, <1>6, Kinds DEF TypeOK
  <2>5. /\ Alive' = Alive /\ NoDangling' /\ PhaseInv'
        /\ \A t \in Threads : color[t] = "gray" => color'[t] = "gray"
        /\ \A w : Read(w)' = Read(w) /\ (upisopen(w)' <=> upisopen(w))
        /\ \A w \in Objs : w \in White' <=> w \in White /\ w \notin S
    BY <1>5, <2>3, <2>4
  <2>6. u \in ups /\ u \in UpVals /\ Read(u) \in Objs
    BY <1>2, <1>6, <2>1 DEF NoDangling, Alive, TypeOK
  <2>7. \A w \in UpVals : touched[w] => touched'[w]
    BY <1>2, <2>2 DEF TypeOK
  <2>8. Linked'
    <3>1. /\ Main \notin White' /\ (gcstate' = "insideatomic" => running \notin White')
      BY <1>2, <1>4, <2>5, Kinds DEF Linked, White
    <3>2. \A w \in gray' \cup grayagain' : color'[w] = "gray"
      <4>1. \A w \in (gray \ {o}) \cup grayagain : w # o /\ w \in Objs /\ color[w] = "gray"
        BY <1>2, <2>4 DEF Linked
      <4>2. \A w \in Grayed(S) : w \in Objs
        BY DEF Grayed, White
      <4>3. QED
        BY <2>2, <2>3, <4>1, <4>2 DEF Blackened
    <3>3. \A c \in Closures : color'[c] = "gray" => c \in gray'
      BY <1>2, <2>2, <2>3, Kinds DEF Linked, Blackened
    <3>4. ASSUME NEW t \in Threads, color'[t] = "gray", t \notin gray'
          PROVE  \/ apc # "again" /\ t \in grayagain
                 \/ apc = "again" /\ ToSet(stack[t]) \cap White' = {}
      <4>1. t # o /\ t \notin Grayed(S) /\ t \notin gray /\ color[t] = "gray"
        BY <2>2, <2>3, <2>4, <3>4, Kinds DEF Blackened
      <4>2. White' \subseteq White
        BY <2>5 DEF White
      <4>3. QED
        BY <1>2, <4>1, <4>2 DEF Linked
    <3>5. QED
      BY <1>3, <2>2, <3>1, <3>2, <3>3, <3>4 DEF Linked
  <2>9. TwupsInv'
    <3>1. \A t \in Threads : color'[t] = "gray" => color[t] = "gray" \/ t \in gray'
      BY <2>2, <2>3, Kinds DEF Blackened
    <3>2. \A t \in twups : t \in Threads
      BY <1>2 DEF TypeOK
    <3>3. \A t \in Threads : t \in gray => t \in gray'
      BY <2>2, <2>4
    <3>4. QED
      BY <1>2, <1>3, <1>4, <2>2, <2>5, <3>1, <3>2, <3>3 DEF TwupsInv, Runs
  <2>10. ASSUME NEW c \in Closures, color'[c] = "black" PROVE Done(c)'
    <3>1. CASE c = o
      <4>1. uv'[c] = u /\ Read(uv[c])' = Read(u) /\ (upisopen(uv[c])' <=> upisopen(u))
        BY <1>3, <2>1, <2>5, <3>1 DEF Read, ReadVia, upisopen
      <4>2. CASE later
        <5>1. touched'[u]
          BY <1>2, <2>2, <2>6, <4>2 DEF TypeOK
        <5>2. QED
          BY <1>4, <2>1, <4>1, <4>2, <5>1 DEF Done
      <4>3. CASE ~later
        <5>1. Read(u) \notin White'
          BY <2>1, <2>5, <2>6, <4>3
        <5>2. QED
          BY <1>4, <2>1, <4>1, <4>3, <5>1 DEF Done
      <4>4. QED
        BY <2>1, <4>2, <4>3
    <3>2. CASE c # o
      <4>1. color[c] = "black"
        BY <2>3, <2>10, <3>2, Kinds DEF Blackened
      <4>2. Done(c) /\ uv[c] \in ups /\ uv[c] \in UpVals
        BY <1>2, <4>1, Kinds DEF NoDangling, Alive, TypeOK
      <4>3. PICK w \in UpVals : w = uv[c]
        BY <4>2
      <4>4. /\ uv'[c] = w /\ Read(uv[c])' = Read(w) /\ (upisopen(uv[c])' <=> upisopen(w))
            /\ Read(uv[c]) = Read(w) /\ v'[w] = v[w] /\ todo' = todo
            /\ (touched[w] => touched'[w])
        BY <1>3, <2>5, <2>7, <4>3 DEF Read, ReadVia, upisopen
      <4>5. Read(w) \notin White => Read(w) \notin White'
        BY <2>5 DEF White
      <4>6. upisopen(w) => v[w][1] \in Threads
        BY <1>2, <4>2, <4>3, Reads
      <4>7. upisopen(w) /\ color[v[w][1]] = "gray" => color'[v[w][1]] = "gray"
        BY <2>5, <4>6
      <4>8. QED
        BY <1>4, <4>2, <4>3, <4>4, <4>5, <4>7 DEF Done
    <3>3. QED
      BY <3>1, <3>2
  <2>11. QED
    BY <1>1, <2>5, <2>8, <2>9, <2>10 DEF SafeInv, MarkInv
<1>7. CASE o \in Threads /\ traversethread(o)
  <2> DEFINE S == ToSet(stack[o])
  <2>1. /\ color' = Marked(S) /\ gray' = (gray \ {o}) \cup Grayed(S)
        /\ grayagain' = grayagain \cup {o}
        /\ twups' = IF gcstate = "insideatomic" /\ openupval[o] # <<>> THEN twups \cup {o} ELSE twups
        /\ UNCHANGED touched
    BY <1>7 DEF traversethread
  <2>2. Blackened(S, {})
    BY <1>2, <2>1, MarkBlackens
  <2>3. /\ Alive' = Alive /\ NoDangling' /\ PhaseInv'
        /\ \A t \in Threads : color[t] = "gray" => color'[t] = "gray"
        /\ \A w : Read(w)' = Read(w) /\ (upisopen(w)' <=> upisopen(w))
        /\ \A w \in Objs : w \in White' <=> w \in White /\ w \notin S
    BY <1>5, <2>2
  <2>4. Linked'
    <3>1. /\ Main \notin White' /\ (gcstate' = "insideatomic" => running \notin White')
      BY <1>2, <1>4, <2>3, Kinds DEF Linked, White
    <3>2. \A w \in gray' \cup grayagain' : color'[w] = "gray"
      <4>1. \A w \in gray \cup grayagain : w \in Objs /\ color[w] = "gray"
        BY <1>2 DEF Linked
      <4>2. \A w \in Grayed(S) : w \in Objs
        BY DEF Grayed, White
      <4>3. QED
        BY <2>1, <2>2, <4>1, <4>2 DEF Blackened
    <3>3. \A c \in Closures : color'[c] = "gray" => c \in gray'
      BY <1>2, <1>7, <2>1, <2>2, Kinds DEF Linked, Blackened
    <3>4. ASSUME NEW t \in Threads, color'[t] = "gray", t \notin gray'
          PROVE  \/ apc # "again" /\ t \in grayagain'
                 \/ apc = "again" /\ ToSet(stack[t]) \cap White' = {}
      <4>1. t = o \/ (t \notin gray /\ color[t] = "gray" /\ t \in Objs)
        BY <2>1, <2>2, <3>4, Kinds DEF Blackened
      <4>2. CASE t = o
        BY <2>1, <2>3, <4>2 DEF White
      <4>3. CASE t \notin gray /\ color[t] = "gray"
        <5>1. White' \subseteq White
          BY <2>3 DEF White
        <5>2. QED
          BY <1>2, <2>1, <4>3, <5>1 DEF Linked
      <4>4. QED
        BY <4>1, <4>2, <4>3
    <3>5. QED
      BY <1>3, <3>1, <3>2, <3>3, <3>4 DEF Linked
  <2>5. TwupsInv'
    <3>1. \A t \in Threads : color'[t] = "gray" => color[t] = "gray" \/ t \in gray'
      BY <2>1, <2>2, Kinds DEF Blackened
    <3>2. \A t \in twups : t \in Threads
      BY <1>2 DEF TypeOK
    <3>3. o \in Alive /\ color'[o] = "gray"
      BY <1>2, <1>7, <2>3 DEF Alive
    <3>4. twups' \subseteq Alive'
      BY <1>2, <2>1, <2>3, <3>3 DEF TwupsInv
    <3>5. CASE gcstate = "insideatomic"
      <4>1. \A t \in twups' \ todo' : color'[t] = "gray"
        BY <1>2, <1>3, <2>1, <2>3, <3>2, <3>3, <3>5 DEF TwupsInv, Runs
      <4>2. ASSUME NEW t \in Threads, color'[t] = "gray", openupval'[t] # <<>>
            PROVE  t \in twups' \cup gray'
        <5>1. CASE t = o
          BY <1>3, <2>1, <3>5, <4>2, <5>1
        <5>2. CASE t # o
          BY <1>2, <1>3, <2>1, <3>1, <3>5, <4>2, <5>2 DEF TwupsInv, Runs
        <5>3. QED
          BY <5>1, <5>2
      <4>3. QED
        BY <1>4, <3>4, <3>5, <4>1, <4>2 DEF TwupsInv, Runs
    <3>6. CASE gcstate # "insideatomic"
      BY <1>2, <1>3, <1>4, <2>1, <2>3, <3>4, <3>6 DEF TwupsInv, Runs
    <3>7. QED
      BY <3>5, <3>6
  <2>6. ASSUME NEW c \in Closures, color'[c] = "black" PROVE Done(c)'
    <3>1. color[c] = "black"
      BY <2>2, <2>6, Kinds DEF Blackened
    <3>2. Done(c) /\ uv[c] \in ups /\ uv[c] \in UpVals
      BY <1>2, <3>1, Kinds DEF NoDangling, Alive, TypeOK
    <3>3. PICK w \in UpVals : w = uv[c]
      BY <3>2
    <3>4. /\ uv'[c] = w /\ Read(uv[c])' = Read(w) /\ (upisopen(uv[c])' <=> upisopen(w))
          /\ Read(uv[c]) = Read(w) /\ v'[w] = v[w] /\ todo' = todo
          /\ touched'[w] = touched[w]
      BY <1>3, <2>1, <2>3, <3>3 DEF Read, ReadVia, upisopen
    <3>5. Read(w) \notin White => Read(w) \notin White'
      BY <2>3 DEF White
    <3>6. upisopen(w) => v[w][1] \in Threads
      BY <1>2, <3>2, <3>3, Reads
    <3>7. upisopen(w) /\ color[v[w][1]] = "gray" => color'[v[w][1]] = "gray"
      BY <2>3, <3>6
    <3>8. QED
      BY <1>4, <3>2, <3>3, <3>4, <3>5, <3>7 DEF Done
  <2>7. QED
    BY <1>1, <2>3, <2>4, <2>5, <2>6 DEF SafeInv, MarkInv
<1>8. QED
  BY <1>3, <1>6, <1>7

\* restartcollection starts with the main thread marked, and nothing else.
LEMMA SafeRestart ==
  ASSUME SafeInv, restartcollection
  PROVE  SafeInv'
<1>1. UpvalInv'
  BY StructAtomic
<1>2. /\ gcstate = "pause" /\ gcstate' = "propagate" /\ apc = "none"
      /\ color' = Marked({Main}) /\ gray' = Grayed({Main}) /\ grayagain' = {}
      /\ UNCHANGED <<apc, unswept, running, stack, openupval, twups, todo, uv, upval>>
      /\ color \in [Objs -> {"free", "white", "dead", "gray", "black"}]
      /\ PhaseInv /\ TwupsInv /\ NoDangling
  BY DEF restartcollection, SafeInv, UpvalInv, ListsInv, TypeOK
<1>3. Blackened({Main}, {})
  BY <1>2, MarkBlackens
<1>4. Alive' = Alive
  BY <1>3 DEF Alive, Blackened
<1>5. NoDangling'
  BY <1>2, <1>4, CollectorAlive DEF upval
<1>6. \A o \in Objs : color[o] \in {"free", "white"}
  BY <1>2 DEF PhaseInv
<1>7. Main \in White /\ Main \in Grayed({Main}) /\ Grayed({Main}) = {Main}
  BY <1>2, <1>6, Kinds DEF PhaseInv, White, Grayed
<1>8. /\ PhaseInv' /\ TwupsInv'
  <2>1. PhaseInv'
    BY <1>2, <1>3, Kinds DEF PhaseInv, Blackened
  <2>2. QED
    BY <1>2, <1>4, <2>1 DEF TwupsInv, Runs
<1>9. /\ \A o \in Objs : color'[o] = "gray" <=> o = Main
      /\ \A c \in Closures : color'[c] # "black"
      /\ color'[Main] # "white"
  BY <1>3, <1>6, <1>7, Kinds DEF Blackened
<1>10. Linked'
  BY <1>2, <1>7, <1>9, Kinds DEF Linked, White
<1>11. QED
  BY <1>1, <1>5, <1>8, <1>9, <1>10 DEF SafeInv, MarkInv

\* The atomic phase marks the running thread, and takes up the list of threads.
LEMMA SafeAtomicBegin ==
  ASSUME SafeInv, AtomicBegin
  PROVE  SafeInv'
<1>1. UpvalInv'
  BY StructAtomic
<1>2. /\ gcstate = "atomic" /\ gcstate' = "insideatomic" /\ apc' = "remark" /\ apc = "none"
      /\ color' = Marked({running}) /\ gray' = gray \cup Grayed({running}) /\ gray = {}
      /\ todo' = twups
      /\ UNCHANGED <<unswept, grayagain, running, stack, openupval, twups, uv,
                     ups, refcount, v, value, touched>>
      /\ color \in [Objs -> {"free", "white", "dead", "gray", "black"}]
      /\ UpvalInv /\ ListsInv /\ PhaseInv /\ TwupsInv /\ NoDangling /\ Linked
      /\ \A c \in Closures : color[c] = "black" => Done(c)
      /\ running \in Threads /\ running \in Objs /\ twups \subseteq Threads
      /\ grayagain \subseteq Threads
  BY Kinds DEF AtomicBegin, mark, upval, SafeInv, UpvalInv, ListsInv, TypeOK, MarkInv, Marking
<1>3. Blackened({running}, {})
  BY <1>2, MarkBlackens
<1>4. Alive' = Alive /\ White' = White \ {running}
  BY <1>2, <1>3 DEF Alive, Blackened, White
<1>5. NoDangling' /\ \A u : Read(u)' = Read(u) /\ (upisopen(u)' <=> upisopen(u))
  BY <1>2, <1>4, CollectorAlive
<1>6. PhaseInv'
  BY <1>2, <1>3, Kinds DEF PhaseInv, Blackened
<1>7. \A t \in Threads : openupval[t] # <<>> => t \in twups
  <2>1. ASSUME NEW t \in Threads, openupval[t] # <<>> PROVE t \in twups
    <3>1. t \in Alive
      BY <1>2, <2>1, Kinds DEF UpvalInv, FreeInv, PhaseInv, Alive
    <3>2. QED
      BY <1>2, <2>1, <3>1 DEF TwupsInv, Runs
  <2>2. QED
    BY <2>1
<1>8. TwupsInv'
  BY <1>2, <1>4, <1>7 DEF TwupsInv, Runs
<1>9. \A o \in Grayed({running}) : o \in Objs /\ o \in White
  BY DEF Grayed, White
<1>10. Linked'
  <2>1. Main \notin White' /\ running \notin White'
    BY <1>2, <1>4 DEF Linked
  <2>2. \A w \in gray' \cup grayagain' : color'[w] = "gray"
    BY <1>2, <1>3, <1>9, Kinds DEF Linked, Blackened
  <2>3. \A w \in Threads \cup Closures : color'[w] = "gray" => color[w] = "gray" \/ w \in gray'
    BY <1>2, <1>3, Kinds DEF Blackened
  <2>4. QED
    BY <1>2, <2>1, <2>2, <2>3 DEF Linked
<1>11. ASSUME NEW c \in Closures, color'[c] = "black" PROVE Done(c)'
  <2>1. color[c] = "black"
    BY <1>3, <1>11, Kinds DEF Blackened
  <2>2. Done(c) /\ uv[c] \in ups /\ uv[c] \in UpVals /\ uv'[c] = uv[c]
    BY <1>2, <2>1, Kinds DEF NoDangling, Alive, UpvalInv, ListsInv, TypeOK
  <2>3. /\ Read(uv[c])' = Read(uv[c]) /\ (upisopen(uv[c])' <=> upisopen(uv[c]))
    BY <1>2, <1>5 DEF Read, ReadVia, upisopen
  <2>4. CASE upisopen(uv[c])
    <3>1. touched[uv[c]]
      BY <1>2, <2>2, <2>4 DEF Done
    <3>2. v[uv[c]][1] \in todo'
      BY <1>2, <1>7, <2>2, <2>4, Reads
    <3>3. QED
      BY <1>2, <2>2, <2>3, <2>4, <3>1, <3>2 DEF Done
  <2>5. CASE ~upisopen(uv[c])
    BY <1>2, <1>4, <2>2, <2>3, <2>5 DEF Done
  <2>6. QED
    BY <2>4, <2>5
<1>12. QED
  BY <1>1, <1>5, <1>6, <1>8, <1>10, <1>11 DEF SafeInv, MarkInv

\* What the atomic phase knows.
LEMMA InAtomic ==
  ASSUME SafeInv, apc # "none"
  PROVE  /\ gcstate = "insideatomic" /\ Linked /\ ~Runs /\ ListsInv /\ UpvalInv
         /\ PhaseInv /\ TwupsInv /\ NoDangling
         /\ \A t \in twups \ todo : color[t] = "gray"
         /\ \A t \in Threads : color[t] = "gray" /\ openupval[t] # <<>> => t \in twups \cup gray
         /\ color \in [Objs -> {"free", "white", "dead", "gray", "black"}]
         /\ \A c \in Closures : color[c] = "black" =>
              /\ uv[c] \in ups /\ uv[c] \in UpVals
              /\ \/ Read(uv[c]) \notin White
                 \/ upisopen(uv[c]) /\ color[v[uv[c]][1]] = "gray"
                 \/ upisopen(uv[c]) /\ v[uv[c]][1] \in todo /\ touched[uv[c]]
         /\ todo \subseteq Threads /\ twups \subseteq Threads /\ grayagain \subseteq Threads
         /\ gray \subseteq Threads \cup Closures
<1>1. /\ gcstate = "insideatomic" /\ Marking /\ ~Runs /\ ListsInv /\ TypeOK /\ UpvalInv
      /\ PhaseInv /\ TwupsInv /\ NoDangling /\ MarkInv
  BY DEF SafeInv, UpvalInv, ListsInv, TypeOK, Marking, Runs
<1>2. \A t \in twups \ todo : color[t] = "gray"
  BY <1>1 DEF TwupsInv
<1>3. \A t \in Threads : color[t] = "gray" /\ openupval[t] # <<>> => t \in twups \cup gray
  BY <1>1 DEF TwupsInv
<1>4. ASSUME NEW c \in Closures, color[c] = "black"
      PROVE  /\ uv[c] \in ups /\ uv[c] \in UpVals
             /\ \/ Read(uv[c]) \notin White
                \/ upisopen(uv[c]) /\ color[v[uv[c]][1]] = "gray"
                \/ upisopen(uv[c]) /\ v[uv[c]][1] \in todo /\ touched[uv[c]]
  <2>1. uv[c] \in ups /\ uv[c] \in UpVals
    BY <1>1, <1>4, Kinds DEF NoDangling, Alive, TypeOK
  <2>2. Done(c)
    BY <1>1, <1>4 DEF MarkInv
  <2>3. QED
    BY <1>1, <2>1, <2>2 DEF Done
<1>5. Linked /\ color \in [Objs -> {"free", "white", "dead", "gray", "black"}]
      /\ todo \subseteq Threads /\ twups \subseteq Threads /\ grayagain \subseteq Threads
      /\ gray \subseteq Threads \cup Closures
  BY <1>1 DEF MarkInv, TypeOK
<1>6. QED
  BY <1>1, <1>2, <1>3, <1>4, <1>5

\* remarkupvals marks the values of touched open upvalues, and may drop the thread from the list.
LEMMA SafeRemark ==
  ASSUME SafeInv, NEW t \in Threads, remarkupvals(t)
  PROVE  SafeInv'
<1> DEFINE stays == color[t] = "gray" /\ openupval[t] # <<>>
           noted == {u \in ToSet(openupval[t]) : touched[u]}
           M     == {Read(u) : u \in noted}
<1>1. UpvalInv'
  BY StructAtomic
<1>2. /\ t \in todo /\ todo' = todo \ {t}
      /\ UNCHANGED <<gcstate, apc, unswept, grayagain, running, stack, openupval, uv,
                     ups, refcount, v, value>>
      /\ stays => UNCHANGED <<twups, marks, touched>>
      /\ ~stays => /\ twups' = twups \ {t} /\ mark(M)
                   /\ touched' = [u \in UpVals |-> touched[u] /\ u \notin noted]
  BY DEF remarkupvals
<1>3. apc = "remark"
  BY <1>2 DEF SafeInv, PhaseInv
<1>4. /\ gcstate = "insideatomic" /\ Linked /\ ~Runs /\ ListsInv /\ UpvalInv
      /\ PhaseInv /\ TwupsInv /\ NoDangling
      /\ \A w \in twups \ todo : color[w] = "gray"
      /\ \A w \in Threads : color[w] = "gray" /\ openupval[w] # <<>> => w \in twups \cup gray
      /\ color \in [Objs -> {"free", "white", "dead", "gray", "black"}]
      /\ \A c \in Closures : color[c] = "black" =>
           /\ uv[c] \in ups /\ uv[c] \in UpVals
           /\ \/ Read(uv[c]) \notin White
              \/ upisopen(uv[c]) /\ color[v[uv[c]][1]] = "gray"
              \/ upisopen(uv[c]) /\ v[uv[c]][1] \in todo /\ touched[uv[c]]
      /\ todo \subseteq Threads /\ twups \subseteq Threads /\ grayagain \subseteq Threads
      /\ gray \subseteq Threads \cup Closures
  BY <1>3, InAtomic
<1>5. CASE stays
  <2>1. /\ UNCHANGED <<gcstate, apc, unswept, grayagain, running, stack, openupval, uv, ups, refcount,
                       v, value, twups, color, gray, touched>>
        /\ todo' = todo \ {t} /\ color[t] = "gray"
    BY <1>2, <1>5 DEF marks
  <2>2. Alive' = Alive /\ White' = White
    BY <2>1 DEF Alive, White
  <2>3. NoDangling' /\ \A u : Read(u)' = Read(u) /\ (upisopen(u)' <=> upisopen(u))
    BY <2>1, <2>2, CollectorAlive
  <2>4. PhaseInv'
    BY <1>3, <1>4, <2>1 DEF PhaseInv, Allocated
  <2>5. TwupsInv'
    BY <1>4, <2>1, <2>2 DEF TwupsInv, Runs
  <2>6. Linked'
    BY <1>4, <2>1, <2>2 DEF Linked
  <2>7. ASSUME NEW c \in Closures, color[c] = "black" PROVE Done(c)'
    <3>1. /\ uv'[c] = uv[c] /\ Read(uv[c])' = Read(uv[c]) /\ (upisopen(uv[c])' <=> upisopen(uv[c]))
      BY <2>1, <2>3 DEF Read, ReadVia, upisopen
    <3>2. CASE Read(uv[c]) \notin White
      BY <1>4, <2>1, <2>2, <3>1, <3>2 DEF Done
    <3>3. CASE upisopen(uv[c]) /\ color[v[uv[c]][1]] = "gray"
      BY <1>4, <2>1, <3>1, <3>3 DEF Done
    <3>4. CASE upisopen(uv[c]) /\ v[uv[c]][1] \in todo /\ touched[uv[c]]
      BY <1>4, <2>1, <3>1, <3>4 DEF Done
    <3>5. QED
      BY <1>4, <2>7, <3>2, <3>3, <3>4
  <2>8. QED
    BY <1>1, <2>1, <2>3, <2>4, <2>5, <2>6, <2>7 DEF SafeInv, MarkInv
<1>6. CASE ~stays
  <2>1. /\ twups' = twups \ {t} /\ color' = Marked(M) /\ gray' = gray \cup Grayed(M)
        /\ touched' = [u \in UpVals |-> touched[u] /\ u \notin noted]
        /\ UNCHANGED <<gcstate, apc, unswept, grayagain, running, stack, openupval, uv,
                       ups, refcount, v, value>>
        /\ todo' = todo \ {t}
    BY <1>2, <1>6 DEF mark
  <2>2. ~(color[t] = "gray" /\ openupval[t] # <<>>)
    BY <1>6
  <2>3. /\ noted = {u \in ToSet(openupval[t]) : touched[u]}
        /\ \A u \in noted : Read(u) \in M
    OBVIOUS
  <2> HIDE DEF M, stays, noted
  <2>4. Blackened(M, {})
    BY <1>4, <2>1, MarkBlackens
  <2>5. /\ Alive' = Alive /\ White' = White \ M
        /\ \A w \in Grayed(M) : w \in Objs /\ w \in White
        /\ \A w \in Threads : color[w] = "gray" => color'[w] = "gray"
        /\ \A w \in Threads \cup Closures : color'[w] = "gray" => color[w] = "gray" \/ w \in gray'
    BY <2>1, <2>4, Kinds DEF Alive, White, Blackened, Grayed
  <2>6. NoDangling' /\ \A u : Read(u)' = Read(u) /\ (upisopen(u)' <=> upisopen(u))
    BY <2>1, <2>5, CollectorAlive
  <2>7. PhaseInv'
    BY <1>3, <1>4, <2>1, <2>4, Kinds DEF PhaseInv, Blackened
  <2>8. TwupsInv'
    <3>1. twups' \subseteq Alive'
      BY <1>4, <2>1, <2>5 DEF TwupsInv
    <3>2. \A w \in twups' \ todo' : color'[w] = "gray"
      BY <1>4, <2>1, <2>5
    <3>3. ASSUME NEW w \in Threads, color'[w] = "gray", openupval[w] # <<>>
          PROVE  w \in twups' \cup gray'
      <4>1. CASE w \in gray'
        BY <4>1
      <4>2. CASE w \notin gray'
        <5>1. color[w] = "gray" /\ w \notin gray
          BY <2>1, <2>5, <3>3, <4>2
        <5>2. w \in twups /\ w # t
          BY <1>4, <2>2, <3>3, <5>1
        <5>3. QED
          BY <2>1, <5>2
      <4>3. QED
        BY <4>1, <4>2
    <3>4. QED
      BY <1>4, <2>1, <3>1, <3>2, <3>3 DEF TwupsInv, Runs
  <2>9. Linked'
    <3>1. Main \notin White' /\ running \notin White'
      BY <1>4, <2>5 DEF Linked
    <3>2. \A w \in gray' \cup grayagain' : color'[w] = "gray"
      <4>1. \A w \in gray \cup grayagain : w \in Objs /\ color[w] = "gray"
        BY <1>4, Kinds DEF Linked
      <4>2. QED
        BY <2>1, <2>4, <2>5, <4>1 DEF Blackened
    <3>3. \A c \in Closures : color'[c] = "gray" => c \in gray'
      BY <1>4, <2>1, <2>5 DEF Linked
    <3>4. \A w \in Threads : color'[w] = "gray" => w \in gray' \/ w \in grayagain
      BY <1>3, <1>4, <2>1, <2>5 DEF Linked
    <3>5. QED
      BY <1>3, <2>1, <3>1, <3>2, <3>3, <3>4 DEF Linked
  <2>10. ASSUME NEW c \in Closures, color'[c] = "black" PROVE Done(c)'
    <3>1. color[c] = "black"
      BY <2>4, <2>10, Kinds DEF Blackened
    <3>2. uv[c] \in ups /\ uv[c] \in UpVals
      BY <1>4, <3>1
    <3>3. /\ uv'[c] = uv[c] /\ Read(uv[c])' = Read(uv[c]) /\ (upisopen(uv[c])' <=> upisopen(uv[c]))
      BY <2>1, <2>6 DEF Read, ReadVia, upisopen
    <3>4. CASE Read(uv[c]) \notin White
      BY <1>4, <2>1, <2>5, <3>3, <3>4 DEF Done
    <3>5. CASE upisopen(uv[c]) /\ color[v[uv[c]][1]] = "gray"
      <4>1. v[uv[c]][1] \in Threads
        BY <1>4, <3>2, <3>5, Reads
      <4>2. color'[v[uv[c]][1]] = "gray"
        BY <2>5, <3>5, <4>1
      <4>3. QED
        BY <1>4, <2>1, <3>3, <3>5, <4>2 DEF Done
    <3>6. CASE upisopen(uv[c]) /\ v[uv[c]][1] \in todo /\ touched[uv[c]]
      <4>1. uv[c] \in ToSet(openupval[v[uv[c]][1]])
        BY <1>4, <3>2, <3>6, Reads
      <4>2. CASE v[uv[c]][1] = t
        <5>1. Read(uv[c]) \in M
          BY <2>3, <3>6, <4>1, <4>2
        <5>2. QED
          BY <1>4, <2>1, <2>5, <3>3, <5>1 DEF Done
      <4>3. CASE v[uv[c]][1] # t
        <5>1. uv[c] \notin noted
          BY <1>4, <2>3, <4>3, OpenList
        <5>2. touched'[uv[c]] /\ v[uv[c]][1] \in todo'
          BY <2>1, <3>2, <3>6, <4>3, <5>1
        <5>3. QED
          BY <1>4, <2>1, <3>3, <3>6, <5>2 DEF Done
      <4>4. QED
        BY <4>2, <4>3
    <3>7. QED
      BY <1>4, <3>1, <3>4, <3>5, <3>6
  <2>11. QED
    BY <1>1, <2>6, <2>7, <2>8, <2>9, <2>10 DEF SafeInv, MarkInv
<1>7. QED
  BY <1>5, <1>6

\* The threads are propagated again, with their stacks as they are now.
LEMMA SafeGrayAgain ==
  ASSUME SafeInv, AtomicGrayAgain
  PROVE  SafeInv'
<1>1. UpvalInv'
  BY StructAtomic
<1>2. /\ apc = "remark" /\ todo = {} /\ gray = {} /\ apc' = "again"
      /\ gray' = grayagain /\ grayagain' = {}
      /\ UNCHANGED <<gcstate, unswept, color, running, stack, openupval, twups, todo, uv,
                     ups, refcount, v, value, touched>>
  BY DEF AtomicGrayAgain, upval
<1>3. /\ gcstate = "insideatomic" /\ Linked /\ ~Runs /\ PhaseInv /\ TwupsInv /\ NoDangling /\ MarkInv
  BY <1>2, InAtomic DEF SafeInv
<1>4. Alive' = Alive /\ White' = White
  BY <1>2 DEF Alive, White
<1>5. NoDangling' /\ \A u : Read(u)' = Read(u) /\ (upisopen(u)' <=> upisopen(u))
  BY <1>2, <1>4, CollectorAlive
<1>6. PhaseInv'
  BY <1>2, <1>3 DEF PhaseInv, Allocated
<1>7. TwupsInv'
  BY <1>2, <1>3, <1>4 DEF TwupsInv, Runs
<1>8. Linked'
  BY <1>2, <1>3, <1>4 DEF Linked
<1>9. ASSUME NEW c \in Closures, color[c] = "black" PROVE Done(c)'
  <2>1. Done(c)
    BY <1>3, <1>9 DEF MarkInv, Marking
  <2>2. /\ uv'[c] = uv[c] /\ Read(uv[c])' = Read(uv[c]) /\ (upisopen(uv[c])' <=> upisopen(uv[c]))
    BY <1>2, <1>5 DEF Read, ReadVia, upisopen
  <2>3. QED
    BY <1>2, <1>4, <2>1, <2>2 DEF Done
<1>10. QED
  BY <1>1, <1>2, <1>5, <1>6, <1>7, <1>8, <1>9 DEF SafeInv, MarkInv

\* What is not marked at the end of the atomic phase is not held by what is.
LEMMA SafeAtomicEnd ==
  ASSUME SafeInv, AtomicEnd
  PROVE  SafeInv'
<1>1. UpvalInv'
  BY StructAtomic
<1>2. /\ apc = "again" /\ gray = {} /\ apc' = "none" /\ gcstate' = "sweep"
      /\ color' = [o \in Objs |-> IF o \in White THEN "dead" ELSE color[o]]
      /\ unswept' = Allocated \ {Main}
      /\ UNCHANGED <<gray, running, stack, openupval, twups, todo, uv, ups, refcount, v, value, touched>>
  BY DEF AtomicEnd, upval
<1>3. /\ gcstate = "insideatomic" /\ Linked /\ ListsInv /\ UpvalInv
      /\ PhaseInv /\ TwupsInv /\ NoDangling
      /\ \A t \in twups \ todo : color[t] = "gray"
      /\ \A t \in Threads : color[t] = "gray" /\ openupval[t] # <<>> => t \in twups \cup gray
      /\ color \in [Objs -> {"free", "white", "dead", "gray", "black"}]
      /\ \A c \in Closures : color[c] = "black" =>
           /\ uv[c] \in ups /\ uv[c] \in UpVals
           /\ \/ Read(uv[c]) \notin White
              \/ upisopen(uv[c]) /\ color[v[uv[c]][1]] = "gray"
              \/ upisopen(uv[c]) /\ v[uv[c]][1] \in todo /\ touched[uv[c]]
      /\ twups \subseteq Threads
  BY <1>2, InAtomic
<1>4. /\ todo = {} /\ \A t \in Threads : color[t] # "black"
      /\ running \in Threads
  BY <1>2, <1>3 DEF PhaseInv, ListsInv, TypeOK
<1>5. /\ Alive' = Alive \ White
      /\ \A o \in Alive' : color[o] \in {"gray", "black"} /\ color'[o] = color[o]
  BY <1>2, <1>3 DEF Alive, White
<1>6. ASSUME NEW t \in Threads, color[t] = "gray" PROVE ToSet(stack[t]) \subseteq Alive'
  <2>1. ToSet(stack[t]) \cap White = {}
    BY <1>2, <1>3, <1>6 DEF Linked
  <2>2. t \in Alive
    BY <1>6, Kinds DEF Alive
  <2>3. QED
    BY <1>3, <1>5, <2>1, <2>2 DEF NoDangling
<1>7. ASSUME NEW c \in Closures, color[c] \in {"gray", "black"}
      PROVE  uv[c] \in ups /\ Read(uv[c]) \in Alive'
  <2>1. color[c] = "black" /\ c \in Alive
    BY <1>2, <1>3, <1>7, Kinds DEF Linked, Alive
  <2>2. uv[c] \in ups /\ Read(uv[c]) \in Alive
    BY <1>3, <2>1 DEF NoDangling
  <2>3. CASE Read(uv[c]) \notin White
    BY <1>5, <2>2, <2>3
  <2>4. CASE upisopen(uv[c]) /\ color[v[uv[c]][1]] = "gray"
    <3>1. v[uv[c]][1] \in Threads /\ Read(uv[c]) \in ToSet(stack[v[uv[c]][1]])
      BY <1>3, <2>2, <2>4, Reads
    <3>2. QED
      BY <1>6, <2>2, <2>4, <3>1
  <2>5. QED
    BY <1>3, <1>4, <2>1, <2>2, <2>3, <2>4
<1>8. NoDangling'
  <2>1. Main \in Alive' /\ running \in Alive'
    BY <1>3, <1>5 DEF Linked, NoDangling
  <2>2. ASSUME NEW t \in Threads, t \in Alive' PROVE ToSet(stack'[t]) \subseteq Alive'
    BY <1>2, <1>4, <1>5, <1>6, <2>2
  <2>3. ASSUME NEW c \in Closures, c \in Alive' PROVE uv'[c] \in ups' /\ Read(uv[c])' \in Alive'
    <3>1. Read(uv[c])' = Read(uv[c])
      BY <1>2 DEF Read, ReadVia, upisopen
    <3>2. QED
      BY <1>2, <1>5, <1>7, <2>3, <3>1
  <2>4. QED
    BY <1>2, <2>1, <2>2, <2>3 DEF NoDangling
<1>9. PhaseInv'
  BY <1>2, <1>3, <1>4, Kinds DEF PhaseInv, Linked, Allocated, White
<1>10. TwupsInv'
  <2>1. \A t \in Threads : color[t] = "gray" => t \in Alive'
    BY <1>3, <1>5, Kinds DEF Alive, White
  <2>2. QED
    BY <1>2, <1>3, <1>4, <1>5, <2>1 DEF TwupsInv, Runs
<1>11. QED
  BY <1>1, <1>2, <1>8, <1>9, <1>10 DEF SafeInv, MarkInv, Marking

\* What is freed is not held by anything alive.
LEMMA SafeSweep ==
  ASSUME SafeInv, NEW o \in Heap, Sweep(o)
  PROVE  SafeInv'
<1>1. UpvalInv'
  BY StructSweep
<1>2. /\ gcstate = "sweep" /\ gcstate' = "sweep" /\ o \in unswept /\ unswept' = unswept \ {o}
      /\ UNCHANGED <<apc, gray, grayagain, running, twups, todo>>
      /\ o \in Objs /\ o \in Allocated /\ o # Main
      /\ UpvalInv /\ ListsInv /\ TypeOK /\ PhaseInv /\ TwupsInv /\ NoDangling
      /\ color \in [Objs -> {"free", "white", "dead", "gray", "black"}]
      /\ uv \in [Closures -> UpVals \cup {None}]
  BY Kinds DEF Sweep, SafeInv, UpvalInv, ListsInv, TypeOK, PhaseInv
<1>3. /\ color[o] # "dead" => color' = [color EXCEPT ![o] = "white"]
      /\ color[o] = "dead" => color' = [color EXCEPT ![o] = "free"]
  BY DEF Sweep
<1>4. Alive' = Alive
  BY <1>2, <1>3 DEF Alive, Allocated
<1>5. PhaseInv'
  <2>1. /\ \A w \in Objs : w # o => color'[w] = color[w]
        /\ color'[o] \in {"free", "white"}
    BY <1>2, <1>3
  <2>2. unswept' \subseteq Allocated'
    BY <1>2, <2>1 DEF PhaseInv, Allocated
  <2>3. \A w \in Heap \ unswept' : color'[w] \in {"free", "white"}
    BY <1>2, <2>1, Kinds DEF PhaseInv
  <2>4. color'[Main] = color[Main]
    BY <1>2, <2>1, Kinds
  <2>5. QED
    BY <1>2, <2>2, <2>3, <2>4 DEF PhaseInv
<1>6. ASSUME \A t \in Threads \cap Alive : stack'[t] = stack[t] /\ openupval'[t] = openupval[t],
             \A c \in Closures \cap Alive : uv'[c] = uv[c],
             \A u \in ups' : u \in ups /\ Read(u)' = Read(u)
      PROVE  SafeInv'
  <2>1. ASSUME NEW c \in Closures, c \in Alive PROVE uv'[c] \in ups' /\ Read(uv[c])' \in Alive'
    <3>1. uv'[c] \in ups' /\ uv'[c] = uv[c]
      BY <1>1, <1>4, <1>6, <2>1 DEF UpvalInv, RefcountsRight, Alive
    <3>2. PICK u \in ups' : u = uv[c]
      BY <3>1
    <3>3. Read(uv[c])' = Read(u)' /\ Read(u)' = Read(u) /\ Read(u) \in Alive
      BY <1>2, <1>6, <2>1, <3>1, <3>2 DEF Read, ReadVia, upisopen, NoDangling
    <3>4. QED
      BY <1>4, <3>1, <3>3
  <2>2. NoDangling'
    <3>1. \A t \in Threads \cap Alive : ToSet(stack'[t]) \subseteq Alive
      BY <1>2, <1>6 DEF NoDangling
    <3>2. {Main, running} \subseteq Alive
      BY <1>2 DEF NoDangling
    <3>3. QED
      BY <1>2, <1>4, <2>1, <3>1, <3>2 DEF NoDangling
  <2>3. TwupsInv'
    BY <1>2, <1>4, <1>6 DEF TwupsInv, Runs
  <2>4. QED
    BY <1>1, <1>2, <1>5, <2>2, <2>3 DEF SafeInv, MarkInv, Marking
<1>7. CASE UNCHANGED <<stack, openupval, uv, upval>>
  <2>1. \A u \in ups' : u \in ups /\ Read(u)' = Read(u)
    BY <1>7 DEF Read, ReadVia, upisopen, upval
  <2>2. QED
    BY <1>6, <1>7, <2>1
<1>8. CASE color[o] = "dead" /\ o \in Closures /\ freeLclosure(o)
  <2>1. /\ Release(uv[o]) /\ uv' = [uv EXCEPT ![o] = None]
        /\ UNCHANGED <<stack, openupval, v, touched>>
    BY <1>8 DEF freeLclosure
  <2>2. /\ \A u \in ups' : u \in ups /\ value'[u] = value[u]
    BY <1>2, <2>1 DEF Release, TypeOK
  <2>3. \A u \in ups' : u \in ups /\ Read(u)' = Read(u)
    BY <2>1, <2>2 DEF Read, ReadVia, upisopen
  <2>4. \A c \in Closures \cap Alive : uv'[c] = uv[c]
    BY <1>2, <1>8, <2>1 DEF Alive
  <2>5. QED
    BY <1>6, <2>1, <2>3, <2>4
<1>9. CASE color[o] = "dead" /\ o \in Coroutines /\ luaE_freethread(o)
  <2>1. /\ luaF_close(o, 1) /\ stack' = [stack EXCEPT ![o] = <<>>] /\ UNCHANGED <<uv, refcount>>
        /\ o \in Threads /\ 1 \in Nat
    BY <1>9, Kinds DEF luaE_freethread
  <2> DEFINE G == Gone(o, 1)
  <2>2. /\ ups' = ups \ {u \in G : refcount[u] = 0}
        /\ \A w \in Threads : w # o => openupval'[w] = openupval[w]
    BY <1>2, <2>1, CloseEffect
  <2>3. /\ \A u \in ups' \cap G : ~upisopen(u)' /\ value'[u] = Read(u)
        /\ \A u \in ups' \ G : v'[u] = v[u] /\ value'[u] = value[u]
    BY <1>2, <2>1, CloseTypes
  <2>4. \A w \in Threads : w # o => stack'[w] = stack[w]
    BY <1>2, <2>1 DEF TypeOK
  <2> HIDE DEF G
  <2>5. ASSUME NEW u \in ups' PROVE u \in ups /\ Read(u)' = Read(u)
    <3>1. u \in ups
      BY <2>2
    <3>2. CASE u \in G
      BY <2>3, <3>1, <3>2 DEF Read, ReadVia, upisopen
    <3>3. CASE u \notin G
      <4>1. v'[u] = v[u] /\ value'[u] = value[u]
        BY <2>3, <3>3
      <4>2. upisopen(u) => v[u][1] \in Threads /\ v[u][1] # o
        BY <1>2, <3>1, <3>3, Reads DEF G, Gone, Level
      <4>3. upisopen(u) => stack'[v[u][1]][v[u][2]] = stack[v[u][1]][v[u][2]]
        BY <2>4, <4>2
      <4>4. QED
        BY <3>1, <4>1, <4>3, ReadSame
    <3>4. QED
      BY <3>2, <3>3
  <2>6. o \notin Alive
    BY <1>9 DEF Alive
  <2>7. /\ \A t \in Threads \cap Alive : stack'[t] = stack[t] /\ openupval'[t] = openupval[t]
        /\ \A c \in Closures \cap Alive : uv'[c] = uv[c]
    BY <2>1, <2>2, <2>4, <2>6
  <2>8. QED
    BY <1>6, <2>5, <2>7
<1>10. QED
  BY <1>7, <1>8, <1>9 DEF Sweep

\* When the sweep ends everything is white again, and nothing is dead.
LEMMA SafeSweepEnds ==
  ASSUME SafeInv, SweepEnds
  PROVE  SafeInv'
<1>1. UpvalInv'
  BY StructAtomic
<1>2. /\ gcstate = "sweep" /\ gcstate' = "pause" /\ unswept = {}
      /\ color' = [color EXCEPT ![Main] = "white"]
      /\ UNCHANGED <<apc, unswept, gray, grayagain, running, stack, openupval, twups, todo, uv,
                     ups, refcount, v, value, touched>>
      /\ UpvalInv /\ PhaseInv /\ TwupsInv /\ NoDangling /\ Main \in Objs
      /\ color \in [Objs -> {"free", "white", "dead", "gray", "black"}]
  BY Kinds DEF SweepEnds, upval, SafeInv, UpvalInv, ListsInv, TypeOK
<1>3. Alive' = Alive
  BY <1>2 DEF Alive, PhaseInv
<1>4. NoDangling'
  BY <1>2, <1>3, CollectorAlive
<1>5. PhaseInv'
  <2>1. \A o \in Heap : color[o] \in {"free", "white"}
    BY <1>2 DEF PhaseInv
  <2>2. \A o \in Objs : color'[o] \in {"free", "white"}
    BY <1>2, <2>1 DEF Objs
  <2>3. QED
    BY <1>2, <2>2 DEF PhaseInv
<1>6. TwupsInv'
  BY <1>2, <1>3 DEF TwupsInv, Runs
<1>7. QED
  BY <1>1, <1>2, <1>4, <1>5, <1>6 DEF SafeInv, MarkInv, Marking

\* A full collection gives up what is marked and sweeps first: nothing is dead then.
LEMMA SafeFullgc ==
  ASSUME SafeInv, luaC_fullgc
  PROVE  SafeInv'
<1>1. UpvalInv'
  BY StructAtomic
<1>2. /\ gcstate \in {"propagate", "atomic"} /\ gcstate' = "sweep"
      /\ unswept' = Allocated \ {Main}
      /\ UNCHANGED <<apc, color, running, stack, openupval, twups, todo, uv,
                     ups, refcount, v, value, touched>>
      /\ UpvalInv /\ PhaseInv /\ TwupsInv /\ NoDangling
  BY DEF luaC_fullgc, keepinvariant, upval, SafeInv
<1>3. Alive' = Alive
  BY <1>2 DEF Alive
<1>4. NoDangling'
  BY <1>2, <1>3, CollectorAlive
<1>5. PhaseInv'
  BY <1>2, Kinds DEF PhaseInv, Allocated
<1>6. TwupsInv'
  BY <1>2, <1>3 DEF TwupsInv, Runs
<1>7. QED
  BY <1>1, <1>2, <1>4, <1>5, <1>6 DEF SafeInv, MarkInv, Marking

-----------------------------------------------------------------------------
(* The theorems.                                                           *)

\* It holds in the first state.
LEMMA SafeInit ==
  ASSUME Init
  PROVE  SafeInv
<1>1. UpvalInv
  BY StructInit
<1>2. /\ color = [o \in Objs |-> IF o = Main THEN "white" ELSE "free"] /\ gcstate = "pause"
      /\ apc = "none" /\ todo = {} /\ twups = {} /\ running = Main
      /\ stack = [t \in Threads |-> <<>>] /\ openupval = [t \in Threads |-> <<>>]
  BY DEF Init
<1>3. Alive = {Main}
  BY <1>2, Kinds DEF Alive
<1>4. NoDangling
  <2>1. ToSet(stack[Main]) = {}
    BY <1>2, Kinds DEF ToSet
  <2>2. QED
    BY <1>2, <1>3, <2>1, Kinds DEF NoDangling
<1>5. PhaseInv /\ TwupsInv
  BY <1>2, <1>3, Kinds DEF PhaseInv, TwupsInv, Runs
<1>6. QED
  BY <1>1, <1>2, <1>4, <1>5 DEF SafeInv, MarkInv, Marking

\* Every step keeps the invariant, unless a closure joins its upvalue to itself.
LEMMA SafeNext ==
  ASSUME SelfJoin = FALSE, SafeInv, Next
  PROVE  SafeInv'
<1>1. CASE Program
  <2>1. CASE \E o \in Leaves \cup Coroutines : luaC_newobj(o)
    BY <2>1, SafeNewObject
  <2>2. CASE \E x \in Heap : GetValue(x)
    BY <2>2, SafeGetValue
  <2>3. CASE \E l \in Levels, x \in Heap : SetLocal(l, x)
    BY <2>3, SafeSetLocal
  <2>4. CASE \E c \in Closures, l \in Levels : pushclosure(c, l)
    BY <2>4, SafePushClosure
  <2>5. CASE \E c, e \in Closures : pushclosure_enclosing(c, e) \/ lua_upvaluejoin(c, e)
    BY <2>5, SafeEnclosing, SafeJoin
  <2>6. CASE \E c \in Closures, x \in Heap : OP_SETUPVAL(c, x)
    BY <2>6, SafeSetUpval
  <2>7. CASE \E l \in Levels : Leave(l)
    BY <2>7, SafeLeave
  <2>8. CASE \E t \in Coroutines, xs \in Passed : lua_resume(t, xs)
    BY <2>8, SafeResume
  <2>9. CASE \E xs \in Passed : lua_yield(xs)
    BY <2>9, SafeYield
  <2>10. QED
    BY <1>1, <2>1, <2>2, <2>3, <2>4, <2>5, <2>6, <2>7, <2>8, <2>9 DEF Program
<1>2. CASE Collector
  <2>1. CASE Propagate
    <3>1. PICK o \in gray : propagatemark(o)
      BY <2>1 DEF Propagate
    <3>2. gcstate = "propagate" /\ gcstate' \in {gcstate, "atomic"}
      BY <2>1 DEF Propagate
    <3>3. QED
      BY <3>1, <3>2, SafePropagate
  <2>2. CASE PropagateAll
    <3>1. PICK o \in gray : propagatemark(o)
      BY <2>2 DEF PropagateAll
    <3>2. gcstate \in {"atomic", "insideatomic"} /\ gcstate' = gcstate /\ todo = {}
      BY <2>2 DEF PropagateAll
    <3>3. QED
      BY <3>1, <3>2, SafePropagate
  <2>3. CASE \E t \in Threads : remarkupvals(t)
    BY <2>3, SafeRemark
  <2>4. CASE \E o \in Heap : Sweep(o)
    BY <2>4, SafeSweep
  <2>5. QED
    BY <1>2, <2>1, <2>2, <2>3, <2>4, SafeRestart, SafeAtomicBegin, SafeGrayAgain,
       SafeAtomicEnd, SafeSweepEnds, SafeFullgc
       DEF Collector
<1>3. QED
  BY <1>1, <1>2 DEF Next

\* Steps that change nothing.
LEMMA SafeStutters ==
  ASSUME SafeInv, UNCHANGED vars
  PROVE  SafeInv'
<1>1. UNCHANGED <<gcstate, apc, unswept, color, gray, grayagain, running, stack, openupval,
                  twups, todo, uv, ups, refcount, v, value, touched>>
  BY DEF vars, collector, marks, upval
<1>2. UpvalInv'
  <2>1. UpvalInv /\ TypeOK
    BY DEF SafeInv, UpvalInv, ListsInv
  <2>2. TypeOK'
    BY <1>1, <2>1 DEF TypeOK
  <2>3. QED
    BY <1>1, <2>1, <2>2, StructStays2
<1>3. Alive' = Alive
  BY <1>1 DEF Alive
<1>4. NoDangling' /\ \A u : Read(u)' = Read(u) /\ (upisopen(u)' <=> upisopen(u))
  BY <1>1, <1>3, CollectorAlive
<1>5. PhaseInv' /\ TwupsInv'
  BY <1>1, <1>3 DEF SafeInv, PhaseInv, TwupsInv, Allocated, Runs
<1>6. White' = White
  BY <1>1 DEF White
<1>7. Marking => Linked'
  BY <1>1, <1>6 DEF SafeInv, MarkInv, Linked
<1>8. ASSUME Marking, NEW c \in Closures, color[c] = "black" PROVE Done(c)'
  <2>1. Done(c)
    BY <1>8 DEF SafeInv, MarkInv
  <2>2. /\ uv'[c] = uv[c] /\ Read(uv[c])' = Read(uv[c]) /\ (upisopen(uv[c])' <=> upisopen(uv[c]))
    BY <1>1 DEF Read, ReadVia, upisopen
  <2>3. QED
    BY <1>1, <1>6, <2>1, <2>2 DEF Done
<1>9. QED
  BY <1>1, <1>2, <1>4, <1>5, <1>7, <1>8 DEF SafeInv, MarkInv, Marking

\* So it holds in every state.
LEMMA SafetyHolds ==
  ASSUME SelfJoin = FALSE
  PROVE  Spec => []SafeInv
<1>1. SafeInv /\ [Next]_vars => SafeInv'
  BY SafeNext, SafeStutters
<1>2. QED
  BY <1>1, SafeInit, PTL DEF Spec

\* Closing, joining and sharing upvalues keep every field of the model in its range, as long
\* as the last reference to a closed upvalue is not joined with itself (lua_upvaluejoin frees
\* the upvalue then and goes on using it).
THEOREM UpvaluesTyped ==
  ASSUME SelfJoin = FALSE
  PROVE  Spec => []TypeOK
<1>1. SafeInv => TypeOK
  BY DEF SafeInv, UpvalInv, ListsInv
<1>2. QED
  BY <1>1, SafetyHolds, PTL

\* Under the same condition: no thread or closure that the collector keeps refers to anything
\* it has freed or is going to free, whatever the program does while the collector works.
THEOREM UpvaluesNeverDangle ==
  ASSUME SelfJoin = FALSE
  PROVE  Spec => []NoDangling
<1>1. SafeInv => NoDangling
  BY DEF SafeInv
<1>2. QED
  BY <1>1, SafetyHolds, PTL

\* Under the same condition: 'refcount' of every upvalue is the number of closures that are
\* not freed and refer to it, and luaC_upvdeccount frees neither too early nor too late.
THEOREM CountsAreExact ==
  ASSUME SelfJoin = FALSE
  PROVE  Spec => []RefcountsRight
<1>1. SafeInv => RefcountsRight
  BY DEF SafeInv, UpvalInv
<1>2. QED
  BY <1>1, SafetyHolds, PTL

\* Under the same condition: the list luaF_findupval searches is complete and sorted, so that
\* a level never gets a second upvalue and luaF_close misses none.
THEOREM OpenListsStaySorted ==
  ASSUME SelfJoin = FALSE
  PROVE  Spec => []OpenListSorted
<1>1. SafeInv => OpenListSorted
  BY DEF SafeInv, UpvalInv, ListsInv
<1>2. QED
  BY <1>1, SafetyHolds, PTL

\* Under the same condition: remarkupvals, which only looks at the threads in twups, looks at
\* every thread that has open upvalues, and at none that was freed (the assertions in
\* luaF_findupval and traversethread).
THEOREM TwupsHasAll ==
  ASSUME SelfJoin = FALSE
  PROVE  Spec => []TwupsComplete
<1>1. SafeInv => TwupsComplete
  <2>1. SafeInv => Alive \subseteq Allocated
    BY DEF Alive, Allocated
  <2>2. QED
    BY <2>1 DEF SafeInv, TwupsInv, TwupsComplete
<1>2. QED
  BY <1>1, SafetyHolds, PTL

-----------------------------------------------------------------------------
(* Upvalues implements SharedVars.                                         *)

\* The refinement mapping, in the terms of these proofs.
LEMMA WithIs ==
  with = [p \in Places |->
           IF p \in Closures THEN IF uv[p] = None THEN {} ELSE Company(p)
           ELSE IF p[2] <= Top(p[1]) THEN {p} \cup Viewers(p) ELSE {}]
BY DEF with, Company, Viewers, upisopen, Top

\* What a place shows: a slot, a closed upvalue or nothing.
NoVar == <<"none", None>>
Shown(p) ==
  IF p \in Closures
  THEN IF uv[p] = None THEN NoVar
       ELSE IF upisopen(uv[p]) THEN <<"slot", v[uv[p]]>> ELSE <<"own", uv[p]>>
  ELSE IF p[2] <= Top(p[1]) THEN <<"slot", p>> ELSE NoVar

\* What it contains.
Seen(p) ==
  IF p \in Closures THEN IF uv[p] = None THEN Nil ELSE Read(uv[p])
  ELSE IF p[2] <= Top(p[1]) THEN stack[p[1]][p[2]] ELSE Nil

shown == [p \in Places |-> Shown(p)]

seen == [p \in Places |-> Seen(p)]

\* The places that show the same, and whether 'with' is that.
Groups(f) == [p \in Places |-> {q \in Places : f[p] # NoVar /\ f[q] = f[p]}]
Viewed == with = Groups(shown)

\* What the mapping takes for the values of variables is what readers read.
LEMMA ContentIs == content = seen
BY DEF content, seen, Seen, Read, ReadVia, upisopen, Top

\* And it is after a step.
LEMMA ContentAfter == content' = seen'
BY DEF content, seen, Seen, Read, ReadVia, upisopen, Top

\* Places are closures and slots, and none is both.
LEMMA PlacesAre ==
  /\ Closures \subseteq Places /\ Slots \subseteq Places
  /\ \A p \in Places : p \in Closures <=> p \notin Slots
BY PlacesAssumption DEF Places

\* A closure shows nothing, or an upvalue that is there; an open one is in a slot in use.
LEMMA ClosureShows ==
  ASSUME UpvalInv, NEW c \in Closures
  PROVE  /\ uv[c] = None <=> color[c] = "free"
         /\ uv[c] # None => uv[c] \in ups /\ uv[c] \in UpVals
         /\ Shown(c) # NoVar <=> uv[c] # None
         /\ uv[c] # None /\ upisopen(uv[c]) =>
              /\ v[uv[c]] \in Slots /\ v[uv[c]][2] <= Top(v[uv[c]][1])
              /\ Shown(c) = <<"slot", v[uv[c]]>>
         /\ uv[c] # None /\ ~upisopen(uv[c]) => v[uv[c]] = Own /\ Shown(c) = <<"own", uv[c]>>
<1>1. /\ color[c] = "free" => uv[c] = None
      /\ color[c] # "free" => uv[c] \in ups
      /\ ListsInv /\ ups \subseteq UpVals /\ None \notin UpVals
  BY ObjectsAssumption DEF UpvalInv, FreeInv, RefcountsRight, ListsInv, TypeOK
<1>2. uv[c] \in ups /\ upisopen(uv[c]) => v[uv[c]] \in Slots /\ v[uv[c]][2] \in 1..Top(v[uv[c]][1])
  BY <1>1, Reads
<1>3. uv[c] \in ups /\ upisopen(uv[c]) => v[uv[c]][2] <= Top(v[uv[c]][1])
  BY <1>2
<1>4. Shown(c) = IF uv[c] = None THEN NoVar
                 ELSE IF upisopen(uv[c]) THEN <<"slot", v[uv[c]]>> ELSE <<"own", uv[c]>>
  BY DEF Shown
<1>5. QED
  BY <1>1, <1>2, <1>3, <1>4 DEF NoVar, upisopen

\* A slot on the stack shows itself.
LEMMA SlotShows ==
  ASSUME NEW p \in Slots
  PROVE  Shown(p) = IF p[2] <= Top(p[1]) THEN <<"slot", p>> ELSE NoVar
BY PlacesAre DEF Shown

\* What shows a slot shows one that is in use.
LEMMA ShownSlots ==
  ASSUME UpvalInv, NEW p \in Places, NEW s, Shown(p) = <<"slot", s>>
  PROVE  s \in Slots /\ Shown(s) = <<"slot", s>>
<1>1. CASE p \in Closures
  <2>1. uv[p] # None /\ upisopen(uv[p]) /\ v[uv[p]] = s
    BY <1>1, ClosureShows DEF NoVar
  <2>2. QED
    BY <1>1, <2>1, ClosureShows, SlotShows
<1>2. CASE p \in Slots
  BY <1>2, SlotShows DEF NoVar
<1>3. QED
  BY <1>1, <1>2, PlacesAre

\* The places that share a variable are the ones that show the same.
LEMMA Views == UpvalInv => Viewed
<1> SUFFICES ASSUME UpvalInv PROVE Viewed
  OBVIOUS
<1> DEFINE Group(p) == {q \in Places : Shown(p) # NoVar /\ Shown(q) = Shown(p)}
<1>1. ASSUME NEW s \in Slots PROVE Viewers(s) = {c \in Closures : Shown(c) = <<"slot", s>>}
  <2>1. ASSUME NEW c \in Closures
        PROVE  (uv[c] # None /\ v[uv[c]] = s) <=> Shown(c) = <<"slot", s>>
    BY ClosureShows, OwnAssumption DEF NoVar
  <2>2. QED
    BY <2>1 DEF Viewers
<1>2. ASSUME NEW s \in Slots, NEW q \in Slots PROVE Shown(q) = <<"slot", s>> => q = s
  BY SlotShows DEF NoVar
<1>3. ASSUME NEW p \in Slots PROVE with[p] = Group(p)
  <2>1. with[p] = IF p[2] <= Top(p[1]) THEN {p} \cup Viewers(p) ELSE {}
    BY PlacesAre, WithIs
  <2>2. CASE p[2] <= Top(p[1])
    <3>1. Shown(p) = <<"slot", p>> /\ Shown(p) # NoVar
      BY <2>2, SlotShows DEF NoVar
    <3>2. QED
      BY <1>1, <1>2, <2>1, <2>2, <3>1, PlacesAre
  <2>3. CASE ~(p[2] <= Top(p[1]))
    BY <2>1, <2>3, SlotShows
  <2>4. QED
    BY <2>2, <2>3
<1>4. ASSUME NEW p \in Closures PROVE with[p] = Group(p)
  <2>1. with[p] = IF uv[p] = None THEN {} ELSE Company(p)
    BY PlacesAre, WithIs
  <2>2. CASE uv[p] = None
    BY <2>1, <2>2, ClosureShows
  <2>3. CASE uv[p] # None /\ upisopen(uv[p])
    <3>1. with[p] = {v[uv[p]]} \cup Viewers(v[uv[p]]) /\ v[uv[p]] \in Slots
          /\ Shown(p) = <<"slot", v[uv[p]]>> /\ Shown(p) # NoVar
      BY <2>1, <2>3, ClosureShows DEF Company
    <3>2. Shown(v[uv[p]]) = <<"slot", v[uv[p]]>>
      BY <3>1, PlacesAre, ShownSlots
    <3>3. QED
      BY <1>1, <1>2, <3>1, <3>2, PlacesAre
  <2>4. CASE uv[p] # None /\ ~upisopen(uv[p])
    <3>1. with[p] = {d \in Closures : uv[d] = uv[p]}
          /\ Shown(p) = <<"own", uv[p]>> /\ Shown(p) # NoVar
      BY <2>1, <2>4, ClosureShows DEF Company
    <3>2. ASSUME NEW d \in Closures PROVE uv[d] = uv[p] <=> Shown(d) = Shown(p)
      BY <2>4, <3>1, ClosureShows DEF NoVar
    <3>3. ASSUME NEW d \in Slots PROVE Shown(d) # Shown(p)
      BY <3>1, SlotShows DEF NoVar
    <3>4. QED
      BY <3>1, <3>2, <3>3, PlacesAre
  <2>5. QED
    BY <2>2, <2>3, <2>4
<1>5. with = [p \in Places |-> with[p]]
  BY WithIs
<1>6. \A p \in Places : with[p] = Group(p)
  BY <1>3, <1>4, PlacesAre
<1>7. \A p \in Places : Groups(shown)[p] = Group(p)
  BY DEF Groups, shown
<1>8. QED
  BY <1>5, <1>6, <1>7 DEF Viewed, Groups

\* Where the lists are sound after a step, who shares is who shows the same.
LEMMA ViewsAfter == UpvalInv' => Viewed'
BY Views, PTL


-----------------------------------------------------------------------------
(* The steps of SharedVars, by what is shown.                              *)

\* A group has the places that show the same.
LEMMA InGroup ==
  ASSUME NEW f, NEW p \in Places
  PROVE  /\ Groups(f)[p] \subseteq Places
         /\ Groups(f)[p] = {} <=> f[p] = NoVar
         /\ \A q \in Places : q \in Groups(f)[p] <=> f[p] # NoVar /\ f[q] = f[p]
BY DEF Groups

\* What is shown may change its name when it is shown in the same places.
LEMMA SameGroups ==
  ASSUME NEW f, NEW g, NEW p \in Places, f[p] = NoVar <=> g[p] = NoVar,
         f[p] # NoVar => \A q \in Places : f[q] = f[p] <=> g[q] = g[p]
  PROVE  Groups(g)[p] = Groups(f)[p]
BY DEF Groups

Stutter == with' = with /\ content' = content

\* The step of SharedVars that a step of the program or of the collector is.
Implements == Shared!Next \/ Stutter

\* The actions of SharedVars, as the steps that are used here.
LEMMA SharedNext ==
  /\ \A p \in Places, x \in Heap : Shared!New(p, x) \/ Shared!Assign(p, x) => Implements
  /\ \A p \in Places \ Closures, c \in Closures, q \in Places : Shared!Close(p, c, q) => Implements
  /\ \A p \in Closures, q \in Places : Shared!Join(p, q) => Implements
  /\ Shared!Leave({p \in Places : with[p] # {} /\ with'[p] = {}}) => Implements
BY DEF Implements, Stutter, Shared!Next, Shared!vars

\* Nothing that is shown changes.
LEMMA SameStep ==
  ASSUME UpvalInv, UpvalInv', shown' = shown, content' = content
  PROVE  Implements
<1>1. with = Groups(shown) /\ with' = Groups(shown)'
  BY Views, ViewsAfter DEF Viewed
<1>2. QED
  BY <1>1 DEF Implements, Stutter, Groups

\* If a variable has a new value for all that show it, that is Assign.
LEMMA AssignStep ==
  ASSUME UpvalInv, UpvalInv', NEW p \in Places, NEW x \in Heap,
         shown[p] # NoVar, shown' = shown,
         content' = [q \in Places |-> IF shown[q] = shown[p] THEN x ELSE content[q]]
  PROVE  Implements
<1>1. with = Groups(shown) /\ with' = Groups(shown)'
  BY Views, ViewsAfter DEF Viewed
<1>2. with' = with
  BY <1>1 DEF Groups
<1>3. with[p] # {} /\ \A q \in Places : q \in with[p] <=> shown[q] = shown[p]
  BY <1>1, InGroup
<1>4. Shared!Assign(p, x)
  BY <1>2, <1>3 DEF Shared!Assign
<1>5. QED
  BY <1>4, SharedNext


\* Nothing shows a slot that is not in use.
LEMMA FreshSlot ==
  ASSUME UpvalInv, NEW p \in Slots, shown[p] = NoVar
  PROVE  <<"slot", p>> # NoVar /\ \A q \in Places : shown[q] # <<"slot", p>>
BY PlacesAre, ShownSlots DEF shown, NoVar

\* If a slot appears and shows itself, that is New.
LEMMA NewStep ==
  ASSUME UpvalInv, UpvalInv', NEW p \in Slots, NEW x \in Heap, shown[p] = NoVar,
         shown' = [shown EXCEPT ![p] = <<"slot", p>>], content' = [content EXCEPT ![p] = x]
  PROVE  Implements
<1>1. with = Groups(shown) /\ with' = Groups(shown)' /\ p \in Places /\ p \notin Closures
  BY PlacesAre, Views, ViewsAfter DEF Viewed
<1>2. <<"slot", p>> # NoVar /\ \A q \in Places : shown[q] # <<"slot", p>>
  BY FreshSlot
<1>3. shown = [q \in Places |-> shown[q]]
  BY DEF shown
<1>4. with' = [with EXCEPT ![p] = {p}]
  BY <1>1, <1>2, <1>3 DEF Groups
<1>5. with[p] = {}
  BY <1>1, InGroup
<1>6. Shared!New(p, x)
  BY <1>1, <1>4, <1>5 DEF Shared!New
<1>7. QED
  BY <1>1, <1>6, SharedNext

\* If a slot appears with a closure that shows it or an older place, that is Close.
LEMMA CloseStep ==
  ASSUME UpvalInv, UpvalInv', NEW p \in Slots, NEW c \in Closures, NEW q \in Places,
         shown[p] = NoVar, shown[c] = NoVar, q = p \/ shown[q] # NoVar,
         shown' = [shown EXCEPT ![p] = <<"slot", p>>,
                                ![c] = IF q = p THEN <<"slot", p>> ELSE shown[q]],
         content' = [content EXCEPT ![p] = c, ![c] = IF q = p THEN c ELSE content[q]]
  PROVE  Implements
<1> DEFINE w == [with EXCEPT ![p] = {p}]
           new == IF q = p THEN <<"slot", p>> ELSE shown[q]
<1>1. /\ with = Groups(shown) /\ with' = Groups(shown)'
      /\ p \in Places \ Closures /\ c \in Places /\ c # p
  BY PlacesAre, Views, ViewsAfter DEF Viewed
<1>2. <<"slot", p>> # NoVar /\ \A r \in Places : shown[r] # <<"slot", p>>
  BY FreshSlot
<1>3. /\ with = [x \in Places |-> with[x]] /\ with' = [x \in Places |-> with'[x]]
      /\ \A x \in Places : with[x] = {r \in Places : shown[x] # NoVar /\ shown[r] = shown[x]}
      /\ \A x \in Places : with'[x] = {r \in Places : shown'[x] # NoVar /\ shown'[r] = shown'[x]}
  BY <1>1 DEF Groups
<1>4. with[p] = {} /\ with[c] = {}
  BY <1>1, InGroup
<1>5. w[q] = {r \in Places : (r = p /\ q = p) \/ shown[r] = new} /\ q \in w[q] /\ c \notin w[q]
  BY <1>1, <1>2, <1>3
<1>6. shown'[p] = <<"slot", p>> /\ shown'[c] = new /\ new # NoVar
      /\ \A r \in Places \ {p, c} : shown'[r] = shown[r]
  <2>1. shown = [r \in Places |-> shown[r]]
    BY DEF shown
  <2>2. QED
    BY <1>1, <1>2, <2>1
<1>7. \A r \in Places : shown'[r] = new <=> r \in w[q] \cup {c}
  BY <1>1, <1>2, <1>5, <1>6
<1>8. ASSUME NEW x \in Places
      PROVE  with'[x] = IF x \in w[q] \cup {c} THEN w[q] \cup {c} ELSE w[x]
  <2>1. CASE x \in w[q] \cup {c}
    <3>1. shown'[x] = new
      BY <1>7, <2>1
    <3>2. w[q] \cup {c} \subseteq Places
      BY <1>1, <1>5
    <3> HIDE DEF w, new
    <3>3. with'[x] = {r \in Places : shown'[r] = new}
      <4>1. with'[x] = {r \in Places : shown'[x] # NoVar /\ shown'[r] = shown'[x]}
        BY <1>3
      <4>2. shown'[x] # NoVar
        BY <1>6, <3>1
      <4>3. QED
        BY ONLY <3>1, <4>1, <4>2
    <3>4. QED
      BY <1>7, <2>1, <3>2, <3>3
  <2>2. CASE x \notin w[q] \cup {c} /\ x # p
    <3>1. /\ shown'[x] = shown[x] /\ shown'[x] # new
          /\ x # c /\ w[x] = with[x] /\ shown[x] # <<"slot", p>>
      BY <1>2, <1>3, <1>6, <1>7, <2>2
    <3>2. \A r \in Places : shown'[x] # NoVar => (shown'[r] = shown'[x] <=> shown[r] = shown[x])
      BY <1>6, <3>1
    <3>3. with'[x] = {r \in Places : shown'[x] # NoVar /\ shown'[r] = shown'[x]}
          /\ with[x] = {r \in Places : shown[x] # NoVar /\ shown[r] = shown[x]}
      BY <1>3
    <3>4. with'[x] = with[x]
      BY ONLY <3>1, <3>2, <3>3
    <3>5. QED
      BY <2>2, <3>1, <3>4
  <2>3. CASE x \notin w[q] \cup {c} /\ x = p
    <3>1. q # p /\ new # <<"slot", p>> /\ w[p] = {p}
      BY <1>2, <1>3, <1>5, <2>3
    <3>2. \A r \in Places : shown'[r] = <<"slot", p>> <=> r = p
      BY <1>2, <1>6, <3>1
    <3>3. with'[p] = {p}
      <4>1. with'[p] = {r \in Places : shown'[p] # NoVar /\ shown'[r] = shown'[p]}
        BY <1>1, <1>3
      <4>2. shown'[p] = <<"slot", p>> /\ <<"slot", p>> # NoVar /\ p \in Places
        BY <1>1, <1>2, <1>6
      <4>3. QED
        BY ONLY <3>2, <4>1, <4>2
    <3>4. QED
      BY <2>3, <3>1, <3>3
  <2>4. QED
    BY <2>1, <2>2, <2>3
<1>9. Shared!Close(p, c, q)
  <2>1. with' = [x \in Places |-> IF x \in w[q] \cup {c} THEN w[q] \cup {c} ELSE w[x]]
    <3> HIDE DEF w
    <3>1. QED
      BY <1>3, <1>8
  <2>2. w[q] # {}
    BY <1>5
  <2>3. QED
    BY <1>1, <1>4, <2>1, <2>2 DEF Shared!Close
<1>10. QED
  BY <1>1, <1>9, SharedNext


\* If one closure shows what another one does, that is Join.
LEMMA JoinStep ==
  ASSUME UpvalInv, UpvalInv', NEW p \in Closures, NEW q \in Places, p # q,
         shown[p] # NoVar, shown[q] # NoVar,
         shown' = [shown EXCEPT ![p] = shown[q]], content' = [content EXCEPT ![p] = content[q]]
  PROVE  Implements
<1> DEFINE w == Shared!Without({p})
           group == w[q] \cup {p, q}
<1>1. with = Groups(shown) /\ with' = Groups(shown)' /\ p \in Places
  BY PlacesAre, Views, ViewsAfter DEF Viewed
<1>2. /\ with' = [x \in Places |-> with'[x]]
      /\ \A x \in Places : with[x] = {r \in Places : shown[x] # NoVar /\ shown[r] = shown[x]}
      /\ \A x \in Places : with'[x] = {r \in Places : shown'[x] # NoVar /\ shown'[r] = shown'[x]}
  BY <1>1 DEF Groups
<1>3. shown'[p] = shown[q] /\ \A r \in Places \ {p} : shown'[r] = shown[r]
  BY <1>1 DEF shown
<1>4. \A x \in Places : w[x] = IF x = p THEN {} ELSE with[x] \ {p}
  BY DEF Shared!Without
<1> HIDE DEF w
<1>5. ASSUME NEW x \in Places PROVE x \in group <=> shown'[x] = shown[q]
  <2>1. with[q] = {r \in Places : shown[q] # NoVar /\ shown[r] = shown[q]} /\ w[q] = with[q] \ {p}
    BY <1>2, <1>4
  <2>2. CASE x = p
    BY <1>1, <1>3, <2>2
  <2>3. CASE x # p
    <3>1. shown'[x] = shown[x]
      BY <1>3, <2>3
    <3>2. QED
      BY <2>1, <2>3, <3>1
  <2>4. QED
    BY <2>2, <2>3
<1>6. group \subseteq Places
  BY <1>1, <1>2, <1>4
<1> HIDE DEF group
<1>7. ASSUME NEW x \in Places PROVE with'[x] = IF x \in group THEN group ELSE w[x]
  <2>1. with'[x] = {r \in Places : shown'[x] # NoVar /\ shown'[r] = shown'[x]}
        /\ with[x] = {r \in Places : shown[x] # NoVar /\ shown[r] = shown[x]}
    BY <1>2
  <2>2. CASE x \in group
    BY <1>5, <1>6, <2>1, <2>2
  <2>3. CASE x \notin group
    <3>1. x # p /\ shown'[x] = shown[x] /\ shown[x] # shown[q] /\ w[x] = with[x] \ {p}
      BY <1>3, <1>4, <1>5, <2>3
    <3>2. QED
      BY <1>3, <2>1, <2>3, <3>1
  <2>4. QED
    BY <2>2, <2>3
<1>8. Shared!Join(p, q)
  <2>1. with' = [x \in Places |-> IF x \in group THEN group ELSE w[x]]
    BY <1>2, <1>7
  <2>2. with' = Shared!Joined(p, q)
    BY <2>1 DEF Shared!Joined, w, group
  <2>3. with[p] # {} /\ with[q] # {} /\ p \in with'[q]
    BY <1>1, <1>2, <1>3
  <2>4. QED
    BY <2>2, <2>3 DEF Shared!Join
<1>9. QED
  BY <1>8, SharedNext

\* If places stop showing anything and the rest stay together, that is Leave.
LEMMA LeaveStep ==
  ASSUME UpvalInv, UpvalInv',
         \A p \in Places : shown[p] = NoVar => shown'[p] = NoVar,
         \A p, q \in Places : shown'[p] # NoVar =>
           (shown'[q] = shown'[p] <=> shown[q] = shown[p] /\ shown'[q] # NoVar),
         content' = [p \in Places |-> IF shown'[p] = NoVar THEN Nil ELSE content[p]]
  PROVE  Implements
<1> DEFINE P == {p \in Places : with[p] # {} /\ with'[p] = {}}
<1>1. with = Groups(shown) /\ with' = Groups(shown)'
  BY Views, ViewsAfter DEF Viewed
<1>2. /\ with = [x \in Places |-> with[x]] /\ with' = [x \in Places |-> with'[x]]
      /\ \A x \in Places : with[x] = {r \in Places : shown[x] # NoVar /\ shown[r] = shown[x]}
      /\ \A x \in Places : with'[x] = {r \in Places : shown'[x] # NoVar /\ shown'[r] = shown'[x]}
  BY <1>1 DEF Groups
<1>3. \A p \in Places : p \in P <=> shown[p] # NoVar /\ shown'[p] = NoVar
  BY <1>2
<1>4. content = [p \in Places |-> content[p]]
      /\ \A p \in Places : shown[p] = NoVar => content[p] = Nil
  <2>1. ASSUME NEW p \in Places, shown[p] = NoVar PROVE content[p] = Nil
    <3>1. CASE p \in Closures
      <4>1. Shown(p) = NoVar /\ uv[p] = None
        BY <2>1, <3>1, ClosureShows DEF shown
      <4>2. QED
        BY <3>1, <4>1, ContentIs DEF seen, Seen
    <3>2. CASE p \notin Closures
      <4>1. p \in Slots /\ Shown(p) = NoVar
        BY <2>1, <3>2, PlacesAre DEF shown
      <4>2. ~(p[2] <= Top(p[1]))
        BY <4>1, SlotShows DEF NoVar
      <4>3. QED
        BY <3>2, <4>2, ContentIs DEF seen, Seen
    <3>3. QED
      BY <3>1, <3>2
  <2>2. content = [p \in Places |-> content[p]]
    BY ContentIs DEF seen
  <2>3. QED
    BY <2>1, <2>2
<1> HIDE DEF P
<1>5. ASSUME NEW x \in Places PROVE with'[x] = IF x \in P THEN {} ELSE with[x] \ P
  <2>1. with'[x] = {r \in Places : shown'[x] # NoVar /\ shown'[r] = shown'[x]}
        /\ with[x] = {r \in Places : shown[x] # NoVar /\ shown[r] = shown[x]}
    BY <1>2
  <2>2. CASE shown'[x] = NoVar
    BY <1>3, <2>1, <2>2
  <2>3. CASE shown'[x] # NoVar
    <3>1. x \notin P /\ shown[x] # NoVar
      BY <1>3, <2>3
    <3>2. \A r \in Places : shown'[r] = shown'[x] <=> shown[r] = shown[x] /\ r \notin P
      BY <1>3, <2>3, <3>1
    <3>3. QED
      BY <2>1, <2>3, <3>1, <3>2
  <2>4. QED
    BY <2>2, <2>3
<1>6. with' = Shared!Without(P)
  BY <1>2, <1>5 DEF Shared!Without
<1>7. content' = [p \in Places |-> IF p \in P THEN Nil ELSE content[p]]
  BY <1>3, <1>4
<1>8. CASE P = {}
  <2>1. with' = with
    BY <1>2, <1>5, <1>8
  <2>2. content' = content
    BY <1>4, <1>7, <1>8
  <2>3. QED
    BY <2>1, <2>2 DEF Implements, Stutter
<1>9. CASE P # {}
  <2>1. Shared!Leave(P)
    BY <1>6, <1>7, <1>9 DEF Shared!Leave
  <2>2. QED
    BY <2>1, SharedNext DEF P
<1>10. QED
  BY <1>8, <1>9


-----------------------------------------------------------------------------
(* The steps of the program.                                               *)

\* What closures show when the upvalues they have do not change.
LEMMA ClosureSame ==
  ASSUME UpvalInv, NEW c \in Closures, uv'[c] = uv[c],
         uv[c] # None => v'[uv[c]] = v[uv[c]] /\ value'[uv[c]] = value[uv[c]]
  PROVE  Shown(c)' = Shown(c)
BY DEF Shown, upisopen

\* What a place shows does not change with what is in the stacks, but for their heights.
LEMMA UnseenStep ==
  ASSUME UpvalInv, UpvalInv', UNCHANGED <<stack, uv, v, value>>
  PROVE  Implements
<1>1. shown' = shown
  BY DEF shown, Shown, upisopen, Top
<1>2. seen' = seen
  BY DEF seen, Seen, Read, ReadVia, upisopen, Top
<1>3. QED
  BY <1>1, <1>2, ContentIs, ContentAfter, SameStep

\* A value on top of a stack is a new variable there; other places are as before.
LEMMA GrowingShows ==
  ASSUME UpvalInv, NEW t \in Threads, NEW x \in Heap, Top(t) < MaxLevel[t],
         stack' = [stack EXCEPT ![t] = Append(@, x)], NEW p, p = <<t, Top(t) + 1>>
  PROVE  /\ p \in Slots /\ shown[p] = NoVar
         /\ \A q \in Slots : /\ Shown(q)' = IF q = p THEN <<"slot", p>> ELSE Shown(q)
                             /\ Seen(q)' = IF q = p THEN x ELSE Seen(q)
         /\ \A c \in Closures :
              /\ uv'[c] = uv[c]
              /\ uv[c] # None => v'[uv[c]] = v[uv[c]] /\ value'[uv[c]] = value[uv[c]]
              => Shown(c)' = Shown(c) /\ Seen(c)' = Seen(c)
<1>1. ListsInv
  BY DEF UpvalInv
<1>2. /\ stack'[t][Top(t) + 1] = x
      /\ \A w \in Threads : Len(stack'[w]) = (IF w = t THEN Top(t) + 1 ELSE Top(w))
      /\ \A w \in Threads, l \in Nat : l \in 1..Top(w) => stack'[w][l] = stack[w][l]
  <2> DEFINE stk == [stack EXCEPT ![t] = Append(@, x)]
  <2>1. /\ stk[t][Top(t) + 1] = x
        /\ \A w \in Threads : Len(stk[w]) = (IF w = t THEN Top(t) + 1 ELSE Top(w))
        /\ \A w \in Threads, l \in Nat : l \in 1..Top(w) => stk[w][l] = stack[w][l]
    BY <1>1, Pushing
  <2>2. stack' = stk
    OBVIOUS
  <2> HIDE DEF stk
  <2>3. QED
    BY <2>1, <2>2
<1>3. \A w \in Threads : Top(w) \in Nat /\ Top(w)' = (IF w = t THEN Top(t) + 1 ELSE Top(w))
  BY <1>1, <1>2, OpenList DEF Top
<1>4. p \in Slots /\ ~(p[2] <= Top(p[1]))
  <2>1. MaxLevel[t] \in Nat /\ Top(t) + 1 \in 1..MaxLevel[t]
    BY <1>3, BoundsAssumption DEF Threads
  <2>2. QED
    BY <1>3, <2>1 DEF Slots
<1>5. shown[p] = NoVar
  BY <1>4, SlotShows, PlacesAre DEF shown
<1>6. ASSUME NEW q \in Slots
      PROVE  /\ Shown(q)' = IF q = p THEN <<"slot", p>> ELSE Shown(q)
             /\ Seen(q)' = IF q = p THEN x ELSE Seen(q)
  <2>1. /\ q[1] \in Threads /\ q[2] \in Nat /\ q[2] >= 1 /\ q \notin Closures /\ q = <<q[1], q[2]>>
    BY SlotsAre, PlacesAre
  <2>2. /\ Shown(q) = IF q[2] <= Top(q[1]) THEN <<"slot", q>> ELSE NoVar
        /\ Shown(q)' = IF q[2] <= Top(q[1])' THEN <<"slot", q>> ELSE NoVar
        /\ Seen(q) = IF q[2] <= Top(q[1]) THEN stack[q[1]][q[2]] ELSE Nil
        /\ Seen(q)' = IF q[2] <= Top(q[1])' THEN stack'[q[1]][q[2]] ELSE Nil
    BY <2>1 DEF Shown, Seen
  <2>3. CASE q = p
    <3>1. q[1] = t /\ q[2] = Top(t) + 1 /\ q[2] <= Top(q[1])'
      BY <1>3, <2>3
    <3>2. QED
      BY <1>2, <2>2, <2>3, <3>1
  <2>4. CASE q # p
    <3>1. q[2] <= Top(q[1])' <=> q[2] <= Top(q[1])
      BY <1>3, <2>1, <2>4
    <3>2. q[2] <= Top(q[1]) => stack'[q[1]][q[2]] = stack[q[1]][q[2]]
      BY <1>2, <1>3, <2>1
    <3>3. QED
      BY <2>2, <2>4, <3>1, <3>2
  <2>5. QED
    BY <2>3, <2>4
<1>7. ASSUME NEW c \in Closures, uv'[c] = uv[c],
             uv[c] # None => v'[uv[c]] = v[uv[c]] /\ value'[uv[c]] = value[uv[c]]
      PROVE  Shown(c)' = Shown(c) /\ Seen(c)' = Seen(c)
  <2>1. Shown(c)' = Shown(c)
    BY <1>7, ClosureSame
  <2>2. Seen(c) = (IF uv[c] = None THEN Nil ELSE Read(uv[c]))
        /\ Seen(c)' = (IF uv'[c] = None THEN Nil ELSE Read(uv[c])')
    BY DEF Seen
  <2>3. ASSUME uv[c] # None PROVE Read(uv[c])' = Read(uv[c])
    <3>1. uv[c] \in ups
      BY <2>3, ClosureShows
    <3>2. upisopen(uv[c]) => v[uv[c]][1] \in Threads /\ v[uv[c]][2] \in 1..Top(v[uv[c]][1])
                             /\ v[uv[c]][2] \in Nat
      BY <1>1, <3>1, Reads
    <3>3. upisopen(uv[c]) =>
            stack'[v[uv[c]][1]][v[uv[c]][2]] = stack[v[uv[c]][1]][v[uv[c]][2]]
      BY <1>2, <3>2
    <3>4. uv'[c] = uv[c] /\ v'[uv[c]] = v[uv[c]] /\ value'[uv[c]] = value[uv[c]]
      BY <1>7, <2>3
    <3>5. QED
      BY ONLY <3>3, <3>4 DEF Read, ReadVia, upisopen
  <2>4. QED
    BY <1>7, <2>1, <2>2, <2>3
<1>8. QED
  BY <1>4, <1>5, <1>6, <1>7


\* A push is a new variable.
LEMMA NewVariable ==
  ASSUME UpvalInv, UpvalInv', NEW t \in Threads, NEW x \in Heap, Top(t) < MaxLevel[t],
         stack' = [stack EXCEPT ![t] = Append(@, x)], UNCHANGED <<uv, v, value>>
  PROVE  Implements
<1> DEFINE p == <<t, Top(t) + 1>>
<1>1. /\ p \in Slots /\ shown[p] = NoVar
      /\ \A q \in Slots : /\ Shown(q)' = IF q = p THEN <<"slot", p>> ELSE Shown(q)
                          /\ Seen(q)' = IF q = p THEN x ELSE Seen(q)
      /\ \A c \in Closures :
              /\ uv'[c] = uv[c]
              /\ uv[c] # None => v'[uv[c]] = v[uv[c]] /\ value'[uv[c]] = value[uv[c]]
              => Shown(c)' = Shown(c) /\ Seen(c)' = Seen(c)
  BY GrowingShows
<1> HIDE DEF p
<1>2. \A q \in Places : /\ Shown(q)' = IF q = p THEN <<"slot", p>> ELSE Shown(q)
                        /\ Seen(q)' = IF q = p THEN x ELSE Seen(q)
  BY <1>1, PlacesAre
<1>3. shown' = [shown EXCEPT ![p] = <<"slot", p>>] /\ seen' = [seen EXCEPT ![p] = x]
  BY <1>1, <1>2, PlacesAre DEF shown, seen
<1>4. QED
  BY <1>1, <1>3, ContentIs, ContentAfter, NewStep

\* A push of a closure is Close.
LEMMA NewClosureShown ==
  ASSUME UpvalInv, UpvalInv', NEW t \in Threads, NEW c \in Closures, Top(t) < MaxLevel[t],
         stack' = [stack EXCEPT ![t] = Append(@, c)], NEW p, p = <<t, Top(t) + 1>>,
         uv[c] = None, \A d \in Closures : d # c => uv'[d] = uv[d],
         \A u \in ups : v'[u] = v[u] /\ value'[u] = value[u],
         NEW q \in Places, q = p \/ shown[q] # NoVar,
         Shown(c)' = (IF q = p THEN <<"slot", p>> ELSE Shown(q)),
         Seen(c)' = (IF q = p THEN c ELSE Seen(q))
  PROVE  Implements
<1>0. c \in Heap
  BY Kinds
<1>1. /\ p \in Slots /\ shown[p] = NoVar
      /\ \A r \in Slots : /\ Shown(r)' = IF r = p THEN <<"slot", p>> ELSE Shown(r)
                          /\ Seen(r)' = IF r = p THEN c ELSE Seen(r)
      /\ \A d \in Closures :
              /\ uv'[d] = uv[d]
              /\ uv[d] # None => v'[uv[d]] = v[uv[d]] /\ value'[uv[d]] = value[uv[d]]
              => Shown(d)' = Shown(d) /\ Seen(d)' = Seen(d)
  BY <1>0, GrowingShows
<1>2. \A d \in Closures : d # c => Shown(d)' = Shown(d) /\ Seen(d)' = Seen(d)
  BY <1>1, ClosureShows
<1>3. p \notin Closures /\ p \in Places /\ c \in Places /\ shown[c] = NoVar
  BY <1>1, PlacesAre, ClosureShows DEF shown
<1>4. shown[q] = Shown(q) /\ seen[q] = Seen(q)
  BY DEF shown, seen
<1>5. \A r \in Places :
        /\ Shown(r)' = IF r = c THEN (IF q = p THEN <<"slot", p>> ELSE shown[q])
                       ELSE IF r = p THEN <<"slot", p>> ELSE Shown(r)
        /\ Seen(r)' = IF r = c THEN (IF q = p THEN c ELSE seen[q])
                      ELSE IF r = p THEN c ELSE Seen(r)
  BY <1>1, <1>2, <1>3, <1>4, PlacesAre
<1>6. shown' = [shown EXCEPT ![p] = <<"slot", p>>,
                             ![c] = IF q = p THEN <<"slot", p>> ELSE shown[q]]
  BY <1>3, <1>5 DEF shown
<1>7. seen' = [seen EXCEPT ![p] = c, ![c] = IF q = p THEN c ELSE seen[q]]
  BY <1>3, <1>5 DEF seen
<1>8. content' = [content EXCEPT ![p] = c, ![c] = IF q = p THEN c ELSE content[q]]
  BY <1>7, ContentIs, ContentAfter
<1>9. QED
  BY ONLY UpvalInv, UpvalInv', <1>1, <1>3, <1>6, <1>8, CloseStep, q \in Places,
          q = p \/ shown[q] # NoVar, c \in Closures


\* luaC_newobj pushes a new object: New.
LEMMA ImplNewObject ==
  ASSUME SafeInv, UpvalInv', NEW o \in Leaves \cup Coroutines, luaC_newobj(o)
  PROVE  Implements
<1>1. /\ running \in Threads /\ o \in Heap /\ Top(running) < MaxLevel[running] /\ UpvalInv
      /\ stack' = [stack EXCEPT ![running] = Append(@, o)] /\ UNCHANGED <<uv, v, value>>
  BY HeldIsAlive, Kinds DEF SafeInv, luaC_newobj, Room, Pushed, upval
<1>2. QED
  BY ONLY UpvalInv', <1>1, NewVariable

\* A push of a value: New.
LEMMA ImplGetValue ==
  ASSUME SafeInv, UpvalInv', NEW x \in Heap, GetValue(x)
  PROVE  Implements
<1>1. /\ running \in Threads /\ Top(running) < MaxLevel[running] /\ UpvalInv
      /\ stack' = [stack EXCEPT ![running] = Append(@, x)] /\ UNCHANGED <<uv, v, value>>
  BY HeldIsAlive DEF SafeInv, GetValue, Room, Pushed, upval
<1>2. QED
  BY ONLY UpvalInv', x \in Heap, <1>1, NewVariable

\* Values that pass to a thread are new variables there, or none.
LEMMA ImplPassing ==
  ASSUME UpvalInv, UpvalInv', NEW t \in Threads, NEW xs \in Passed, Top(t) + Len(xs) <= MaxLevel[t],
         stack' = [stack EXCEPT ![t] = @ \o xs], UNCHANGED <<uv, v, value>>
  PROVE  Implements
<1>1. /\ stack \in [Threads -> Seq(Heap)] /\ stack[t] \in Seq(Heap)
      /\ Top(t) \in Nat /\ MaxLevel[t] \in Nat
  BY OpenList, BoundsAssumption DEF UpvalInv, ListsInv, TypeOK, Threads
<1>2. CASE xs = <<>>
  <2>1. stack[t] \o xs = stack[t]
    BY <1>1, <1>2
  <2>2. stack' = stack
    BY <1>1, <2>1
  <2>3. QED
    BY <2>2, UnseenStep
<1>3. CASE xs # <<>>
  <2>1. PICK x \in Heap : xs = <<x>>
    BY <1>3 DEF Passed
  <2>2. stack[t] \o xs = Append(stack[t], x) /\ Len(xs) = 1
    BY <1>1, <2>1
  <2>3. Top(t) < MaxLevel[t]
    BY <1>1, <2>2
  <2>4. stack' = [stack EXCEPT ![t] = Append(@, x)]
    BY <1>1, <2>2
  <2>5. QED
    BY <2>3, <2>4, NewVariable
<1>4. QED
  BY <1>2, <1>3

\* A value is stored in a variable: all that show it, an open upvalue among them, see it.
LEMMA ReplacingShows ==
  ASSUME UpvalInv, UpvalInv', NEW t \in Threads, NEW l \in 1..Top(t), NEW x \in Heap,
         stack' = Replaced(t, l, x), UNCHANGED <<uv, v, value>>
  PROVE  Implements
<1> DEFINE p == <<t, l>>
           stk == Replaced(t, l, x)
<1>1. ListsInv /\ Top(t) \in Nat /\ MaxLevel[t] \in Nat /\ Top(t) <= MaxLevel[t]
  BY OpenList, BoundsAssumption DEF UpvalInv, ListsInv, Fits, Threads
<1>2. /\ \A w \in Threads : Len(stk[w]) = Top(w) /\ Top(w) \in Nat
      /\ \A w \in Threads, m \in Nat :
              m \in 1..Top(w) => stk[w][m] = IF w = t /\ m = l THEN x ELSE stack[w][m]
  BY <1>1, Replacing
<1>3. stack' = stk
  OBVIOUS
<1> HIDE DEF stk
<1>4. /\ \A w \in Threads : Top(w)' = Top(w)
      /\ \A w \in Threads, m \in Nat :
              m \in 1..Top(w) => stack'[w][m] = IF w = t /\ m = l THEN x ELSE stack[w][m]
  BY <1>2, <1>3 DEF Top
<1>5. p \in Slots /\ p \in Places /\ Shown(p) = <<"slot", p>> /\ shown[p] = Shown(p)
  <2>1. p \in Slots
    BY <1>1 DEF Slots
  <2>2. p[2] <= Top(p[1])
    BY <1>1
  <2>3. QED
    BY <2>1, <2>2, SlotShows, PlacesAre DEF shown
<1>6. ASSUME NEW q \in Slots
      PROVE  Shown(q)' = Shown(q) /\ Seen(q)' = IF Shown(q) = <<"slot", p>> THEN x ELSE Seen(q)
  <2>1. /\ q[1] \in Threads /\ q[2] \in Nat /\ q[2] >= 1 /\ q \notin Closures /\ q = <<q[1], q[2]>>
    BY SlotsAre, PlacesAre
  <2>2. /\ Shown(q) = IF q[2] <= Top(q[1]) THEN <<"slot", q>> ELSE NoVar
        /\ Shown(q)' = IF q[2] <= Top(q[1])' THEN <<"slot", q>> ELSE NoVar
        /\ Seen(q) = IF q[2] <= Top(q[1]) THEN stack[q[1]][q[2]] ELSE Nil
        /\ Seen(q)' = IF q[2] <= Top(q[1])' THEN stack'[q[1]][q[2]] ELSE Nil
    BY <2>1 DEF Shown, Seen
  <2>3. CASE q[2] <= Top(q[1])
    <3>1. stack'[q[1]][q[2]] = IF q = p THEN x ELSE stack[q[1]][q[2]]
      BY <1>2, <1>4, <2>1, <2>3
    <3>2. Shown(q) = <<"slot", p>> <=> q = p
      BY <2>2, <2>3
    <3>3. QED
      BY <1>4, <2>1, <2>2, <2>3, <3>1, <3>2
  <2>4. CASE ~(q[2] <= Top(q[1]))
    BY <1>4, <2>1, <2>2, <2>4 DEF NoVar
  <2>5. QED
    BY <2>3, <2>4
<1>7. ASSUME NEW c \in Closures
      PROVE  Shown(c)' = Shown(c) /\ Seen(c)' = IF Shown(c) = <<"slot", p>> THEN x ELSE Seen(c)
  <2>1. Shown(c)' = Shown(c)
    BY ClosureSame
  <2>2. Seen(c) = (IF uv[c] = None THEN Nil ELSE Read(uv[c]))
        /\ Seen(c)' = (IF uv[c] = None THEN Nil ELSE Read(uv[c])')
    BY DEF Seen
  <2>3. CASE uv[c] = None
    BY <2>1, <2>2, <2>3, ClosureShows DEF NoVar
  <2>4. CASE uv[c] # None /\ upisopen(uv[c])
    <3>1. uv[c] \in ups /\ Shown(c) = <<"slot", v[uv[c]]>>
      BY <2>4, ClosureShows
    <3>2. /\ v[uv[c]][1] \in Threads /\ v[uv[c]][2] \in 1..Top(v[uv[c]][1])
          /\ v[uv[c]][2] \in Nat /\ v[uv[c]] = <<v[uv[c]][1], v[uv[c]][2]>>
      BY <1>1, <2>4, <3>1, Reads
    <3>3. stack'[v[uv[c]][1]][v[uv[c]][2]] =
            IF v[uv[c]] = p THEN x ELSE stack[v[uv[c]][1]][v[uv[c]][2]]
      BY <1>4, <3>2
    <3>4. Read(uv[c])' = IF v[uv[c]] = p THEN x ELSE Read(uv[c])
      BY <2>4, <3>3 DEF Read, ReadVia, upisopen
    <3>5. QED
      BY <2>1, <2>2, <2>4, <3>1, <3>4
  <2>5. CASE uv[c] # None /\ ~upisopen(uv[c])
    <3>1. Shown(c) # <<"slot", p>>
      BY <2>5, ClosureShows
    <3>2. Read(uv[c])' = Read(uv[c])
      BY <2>5 DEF Read, ReadVia, upisopen
    <3>3. QED
      BY <2>1, <2>2, <2>5, <3>1, <3>2
  <2>6. QED
    BY <2>3, <2>4, <2>5
<1>8. shown' = shown /\ seen' = [q \in Places |-> IF shown[q] = shown[p] THEN x ELSE seen[q]]
  <2>1. \A q \in Places :
          Shown(q)' = Shown(q) /\ Seen(q)' = IF Shown(q) = Shown(p) THEN x ELSE Seen(q)
    BY <1>5, <1>6, <1>7, PlacesAre
  <2>2. shown' = [q \in Places |-> Shown(q)'] /\ seen' = [q \in Places |-> Seen(q)']
    BY DEF shown, seen
  <2>3. shown' = shown
    BY <2>1, <2>2 DEF shown
  <2>4. \A q \in Places : shown[q] = Shown(q) /\ seen[q] = Seen(q)
    BY DEF shown, seen
  <2>5. QED
    BY <1>5, <2>1, <2>2, <2>3, <2>4
<1>9. shown[p] # NoVar
  BY <1>5 DEF NoVar
<1> HIDE DEF p
<1>10. content' = [q \in Places |-> IF shown[q] = shown[p] THEN x ELSE content[q]]
  BY <1>8, ContentIs, ContentAfter
<1>11. QED
  BY <1>5, <1>8, <1>9, <1>10, AssignStep


\* An assignment to a local variable: Assign.
LEMMA ImplSetLocal ==
  ASSUME SafeInv, UpvalInv', NEW l \in Levels, NEW x \in Heap, SetLocal(l, x)
  PROVE  Implements
<1>1. /\ running \in Threads /\ l \in 1..Top(running) /\ UpvalInv
      /\ stack' = Replaced(running, l, x) /\ UNCHANGED <<uv, v, value>>
  BY HeldIsAlive DEF SafeInv, SetLocal, Replaced, upval
<1>2. QED
  BY ONLY UpvalInv', x \in Heap, <1>1, ReplacingShows

\* OP_SETUPVAL: Assign.
LEMMA ImplSetUpval ==
  ASSUME SafeInv, UpvalInv', NEW c \in Closures, NEW x \in Heap, OP_SETUPVAL(c, x)
  PROVE  Implements
<1> DEFINE u == uv[c]
<1>1. /\ UpvalInv /\ ListsInv /\ u \in ups /\ u \in UpVals /\ u # None
      /\ UNCHANGED <<uv, v>> /\ value \in [UpVals -> Heap \cup {Nil}]
  BY HeldIsAlive, ObjectsAssumption DEF SafeInv, UpvalInv, ListsInv, TypeOK, OP_SETUPVAL
<1>2. CASE upisopen(u)
  <2>1. v[u][1] \in Threads /\ v[u][2] \in 1..Top(v[u][1])
    BY <1>1, <1>2, Reads
  <2>2. stack' = Replaced(v[u][1], v[u][2], x) /\ UNCHANGED value
    BY <1>2 DEF OP_SETUPVAL, Replaced
  <2>3. QED
    BY <1>1, <2>1, <2>2, ReplacingShows
<1>3. CASE ~upisopen(u)
  <2>1. value' = [value EXCEPT ![u] = x] /\ stack' = stack
    BY <1>3 DEF OP_SETUPVAL
  <2>2. c \in Places /\ Shown(c) = <<"own", u>> /\ shown[c] = Shown(c)
    BY <1>1, <1>3, ClosureShows, PlacesAre DEF shown
  <2>3. shown' = shown
    BY <1>1, <2>1 DEF shown, Shown, upisopen, Top
  <2>4. ASSUME NEW q \in Places PROVE Seen(q)' = IF Shown(q) = <<"own", u>> THEN x ELSE Seen(q)
    <3>1. CASE q \in Slots
      <4>1. Shown(q) # <<"own", u>>
        BY <3>1, SlotShows DEF NoVar
      <4>2. Seen(q)' = Seen(q)
        BY <2>1, <3>1, PlacesAre DEF Seen, Top
      <4>3. QED
        BY <4>1, <4>2
    <3>2. CASE q \in Closures /\ uv[q] = None
      BY <1>1, <3>2, ClosureShows DEF Seen, NoVar
    <3>3. CASE q \in Closures /\ uv[q] # None /\ uv[q] # u
      <4>1. Shown(q) # <<"own", u>>
        <5>1. upisopen(uv[q]) => Shown(q) = <<"slot", v[uv[q]]>>
          BY <1>1, <3>3, ClosureShows
        <5>2. ~upisopen(uv[q]) => Shown(q) = <<"own", uv[q]>>
          BY <1>1, <3>3, ClosureShows
        <5> HIDE DEF u
        <5>3. QED
          BY <3>3, <5>1, <5>2
      <4>2. Read(uv[q])' = Read(uv[q])
        BY <1>1, <2>1, <3>3 DEF Read, ReadVia, upisopen
      <4>3. QED
        BY <1>1, <3>3, <4>1, <4>2 DEF Seen
    <3>4. CASE q \in Closures /\ uv[q] = u
      <4>1. Shown(q) = <<"own", u>>
        BY <1>1, <1>3, <3>4, ClosureShows
      <4>2. Read(u)' = x
        BY <1>1, <1>3, <2>1 DEF Read, ReadVia, upisopen
      <4>3. QED
        BY <1>1, <3>4, <4>1, <4>2 DEF Seen
    <3>5. QED
      BY <3>1, <3>2, <3>3, <3>4, PlacesAre
  <2>5. seen' = [q \in Places |-> IF shown[q] = shown[c] THEN x ELSE seen[q]]
    BY <2>2, <2>4 DEF seen, shown
  <2>6. shown[c] # NoVar
    BY <2>2 DEF NoVar
  <2>7. content' = [q \in Places |-> IF shown[q] = shown[c] THEN x ELSE content[q]]
    BY <2>5, ContentIs, ContentAfter
  <2>8. QED
    BY <1>1, <2>2, <2>3, <2>6, <2>7, AssignStep
<1>4. QED
  BY <1>2, <1>3

\* A closure for a variable of the function that creates it.
LEMMA ImplPushClosure ==
  ASSUME SafeInv, UpvalInv', NEW c \in Closures, NEW l \in Levels, pushclosure(c, l)
  PROVE  Implements
<1> DEFINE p == <<running, Top(running) + 1>>
<1>0. PICK f, q : f = luaF_findupval(running, l) /\ q = <<running, l>>
  OBVIOUS
<1>1. /\ UpvalInv /\ ListsInv /\ running \in Threads /\ Top(running) < MaxLevel[running]
      /\ color[c] = "free" /\ ups # UpVals /\ Top(running) \in Nat /\ MaxLevel[running] \in Nat
      /\ l \in 1..(Top(running) + 1)
      /\ uv \in [Closures -> UpVals \cup {None}] /\ v \in [UpVals -> Slots \cup {Own}]
  BY HeldIsAlive, BoundsAssumption
     DEF SafeInv, UpvalInv, ListsInv, TypeOK, pushclosure, Room, Threads
<1>2. /\ stack' = [stack EXCEPT ![running] = Append(@, c)] /\ uv' = [uv EXCEPT ![c] = f.u]
      /\ UNCHANGED value
  BY <1>0 DEF pushclosure, Pushed
<1>3. l \in Nat /\ q \in Slots /\ p \in Slots /\ q # Own
  <2>1. l \in 1..MaxLevel[running] /\ Top(running) + 1 \in 1..MaxLevel[running]
    BY <1>1
  <2>2. QED
    BY <1>0, <1>1, <2>1, OwnAssumption DEF Slots
<1>4. f.u \in UpVals /\ (f.u \in ups => v[f.u] = q)
  BY <1>0, <1>1, <1>3, FindList DEF Finds
<1>5. /\ f.u \in ups => UNCHANGED v
      /\ f.u \notin ups => v' = [v EXCEPT ![f.u] = q]
  <2>1. CASE f.u \in ups
    BY <1>0, <2>1 DEF pushclosure
  <2>2. CASE f.u \notin ups
    BY <1>0, <2>2 DEF pushclosure
  <2>3. QED
    BY <2>1, <2>2
<1>6. v'[f.u] = q /\ f.u # None /\ \A u \in ups : v'[u] = v[u] /\ value'[u] = value[u]
  <2>1. ups \subseteq UpVals
    BY <1>1 DEF ListsInv, TypeOK
  <2>2. f.u # None /\ value' = value
    BY <1>2, <1>4, ObjectsAssumption
  <2>3. CASE f.u \in ups
    BY <1>4, <1>5, <2>2, <2>3
  <2>4. CASE f.u \notin ups
    BY <1>1, <1>4, <1>5, <2>1, <2>2, <2>4
  <2>5. QED
    BY <2>3, <2>4
<1>7. uv[c] = None /\ uv'[c] = f.u /\ \A d \in Closures : d # c => uv'[d] = uv[d]
  BY <1>1, <1>2, ClosureShows
<1>8. Shown(c)' = <<"slot", q>>
  BY <1>3, <1>6, <1>7 DEF Shown, upisopen
<1>9. \A r \in Slots : /\ Shown(r)' = IF r = p THEN <<"slot", p>> ELSE Shown(r)
                      /\ Seen(r)' = IF r = p THEN c ELSE Seen(r)
  <2>1. c \in Heap /\ UpvalInv /\ running \in Threads /\ Top(running) < MaxLevel[running]
        /\ stack' = [stack EXCEPT ![running] = Append(@, c)]
    BY <1>1, <1>2, Kinds
  <2>2. /\ p \in Slots /\ shown[p] = NoVar
        /\ \A r \in Slots : /\ Shown(r)' = IF r = p THEN <<"slot", p>> ELSE Shown(r)
                            /\ Seen(r)' = IF r = p THEN c ELSE Seen(r)
        /\ \A d \in Closures :
              /\ uv'[d] = uv[d]
              /\ uv[d] # None => v'[uv[d]] = v[uv[d]] /\ value'[uv[d]] = value[uv[d]]
              => Shown(d)' = Shown(d) /\ Seen(d)' = Seen(d)
    BY ONLY <2>1, GrowingShows
  <2>3. QED
    BY <2>2
<1>10. q \in Places /\ (q = p \/ shown[q] # NoVar) /\ (q # p => Shown(q) = <<"slot", q>>)
  <2>1. q = p \/ q[2] <= Top(q[1])
    BY <1>0, <1>1
  <2>2. q # p => Shown(q) = <<"slot", q>>
    BY <1>3, <2>1, SlotShows
  <2>3. QED
    BY <1>3, <2>2, PlacesAre DEF shown, NoVar
<1>11. q[1] = running /\ q[2] = l
  BY <1>0
<1>12. Shown(q)' = <<"slot", q>>
  BY <1>3, <1>9, <1>10
<1>13. Seen(c)' = Seen(q)'
  <2>1. Seen(c)' = Read(uv[c])' /\ Read(uv[c])' = stack'[q[1]][q[2]]
    BY <1>3, <1>6, <1>7 DEF Seen, Read, ReadVia, upisopen
  <2>2. q \notin Closures
    BY <1>3, PlacesAre
  <2>3. q[2] <= Top(q[1])'
    BY <1>12, <2>2 DEF Shown, NoVar
  <2>4. QED
    BY <2>1, <2>2, <2>3 DEF Seen
<1>14. Shown(c)' = (IF q = p THEN <<"slot", p>> ELSE Shown(q))
       /\ Seen(c)' = (IF q = p THEN c ELSE Seen(q))
  BY <1>3, <1>8, <1>9, <1>10, <1>13
<1>15. /\ UpvalInv /\ UpvalInv' /\ running \in Threads /\ Top(running) < MaxLevel[running]
       /\ stack' = [stack EXCEPT ![running] = Append(@, c)]
       /\ uv[c] = None /\ (\A d \in Closures : d # c => uv'[d] = uv[d])
       /\ (\A u \in ups : v'[u] = v[u] /\ value'[u] = value[u])
  BY <1>1, <1>2, <1>6, <1>7
<1>16. QED
  BY ONLY c \in Closures, <1>10, <1>14, <1>15, NewClosureShown

\* A closure for a variable of an enclosing function.
LEMMA ImplEnclosing ==
  ASSUME SafeInv, UpvalInv', NEW c \in Closures, NEW e \in Closures, pushclosure_enclosing(c, e)
  PROVE  Implements
<1> DEFINE p == <<running, Top(running) + 1>>
<1>1. /\ UpvalInv /\ ListsInv /\ running \in Threads /\ Top(running) < MaxLevel[running]
      /\ color[c] = "free" /\ uv[e] \in ups /\ uv[e] # None /\ c \in Heap
      /\ uv \in [Closures -> UpVals \cup {None}]
  BY SMTT(60), HeldIsAlive, Kinds, ObjectsAssumption
     DEF SafeInv, UpvalInv, ListsInv, TypeOK, pushclosure_enclosing, Room
<1>2. /\ stack' = [stack EXCEPT ![running] = Append(@, c)] /\ uv' = [uv EXCEPT ![c] = uv[e]]
      /\ UNCHANGED <<v, value>>
  BY DEF pushclosure_enclosing, Pushed
<1>3. uv[c] = None /\ uv'[c] = uv[e] /\ c # e /\ \A d \in Closures : d # c => uv'[d] = uv[d]
  BY <1>1, <1>2, ClosureShows
<1>4. p \in Slots /\ Shown(e)' = Shown(e) /\ Seen(e)' = Seen(e)
  BY <1>1, <1>2, <1>3, GrowingShows
<1>5. Shown(c)' = Shown(e)' /\ Seen(c)' = Seen(e)'
  BY <1>3 DEF Shown, Seen, Read, ReadVia, upisopen
<1>6. e \in Places /\ e # p /\ shown[e] # NoVar
  BY <1>1, <1>4, ClosureShows, PlacesAre DEF shown
<1>7. \A u \in ups : v'[u] = v[u] /\ value'[u] = value[u]
  BY <1>2
<1>8. Shown(c)' = (IF e = p THEN <<"slot", p>> ELSE Shown(e))
      /\ Seen(c)' = (IF e = p THEN c ELSE Seen(e))
  BY <1>4, <1>5, <1>6
<1>9. QED
  BY ONLY ZenonT(60), UpvalInv', c \in Closures, <1>1, <1>2, <1>3, <1>6, <1>7, <1>8, NewClosureShown


\* A closure lets go of its upvalue for another one or for none: no other closure
\* sees anything of it, for the upvalue is freed with its last reference only.
LEMMA ReleasingShows ==
  ASSUME UpvalInv, NEW c \in Closures, uv[c] \in ups, NEW x \in ups \cup {None}, x # uv[c],
         Release(uv[c]), uv' = [uv EXCEPT ![c] = x], UNCHANGED <<stack, v>>
  PROVE  /\ \A q \in Places : q # c => Shown(q)' = Shown(q) /\ Seen(q)' = Seen(q)
         /\ x = None => Shown(c)' = NoVar /\ Seen(c)' = Nil
         /\ x # None => /\ Shown(c)' = IF upisopen(x) THEN <<"slot", v[x]>> ELSE <<"own", x>>
                        /\ Seen(c)' = Read(x)
<1> DEFINE u == uv[c]
<1>1. /\ uv \in [Closures -> UpVals \cup {None}] /\ refcount \in [UpVals -> Nat]
      /\ value \in [UpVals -> Heap \cup {Nil}] /\ ups \subseteq UpVals /\ u \in UpVals
      /\ refcount[u] = Cardinality(Users(u)) /\ None \notin UpVals
  BY ObjectsAssumption DEF UpvalInv, ListsInv, TypeOK, RefcountsRight, Users
<1>2. \A w \in UpVals : w # u => value'[w] = value[w]
  BY <1>1 DEF Release
<1>3. refcount[u] # 1 => value' = value
  BY <1>1 DEF Release, Uncounted
<1>4. ASSUME NEW d \in Closures, d # c, uv[d] = u PROVE refcount[u] # 1
  <2>1. d \in Users(u) /\ c \in Users(u) /\ IsFiniteSet(Users(u))
    BY <1>4, UsersFinite DEF Users
  <2>2. Cardinality(Users(u)) # 1
    BY <1>4, <2>1, FS_Singleton
  <2>3. QED
    BY <1>1, <2>2
<1>5. x # None => x \in UpVals /\ x # u
  BY <1>1
<1>6. /\ uv'[c] = x /\ \A d \in Closures : d # c => uv'[d] = uv[d]
  BY <1>1
<1> HIDE DEF u
<1>7. ASSUME NEW d \in Closures, d # c PROVE Shown(d)' = Shown(d) /\ Seen(d)' = Seen(d)
  <2>1. uv'[d] = uv[d] /\ (uv[d] # None => value'[uv[d]] = value[uv[d]])
    BY <1>1, <1>2, <1>3, <1>4, <1>6, <1>7
  <2>2. Shown(d)' = Shown(d)
    BY <2>1, ClosureSame
  <2>3. uv[d] # None => Read(uv[d])' = Read(uv[d])
    BY <2>1 DEF Read, ReadVia, upisopen
  <2>4. QED
    BY <2>1, <2>2, <2>3 DEF Seen
<1>8. ASSUME NEW q \in Slots PROVE Shown(q)' = Shown(q) /\ Seen(q)' = Seen(q)
  BY PlacesAre DEF Shown, Seen, Top
<1>9. ASSUME x = None PROVE Shown(c)' = NoVar /\ Seen(c)' = Nil
  BY <1>6, <1>9 DEF Shown, Seen
<1>10. ASSUME x # None
       PROVE  /\ Shown(c)' = IF upisopen(x) THEN <<"slot", v[x]>> ELSE <<"own", x>>
              /\ Seen(c)' = Read(x)
  <2>1. value'[x] = value[x] /\ uv'[c] = x
    BY <1>2, <1>5, <1>6, <1>10
  <2>2. QED
    BY <1>10, <2>1 DEF Shown, Seen, Read, ReadVia, upisopen
<1>11. QED
  BY <1>7, <1>8, <1>9, <1>10, PlacesAre

\* lua_upvaluejoin: Join, or nothing if both share already.
LEMMA ImplJoin ==
  ASSUME SelfJoin = FALSE, SafeInv, UpvalInv', NEW f1 \in Closures, NEW f2 \in Closures,
         lua_upvaluejoin(f1, f2)
  PROVE  Implements
<1>1. /\ UpvalInv /\ ListsInv /\ uv[f1] \in ups /\ uv[f2] \in ups
      /\ uv[f1] # None /\ uv[f2] # None
      /\ Release(uv[f1]) /\ uv' = [uv EXCEPT ![f1] = uv[f2]] /\ UNCHANGED <<stack, v>>
  <2>1. uv[f1] \in ups /\ uv[f2] \in ups /\ UpvalInv /\ ListsInv /\ ups \subseteq UpVals
    BY HeldIsAlive DEF SafeInv, UpvalInv, ListsInv, TypeOK, lua_upvaluejoin
  <2>2. QED
    BY <2>1, ObjectsAssumption DEF lua_upvaluejoin
<1>2. CASE uv[f1] = uv[f2]
  <2>1. UNCHANGED <<uv, value>>
    BY <1>2, JoinItself
  <2>2. QED
    BY <1>1, <2>1, UnseenStep
<1>3. CASE uv[f1] # uv[f2]
  <2>1. /\ \A q \in Places : q # f1 => Shown(q)' = Shown(q) /\ Seen(q)' = Seen(q)
        /\ Shown(f1)' = IF upisopen(uv[f2]) THEN <<"slot", v[uv[f2]]>> ELSE <<"own", uv[f2]>>
        /\ Seen(f1)' = Read(uv[f2])
    BY <1>1, <1>3, ReleasingShows
  <2>2. Shown(f1)' = Shown(f2) /\ Seen(f1)' = Seen(f2)
    BY <1>1, <2>1 DEF Shown, Seen
  <2>3. f1 \in Places /\ f2 \in Places /\ f1 # f2 /\ shown[f1] # NoVar /\ shown[f2] # NoVar
    BY <1>1, <1>3, ClosureShows, PlacesAre DEF shown
  <2>4. shown' = [shown EXCEPT ![f1] = shown[f2]] /\ seen' = [seen EXCEPT ![f1] = seen[f2]]
    BY <2>1, <2>2, <2>3 DEF shown, seen
  <2>5. content' = [content EXCEPT ![f1] = content[f2]]
    BY <2>4, ContentIs, ContentAfter
  <2>6. QED
    BY <1>1, <2>3, <2>4, <2>5, JoinStep
<1>4. QED
  BY <1>2, <1>3

-----------------------------------------------------------------------------
(* What goes.                                                              *)

\* A closure that is freed leaves.
LEMMA ImplSweepClosure ==
  ASSUME SafeInv, UpvalInv', NEW c \in Closures, uv[c] \in ups, freeLclosure(c)
  PROVE  Implements
<1>1. /\ UpvalInv /\ uv[c] # None /\ Release(uv[c]) /\ uv' = [uv EXCEPT ![c] = None]
      /\ UNCHANGED <<stack, v>>
  BY ObjectsAssumption DEF SafeInv, UpvalInv, ListsInv, TypeOK, freeLclosure
<1>2. /\ \A q \in Places : q # c => Shown(q)' = Shown(q) /\ Seen(q)' = Seen(q)
      /\ Shown(c)' = NoVar /\ Seen(c)' = Nil
  BY <1>1, ReleasingShows
<1>3. /\ \A q \in Places : shown'[q] = IF q = c THEN NoVar ELSE shown[q]
      /\ shown' = [q \in Places |-> shown'[q]]
  BY <1>2 DEF shown
<1>4. \A p, q \in Places : shown'[p] # NoVar =>
           (shown'[q] = shown'[p] <=> shown[q] = shown[p] /\ shown'[q] # NoVar)
  BY <1>3
<1>5. seen' = [p \in Places |-> IF shown'[p] = NoVar THEN Nil ELSE seen[p]]
  <2>1. ASSUME NEW p \in Places, shown[p] = NoVar PROVE Seen(p) = Nil
    <3>1. CASE p \in Slots
      BY <2>1, <3>1, SlotShows, PlacesAre DEF shown, Seen, NoVar
    <3>2. CASE p \in Closures
      BY <1>1, <2>1, <3>2, ClosureShows DEF shown, Seen
    <3>3. QED
      BY <3>1, <3>2, PlacesAre
  <2>2. ASSUME NEW p \in Places PROVE Seen(p)' = IF shown'[p] = NoVar THEN Nil ELSE seen[p]
    BY <1>2, <1>3, <2>1 DEF seen
  <2>3. QED
    BY <2>2 DEF seen
<1>6. content' = [p \in Places |-> IF shown'[p] = NoVar THEN Nil ELSE content[p]]
  BY <1>5, ContentIs, ContentAfter
<1>7. QED
  BY <1>1, <1>3, <1>4, <1>6, LeaveStep


\* The end of a scope: the slots from a level on show nothing any more, closures that
\* showed them show what they showed, together.
LEMMA CuttingShows ==
  ASSUME UpvalInv, UpvalInv', NEW t \in Threads, NEW level \in Nat \ {0}, level <= Top(t) + 1,
         luaF_close(t, level), stack' = Cut(t, level), uv' = uv
  PROVE  Implements
<1> DEFINE gone == Gone(t, level)
           Goes(s) == s[1] = t /\ s[2] >= level
           stk == Cut(t, level)
<1>1. /\ ListsInv /\ Top(t) \in Nat /\ v \in [UpVals -> Slots \cup {Own}] /\ ups \subseteq UpVals
      /\ value \in [UpVals -> Heap \cup {Nil}] /\ None \notin UpVals
  BY OpenList, ObjectsAssumption DEF UpvalInv, ListsInv, TypeOK
<1>2. /\ \A w \in Threads : w # t => stack'[w] = stack[w]
      /\ Len(stack'[t]) = level - 1 /\ level - 1 \in Nat
      /\ \A l \in 1..(level - 1) : stack'[t][l] = stack[t][l]
  <2>1. /\ \A w \in Threads : w # t => stk[w] = stack[w]
        /\ Len(stk[t]) = level - 1 /\ level - 1 \in Nat
        /\ \A l \in 1..(level - 1) : stk[t][l] = stack[t][l]
    BY <1>1, Cutting
  <2>2. stack' = stk
    OBVIOUS
  <2> HIDE DEF stk
  <2>3. QED
    BY <2>1, <2>2
<1>3. /\ v' = [u \in UpVals |-> IF u \in gone THEN Own ELSE v[u]]
      /\ value' = [u \in UpVals |-> IF u \in gone /\ refcount[u] # 0
                                    THEN Read(u) ELSE value[u]]
  BY <1>1, CloseEffect
<1>4. ASSUME NEW u \in gone
      PROVE  /\ u \in ups /\ u \in UpVals /\ upisopen(u) /\ v[u] \in Slots /\ Goes(v[u])
             /\ u \in ToSet(openupval[t])
  BY <1>1, Reads DEF Gone, Level
<1>5. ASSUME NEW u \in gone, NEW w \in gone, v[u] = v[w] PROVE u = w
  BY <1>1, <1>4, <1>5, OpenList DEF Level
<1>6. ASSUME NEW u \in ups, upisopen(u), u \notin gone PROVE ~Goes(v[u])
  BY <1>6 DEF Gone, Level
<1> HIDE DEF gone, stk
<1>7. ASSUME NEW q \in Slots
      PROVE  /\ Goes(q) => Shown(q)' = NoVar /\ Seen(q)' = Nil
             /\ ~Goes(q) => Shown(q)' = Shown(q) /\ Seen(q)' = Seen(q)
  <2>1. /\ q[1] \in Threads /\ q[2] \in Nat /\ q[2] >= 1 /\ q \notin Closures
    BY SlotsAre, PlacesAre
  <2>2. /\ Shown(q) = IF q[2] <= Top(q[1]) THEN <<"slot", q>> ELSE NoVar
        /\ Shown(q)' = IF q[2] <= Top(q[1])' THEN <<"slot", q>> ELSE NoVar
        /\ Seen(q) = IF q[2] <= Top(q[1]) THEN stack[q[1]][q[2]] ELSE Nil
        /\ Seen(q)' = IF q[2] <= Top(q[1])' THEN stack'[q[1]][q[2]] ELSE Nil
    BY <2>1 DEF Shown, Seen
  <2>3. CASE q[1] # t
    BY <1>2, <2>1, <2>2, <2>3 DEF Top
  <2>4. CASE q[1] = t /\ q[2] >= level
    <3>1. ~(q[2] <= Top(q[1])')
      BY <1>2, <2>1, <2>4 DEF Top
    <3>2. QED
      BY <2>2, <2>4, <3>1
  <2>5. CASE q[1] = t /\ ~(q[2] >= level)
    <3>1. q[2] \in 1..(level - 1) /\ q[2] <= Top(q[1])' /\ q[2] <= Top(q[1])
      BY <1>1, <1>2, <2>1, <2>5 DEF Top
    <3>2. QED
      BY <1>2, <2>2, <2>5, <3>1
  <2>6. QED
    BY <2>3, <2>4, <2>5
<1>8. ASSUME NEW c \in Closures, uv[c] \in gone
      PROVE  /\ Shown(c) = <<"slot", v[uv[c]]>> /\ Shown(c)' = <<"own", uv[c]>>
             /\ Seen(c)' = Seen(c)
  <2>1. /\ uv[c] # None /\ uv[c] \in UpVals /\ upisopen(uv[c]) /\ refcount[uv[c]] # 0
        /\ Shown(c) = <<"slot", v[uv[c]]>>
    <3>1. /\ uv[c] # None /\ uv[c] \in ups /\ uv[c] \in UpVals /\ upisopen(uv[c])
      BY <1>1, <1>4, <1>8
    <3>2. refcount[uv[c]] = Cardinality(Users(uv[c])) /\ c \in Users(uv[c])
      BY <3>1 DEF UpvalInv, RefcountsRight, Users
    <3>3. QED
      BY <3>1, <3>2, UsersFinite, ClosureShows
  <2>2. v'[uv[c]] = Own /\ value'[uv[c]] = Read(uv[c])
    BY <1>3, <1>8, <2>1
  <2>3. Read(uv[c])' = Read(uv[c])
    BY <2>2 DEF Read, ReadVia, upisopen
  <2>4. QED
    BY <2>1, <2>2, <2>3 DEF Shown, Seen, upisopen
<1>9. ASSUME NEW c \in Closures, uv[c] \notin gone
      PROVE  /\ Shown(c)' = Shown(c) /\ Seen(c)' = Seen(c)
             /\ \A s \in Slots : Shown(c) = <<"slot", s>> => ~Goes(s)
             /\ \A u \in gone : Shown(c) # <<"own", u>>
  <2>1. CASE uv[c] = None
    <3>1. Shown(c) = NoVar
      BY <2>1, ClosureShows
    <3>2. Shown(c)' = Shown(c) /\ Seen(c)' = Seen(c)
      BY <2>1 DEF Shown, Seen
    <3>3. QED
      BY <3>1, <3>2 DEF NoVar
  <2>2. CASE uv[c] # None
    <3>1. uv[c] \in ups /\ uv[c] \in UpVals /\ v'[uv[c]] = v[uv[c]] /\ value'[uv[c]] = value[uv[c]]
      BY <1>1, <1>3, <1>9, <2>2, ClosureShows
    <3>2. Shown(c)' = Shown(c)
      BY <3>1, ClosureSame
    <3>3. upisopen(uv[c]) => Shown(c) = <<"slot", v[uv[c]]>> /\ ~Goes(v[uv[c]])
      BY <1>6, <1>9, <2>2, <3>1, ClosureShows
    <3>4. ~upisopen(uv[c]) => Shown(c) = <<"own", uv[c]>>
      BY <2>2, ClosureShows
    <3>5. Read(uv[c])' = Read(uv[c])
      <4>1. CASE upisopen(uv[c])
        <5>1. /\ v[uv[c]][1] \in Threads /\ v[uv[c]][2] \in Nat /\ v[uv[c]][2] >= 1
          BY <1>1, <3>1, <4>1, Reads
        <5>2. stack'[v[uv[c]][1]][v[uv[c]][2]] = stack[v[uv[c]][1]][v[uv[c]][2]]
          <6>1. CASE v[uv[c]][1] # t
            BY <1>2, <5>1, <6>1
          <6>2. CASE v[uv[c]][1] = t
            <7>1. v[uv[c]][2] \in 1..(level - 1)
              BY <1>2, <3>3, <4>1, <5>1, <6>2
            <7>2. QED
              BY <1>2, <6>2, <7>1
          <6>3. QED
            BY <6>1, <6>2
        <5>3. QED
          BY <3>1, <4>1, <5>2 DEF Read, ReadVia, upisopen
      <4>2. CASE ~upisopen(uv[c])
        BY <3>1, <4>2 DEF Read, ReadVia, upisopen
      <4>3. QED
        BY <4>1, <4>2
    <3>6. Seen(c)' = Seen(c)
      BY <2>2, <3>5 DEF Seen
    <3>7. \A s \in Slots : Shown(c) = <<"slot", s>> => ~Goes(s)
      BY <3>3, <3>4
    <3>8. \A u \in gone : Shown(c) # <<"own", u>>
      BY <1>9, <3>3, <3>4
    <3>9. QED
      BY <3>2, <3>6, <3>7, <3>8
  <2>3. QED
    BY <2>1, <2>2
<1> DEFINE InScope(p) == \E s \in Slots : Goes(s) /\ Shown(p) = <<"slot", s>>
<1>10. ASSUME NEW p \in Places, InScope(p), shown'[p] # NoVar
       PROVE  /\ p \in Closures /\ uv[p] \in gone
              /\ shown[p] = <<"slot", v[uv[p]]>> /\ shown'[p] = <<"own", uv[p]>>
  <2>1. PICK s \in Slots : Goes(s) /\ Shown(p) = <<"slot", s>>
    BY <1>10
  <2>2. shown'[p] = Shown(p)' /\ shown[p] = Shown(p)
    BY DEF shown
  <2>3. CASE p \in Slots
    <3>1. p = s
      BY <2>1, <2>3, SlotShows DEF NoVar
    <3>2. QED
      BY <1>7, <1>10, <2>1, <2>2, <3>1
  <2>4. CASE p \in Closures
    BY <1>8, <1>9, <2>1, <2>2, <2>4
  <2>5. QED
    BY <2>3, <2>4, PlacesAre
<1>11. ASSUME NEW p \in Places, ~InScope(p)
       PROVE  shown'[p] = shown[p] /\ \A u \in gone : shown[p] # <<"own", u>>
  <2>1. shown'[p] = Shown(p)' /\ shown[p] = Shown(p)
    BY DEF shown
  <2>2. CASE p \in Slots
    <3>1. Shown(p) = NoVar \/ Shown(p) = <<"slot", p>>
      BY <2>2, SlotShows
    <3>2. Shown(p)' = Shown(p)
      <4>1. CASE Goes(p)
        BY <1>7, <1>11, <2>2, <3>1, <4>1
      <4>2. CASE ~Goes(p)
        BY <1>7, <2>2, <4>2
      <4>3. QED
        BY <4>1, <4>2
    <3>3. QED
      BY <2>1, <3>1, <3>2 DEF NoVar
  <2>3. CASE p \in Closures
    <3>1. uv[p] \notin gone
      BY <1>4, <1>8, <1>11, <2>3
    <3>2. QED
      BY <1>9, <2>1, <2>3, <3>1
  <2>4. QED
    BY <2>2, <2>3, PlacesAre
<1>12. \A p \in Places : InScope(p) => shown[p] # NoVar
  BY DEF shown, NoVar
<1>13. \A p, q \in Places : InScope(p) /\ shown[q] = shown[p] => InScope(q)
  BY DEF shown
<1>14. ASSUME NEW p \in Places PROVE Seen(p)' = IF shown'[p] = NoVar THEN Nil ELSE seen[p]
  <2>1. shown'[p] = Shown(p)' /\ seen[p] = Seen(p)
    BY DEF shown, seen
  <2>2. CASE p \in Slots
    <3>1. Shown(p)' = IF p[2] <= Top(p[1])' THEN <<"slot", p>> ELSE NoVar
      BY <2>2, PlacesAre DEF Shown
    <3>2. Seen(p)' = IF p[2] <= Top(p[1])' THEN stack'[p[1]][p[2]] ELSE Nil
      BY <2>2, PlacesAre DEF Seen
    <3>3. shown'[p] = NoVar <=> ~(p[2] <= Top(p[1])')
      BY <2>1, <3>1 DEF NoVar
    <3>4. Goes(p) => shown'[p] = NoVar
      BY <1>7, <2>1, <2>2
    <3>5. QED
      BY <1>7, <2>1, <2>2, <3>2, <3>3, <3>4
  <2>3. CASE p \in Closures
    <3>1. Seen(p)' = Seen(p)
      BY <1>8, <1>9, <2>3
    <3>2. Shown(p)' = NoVar => uv[p] = None
      BY <1>8, <1>9, <2>3, ClosureShows DEF NoVar
    <3>3. uv[p] = None => Seen(p) = Nil
      BY <2>3 DEF Seen
    <3>4. QED
      BY <2>1, <3>1, <3>2, <3>3
  <2>4. QED
    BY <2>2, <2>3, PlacesAre
<1> HIDE DEF InScope
<1>15. \A p \in Places : shown[p] = NoVar => shown'[p] = NoVar
  BY <1>11, <1>12
<1>16. ASSUME NEW p \in Places, NEW q \in Places, shown'[p] # NoVar
       PROVE  shown'[q] = shown'[p] <=> shown[q] = shown[p] /\ shown'[q] # NoVar
  <2>1. CASE InScope(p) /\ InScope(q) /\ shown'[q] # NoVar
    <3>1. shown'[q] = shown'[p] <=> uv[q] = uv[p]
      BY <1>10, <1>16, <2>1
    <3>2. shown[q] = shown[p] <=> v[uv[q]] = v[uv[p]]
      BY <1>10, <1>16, <2>1
    <3>3. uv[p] \in gone /\ uv[q] \in gone
      BY <1>10, <1>16, <2>1
    <3>4. QED
      BY <1>5, <2>1, <3>1, <3>2, <3>3
  <2>2. CASE InScope(p) /\ InScope(q) /\ shown'[q] = NoVar
    BY <1>16, <2>2
  <2>3. CASE InScope(p) /\ ~InScope(q)
    BY <1>10, <1>11, <1>13, <1>16, <2>3
  <2>4. CASE ~InScope(p) /\ InScope(q)
    <3>1. shown[q] # shown[p]
      BY <1>13, <2>4
    <3>2. shown'[q] # shown'[p]
      BY <1>10, <1>11, <1>16, <2>4
    <3>3. QED
      BY <3>1, <3>2
  <2>5. CASE ~InScope(p) /\ ~InScope(q)
    BY <1>11, <1>16, <2>5
  <2>6. QED
    BY <2>1, <2>2, <2>3, <2>4, <2>5
<1>17. seen' = [p \in Places |-> IF shown'[p] = NoVar THEN Nil ELSE seen[p]]
  BY <1>14 DEF seen
<1>18. content' = [p \in Places |-> IF shown'[p] = NoVar THEN Nil ELSE content[p]]
  BY <1>17, ContentIs, ContentAfter
<1>19. QED
  BY <1>15, <1>16, <1>18, LeaveStep


\* The end of a block: Leave, and closures keep what the slots held.
LEMMA ImplLeave ==
  ASSUME SafeInv, UpvalInv', NEW level \in Levels, Leave(level)
  PROVE  Implements
<1>1. /\ UpvalInv /\ running \in Threads /\ Top(running) \in Nat /\ level \in 1..Top(running)
      /\ luaF_close(running, level) /\ stack' = Cut(running, level) /\ uv' = uv
  BY HeldIsAlive DEF SafeInv, Leave, Cut
<1>2. level \in Nat \ {0} /\ level <= Top(running) + 1
  BY <1>1
<1>3. QED
  BY ONLY UpvalInv', <1>1, <1>2, CuttingShows

\* A sweep lets closures and slots of dead threads leave.
LEMMA ImplSweep ==
  ASSUME SafeInv, UpvalInv', NEW o \in Heap, Sweep(o)
  PROVE  Implements
<1>1. UpvalInv /\ ListsInv
  BY DEF SafeInv, UpvalInv
<1>2. CASE UNCHANGED <<stack, openupval, uv, upval>>
  BY <1>1, <1>2, UnseenStep DEF upval
<1>3. CASE o \in Closures /\ color[o] = "dead" /\ freeLclosure(o)
  <2>1. uv[o] \in ups
    BY <1>1, <1>3 DEF UpvalInv, RefcountsRight
  <2>2. QED
    BY <1>3, <2>1, ImplSweepClosure
<1>4. CASE o \in Coroutines /\ luaE_freethread(o)
  <2>1. o \in Threads /\ stack \in [Threads -> Seq(Heap)] /\ Top(o) \in Nat
    BY <1>1, <1>4, Kinds, OpenList DEF ListsInv, TypeOK
  <2>2. SubSeq(stack[o], 1, 1 - 1) = <<>>
    BY <2>1
  <2>3. stack' = Cut(o, 1)
    BY <1>4, <2>2 DEF luaE_freethread, Cut
  <2>4. luaF_close(o, 1) /\ uv' = uv /\ 1 \in Nat \ {0} /\ 1 <= Top(o) + 1
    BY <1>4, <2>1 DEF luaE_freethread
  <2>5. QED
    BY ONLY UpvalInv', <1>1, <2>1, <2>3, <2>4, CuttingShows
<1>5. QED
  BY <1>2, <1>3, <1>4 DEF Sweep

\* Every step is one of SharedVars, or none.
LEMMA ImplNext ==
  ASSUME SelfJoin = FALSE, SafeInv, UpvalInv', Next
  PROVE  Implements
<1>1. UpvalInv
  BY DEF SafeInv
<1>2. CASE \E o \in Leaves \cup Coroutines : luaC_newobj(o)
  BY <1>2, ImplNewObject
<1>3. CASE \E x \in Heap : GetValue(x)
  BY <1>3, ImplGetValue
<1>4. CASE \E l \in Levels, x \in Heap : SetLocal(l, x)
  BY <1>4, ImplSetLocal
<1>5. CASE \E c \in Closures, l \in Levels : pushclosure(c, l)
  BY <1>5, ImplPushClosure
<1>6. CASE \E c, e \in Closures : pushclosure_enclosing(c, e)
  BY <1>6, ImplEnclosing
<1>7. CASE \E c, e \in Closures : lua_upvaluejoin(c, e)
  BY <1>7, ImplJoin
<1>8. CASE \E c \in Closures, x \in Heap : OP_SETUPVAL(c, x)
  BY <1>8, ImplSetUpval
<1>9. CASE \E l \in Levels : Leave(l)
  BY <1>9, ImplLeave
<1>10. CASE \E t \in Coroutines, xs \in Passed : lua_resume(t, xs)
  <2>1. PICK t \in Coroutines, xs \in Passed : lua_resume(t, xs)
    BY <1>10
  <2>2. /\ t \in Threads /\ Top(t) + Len(xs) <= MaxLevel[t]
        /\ stack' = [stack EXCEPT ![t] = @ \o xs] /\ UNCHANGED <<uv, v, value>>
    BY <2>1, Kinds DEF lua_resume, upval
  <2>3. QED
    BY ONLY UpvalInv', xs \in Passed, <1>1, <2>2, ImplPassing
<1>11. CASE \E xs \in Passed : lua_yield(xs)
  <2>1. PICK xs \in Passed : lua_yield(xs)
    BY <1>11
  <2>2. /\ Main \in Threads /\ Top(Main) + Len(xs) <= MaxLevel[Main]
        /\ stack' = [stack EXCEPT ![Main] = @ \o xs] /\ UNCHANGED <<uv, v, value>>
    BY <2>1, Kinds DEF lua_yield, upval
  <2>3. QED
    BY ONLY UpvalInv', xs \in Passed, <1>1, <2>2, ImplPassing
<1>12. CASE \E o \in Heap : Sweep(o)
  BY <1>12, ImplSweep
<1>13. CASE \/ restartcollection \/ Propagate \/ PropagateAll
            \/ AtomicBegin \/ (\E t \in Threads : remarkupvals(t)) \/ AtomicGrayAgain \/ AtomicEnd
            \/ SweepEnds \/ luaC_fullgc
  <2>1. UNCHANGED <<stack, uv, v, value>>
    <3>1. CASE Propagate \/ PropagateAll
      <4>1. PICK o : propagatemark(o)
        BY <3>1 DEF Propagate, PropagateAll
      <4>2. QED
        BY <4>1 DEF propagatemark
    <3>2. CASE \E t \in Threads : remarkupvals(t)
      BY <3>2 DEF remarkupvals
    <3>3. CASE \/ restartcollection \/ AtomicBegin \/ AtomicGrayAgain \/ AtomicEnd
               \/ SweepEnds \/ luaC_fullgc
      BY <3>3 DEF restartcollection, AtomicBegin, AtomicGrayAgain, AtomicEnd, SweepEnds,
                  luaC_fullgc, upval
    <3>4. QED
      BY <1>13, <3>1, <3>2, <3>3
  <2>2. QED
    BY <1>1, <2>1, UnseenStep
<1>14. QED
  BY <1>2, <1>3, <1>4, <1>5, <1>6, <1>7, <1>8, <1>9, <1>10, <1>11, <1>12, <1>13
     DEF Next, Program, Collector

\* A step without change is none there.
LEMMA ImplStutters ==
  ASSUME UpvalInv, UpvalInv', UNCHANGED vars
  PROVE  Implements
BY UnseenStep DEF vars, upval

\* The first states are first states there.
LEMMA ImplInit ==
  ASSUME Init
  PROVE  Shared!Init
<1>1. UpvalInv
  BY StructInit
<1>2. ASSUME NEW p \in Places PROVE shown[p] = NoVar /\ seen[p] = Nil
  <2>1. CASE p \in Closures
    BY <2>1 DEF Init, shown, Shown, seen, Seen
  <2>2. CASE p \in Slots
    <3>1. p[1] \in Threads /\ p[2] \in Nat /\ p[2] >= 1 /\ p \notin Closures
      BY <2>2, SlotsAre, PlacesAre
    <3>2. Top(p[1]) = 0
      BY <3>1 DEF Init, Top
    <3>3. QED
      BY <3>1, <3>2 DEF shown, Shown, seen, Seen
  <2>3. QED
    BY <2>1, <2>2, PlacesAre
<1>3. with = [p \in Places |-> {}]
  <2>1. with = Groups(shown)
    BY <1>1, Views DEF Viewed
  <2>2. QED
    BY <1>2, <2>1 DEF Groups
<1>4. content = [p \in Places |-> Nil]
  BY <1>2, ContentIs DEF seen
<1>5. QED
  BY <1>3, <1>4 DEF Shared!Init

\* Upvalues implement what the language promises of variables: every step of the
\* interpreter (lua/src/lvm.c, lfunc.c, lapi.c) is one step of SharedVars, and no step
\* of the collector (lua/src/lgc.c) is seen, but that what it frees is gone.
THEOREM UpvaluesImplementSharedVars ==
  ASSUME SelfJoin = FALSE
  PROVE  Spec => ImplementsSharedVars
<1>1. Init => Shared!Init
  BY ImplInit
<1>2. SafeInv => UpvalInv
  BY DEF SafeInv
<1>3. UpvalInv /\ UpvalInv' /\ SafeInv /\ [Next]_vars => [Shared!Next]_(Shared!vars)
  <2>1. UpvalInv /\ UpvalInv' /\ SafeInv /\ [Next]_vars => Implements
    BY ImplNext, ImplStutters
  <2>2. Implements => [Shared!Next]_(Shared!vars)
    BY DEF Implements, Stutter, Shared!vars
  <2>3. QED
    BY <2>1, <2>2
<1>4. Spec => []SafeInv
  BY SafetyHolds
<1>5. QED
  BY <1>1, <1>2, <1>3, <1>4, PTL DEF Spec, ImplementsSharedVars, Shared!Spec

\* Places that share a variable read one value of it.
LEMMA SharedAgrees ==
  ASSUME UpvalInv
  PROVE  Shared!Agreement
<1>1. /\ with = Groups(shown) /\ content = seen
      /\ \A p \in Places : shown[p] = Shown(p) /\ seen[p] = Seen(p)
  BY Views, ContentIs DEF Viewed, shown, seen
<1>2. ASSUME NEW c \in Closures, uv[c] # None, upisopen(uv[c])
      PROVE  Seen(c) = Seen(v[uv[c]])
  <2>1. v[uv[c]] \in Slots /\ v[uv[c]][2] <= Top(v[uv[c]][1])
    BY <1>2, ClosureShows
  <2>2. Seen(v[uv[c]]) = stack[v[uv[c]][1]][v[uv[c]][2]]
    BY <2>1, PlacesAre DEF Seen
  <2>3. QED
    BY <1>2, <2>2 DEF Seen, Read, ReadVia
<1>3. ASSUME NEW p \in Places, NEW s \in Slots, Shown(p) = <<"slot", s>> PROVE Seen(p) = Seen(s)
  <2>1. CASE p \in Slots
    <3>1. p = s
      BY <1>3, <2>1, SlotShows DEF NoVar
    <3>2. QED
      BY <3>1
  <2>2. CASE p \in Closures
    <3>1. uv[p] # None /\ upisopen(uv[p]) /\ v[uv[p]] = s
      BY <1>3, <2>2, ClosureShows DEF NoVar
    <3>2. QED
      BY <1>2, <2>2, <3>1
  <2>3. QED
    BY <2>1, <2>2, PlacesAre
<1>4. ASSUME NEW p \in Places, NEW q \in Places, Shown(p) # NoVar, Shown(q) = Shown(p)
      PROVE  Seen(q) = Seen(p)
  <2>1. CASE \E s : Shown(p) = <<"slot", s>>
    <3>1. PICK s : Shown(p) = <<"slot", s>>
      BY <2>1
    <3>2. s \in Slots
      BY <3>1, ShownSlots
    <3>3. QED
      BY <1>3, <1>4, <3>1, <3>2
  <2>2. CASE ~\E s : Shown(p) = <<"slot", s>>
    <3>1. p \in Closures /\ q \in Closures /\ uv[p] # None /\ uv[q] # None
      BY <1>4, <2>2, SlotShows, ClosureShows, PlacesAre
    <3>2. Shown(p) = <<"own", uv[p]>> /\ Shown(q) = <<"own", uv[q]>>
      BY <1>4, <2>2, <3>1, ClosureShows
    <3>3. uv[p] = uv[q]
      BY <1>4, <3>2
    <3>4. QED
      BY <3>1, <3>3 DEF Seen
  <2>3. QED
    BY <2>1, <2>2
<1>5. ASSUME NEW p \in Places, NEW q \in Places, q \in with[p]
      PROVE  p \in with[q] /\ with[q] = with[p] /\ content[q] = content[p]
  <2>1. shown[p] # NoVar /\ shown[q] = shown[p]
    BY <1>1, <1>5, InGroup
  <2>2. with[q] = with[p] /\ p \in with[q]
    BY <1>1, <2>1 DEF Groups
  <2>3. QED
    BY <1>1, <1>4, <2>1, <2>2
<1>6. QED
  BY <1>5 DEF Shared!Agreement

\* What a Lua programmer relies on, in the interpreter itself: closures, threads and blocks
\* that have a variable in common read one value from it, wherever luaF_close and
\* lua_upvaluejoin have put it.
THEOREM SharersReadOneValue ==
  ASSUME SelfJoin = FALSE
  PROVE  Spec => []Shared!Agreement
<1>1. SafeInv => Shared!Agreement
  BY SharedAgrees DEF SafeInv
<1>2. QED
  BY <1>1, SafetyHolds, PTL
=============================================================================
