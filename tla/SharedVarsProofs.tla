-------------------------- MODULE SharedVarsProofs --------------------------
(* What the abstract specification of variables and closures implies.      *)
EXTENDS SharedVars, TLAPS

Shape ==
  /\ Closures \subseteq Places
  /\ with \in [Places -> SUBSET Places]
  /\ content \in [Places -> Contents \cup Closures \cup {Nothing}]

Inv == Shape /\ Agreement

\* Every step of the abstract specification keeps sharing consistent.
LEMMA NextKeepsInv == Inv /\ [Next]_vars => Inv'
<1> SUFFICES ASSUME Inv, [Next]_vars PROVE Inv'
  OBVIOUS
<1> USE DEF Inv, Shape
<1>1. ASSUME NEW p \in Places, NEW v \in Contents, New(p, v) PROVE Inv'
  BY <1>1 DEF New, Agreement
<1>2. ASSUME NEW p \in Places, NEW v \in Contents, Assign(p, v) PROVE Inv'
  BY <1>2 DEF Assign, Agreement
<1>3. ASSUME NEW p \in Places \ Closures, NEW c \in Closures, NEW q \in Places,
             Close(p, c, q)
      PROVE Inv'
  <2> DEFINE w == [with EXCEPT ![p] = {p}]
  <2>1. with' = [x \in Places |-> IF x \in w[q] \cup {c} THEN w[q] \cup {c} ELSE w[x]]
    BY <1>3 DEF Close
  <2>2. content' = [content EXCEPT ![p] = c, ![c] = IF q = p THEN c ELSE content[q]]
    BY <1>3 DEF Close
  <2>3. with[p] = {} /\ with[c] = {} /\ w[q] # {} /\ p # c
    BY <1>3 DEF Close
  <2>4. Shape'
    BY <2>1, <2>2
  <2>5. w \in [Places -> SUBSET Places] /\ w[p] = {p} /\ w[c] = {}
    BY <2>3
  <2>6. \A x, y \in Places : y \in w[x] => x \in w[x] /\ w[y] = w[x] /\ y # c
    BY <2>3, <2>5 DEF Agreement
  <2>7. Agreement'
    BY <2>1, <2>2, <2>3, <2>5, <2>6 DEF Agreement
  <2> QED
    BY <2>4, <2>7
<1>4. ASSUME NEW p \in Closures, NEW q \in Places, Join(p, q) PROVE Inv'
  <2> DEFINE w == Without({p})
             group == w[q] \cup {p, q}
  <2>1. /\ with' = [x \in Places |-> IF x \in group THEN group ELSE w[x]]
        /\ content' = [content EXCEPT ![p] = content[q]]
    BY <1>4 DEF Join, Joined
  <2>2. p \in Places /\ with[q] # {} /\ q \in with[q]
    BY <1>4, Closures \subseteq Places DEF Join, Agreement
  <2>3. /\ w \in [Places -> SUBSET Places] /\ w[p] = {}
        /\ \A x \in Places \ {p} : w[x] = with[x] \ {p}
    BY <2>2 DEF Without
  <2>4. \A x, y \in Places : y \in w[x] =>
          x # p /\ y # p /\ x \in w[x] /\ w[y] = w[x] /\ content[y] = content[x]
    <3> SUFFICES ASSUME NEW x \in Places, NEW y \in Places, y \in w[x]
                 PROVE  x # p /\ y # p /\ x \in w[x] /\ w[y] = w[x] /\ content[y] = content[x]
      OBVIOUS
    <3>1. x # p
      BY <2>3
    <3>2. y # p /\ y \in with[x]
      BY <2>3, <3>1
    <3>3. x \in with[x] /\ with[y] = with[x] /\ content[y] = content[x]
      BY <3>2 DEF Agreement
    <3> QED
      BY <2>3, <3>1, <3>2, <3>3
  <2>5. Shape'
    BY <2>1, <2>2, <2>3, <1>4
  <2>6. \A x \in Places : x \in group => content'[x] = content[q]
    BY <2>1, <2>2, <2>4
  <2>7. \A x, y \in Places : x \notin group /\ y \in w[x] => y \notin group
    <3>1. CASE q = p
      BY <3>1, <2>3, <2>4
    <3>2. CASE q # p
      BY <3>2, <2>2, <2>3, <2>4
    <3> QED
      BY <3>1, <3>2
  <2>8. Agreement'
    <3> SUFFICES ASSUME NEW x \in Places, NEW y \in Places, y \in with'[x]
                 PROVE  x \in with'[x] /\ with'[y] = with'[x] /\ content'[y] = content'[x]
      BY DEF Agreement
    <3>1. CASE x \in group
      BY <3>1, <2>1, <2>6
    <3>2. CASE x \notin group
      <4>1. y \in w[x] /\ y \notin group
        BY <3>2, <2>1, <2>7
      <4> QED
        BY <3>2, <4>1, <2>1, <2>4
    <3> QED
      BY <3>1, <3>2
  <2> QED
    BY <2>5, <2>8
<1>5. ASSUME NEW P \in SUBSET Places, Leave(P) PROVE Inv'
  BY <1>5 DEF Leave, Without, Agreement
<1>6. CASE UNCHANGED vars
  BY <1>6 DEF vars, Agreement
<1> QED
  BY <1>1, <1>2, <1>3, <1>4, <1>5, <1>6 DEF Next

\* Places that show one variable agree on its value, whatever was captured,
\* assigned, joined or left before: what closures rely on.
THEOREM SharersAgree == Closures \subseteq Places => (Spec => []Agreement)
<1> SUFFICES ASSUME Closures \subseteq Places PROVE Spec => []Agreement
  OBVIOUS
<1>1. Init => Inv
  BY DEF Init, Inv, Shape, Agreement
<1> QED
  BY <1>1, NextKeepsInv, PTL DEF Spec, Inv
=============================================================================
