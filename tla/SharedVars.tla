----------------------------- MODULE SharedVars -----------------------------
(***************************************************************************)
(* What Lua promises of local variables and closures.  A place is a slot   *)
(* of some stack or an upvalue of some closure; every place that is in use *)
(* shows a variable.  Places that show the same variable agree on its      *)
(* value for as long as they do, and whatever becomes of the other ones.   *)
(***************************************************************************)
CONSTANTS
  Places,     \* stack slots and closures, each with one upvalue
  Closures,   \* the closures among them
  Contents,   \* what a variable may contain
  Nothing     \* the content of a place that shows no variable

VARIABLES
  with,       \* per place: the places that show its variable, {} if it shows none
  content     \* per place: the value it shows

\* 'with' once the places in P show nothing.
Without(P) == [x \in Places |-> IF x \in P THEN {} ELSE with[x] \ P]

\* 'with' once p shows the variable of q.
Joined(p, q) ==
  LET w     == Without({p})
      group == w[q] \cup {p, q}
  IN [x \in Places |-> IF x \in group THEN group ELSE w[x]]

Init == with = [x \in Places |-> {}] /\ content = [x \in Places |-> Nothing]

\* A new variable.
New(p, v) ==
  /\ p \notin Closures /\ with[p] = {}
  /\ with' = [with EXCEPT ![p] = {p}]
  /\ content' = [content EXCEPT ![p] = v]

\* A new variable p that contains a new closure c, which shows q (p perhaps).
Close(p, c, q) ==
  /\ p \notin Closures /\ c \in Closures /\ with[p] = {} /\ with[c] = {}
  /\ LET w == [with EXCEPT ![p] = {p}] IN
     /\ w[q] # {}
     /\ with' = [x \in Places |-> IF x \in w[q] \cup {c} THEN w[q] \cup {c} ELSE w[x]]
     /\ content' = [content EXCEPT ![p] = c, ![c] = IF q = p THEN c ELSE content[q]]

\* An assignment is seen everywhere the variable is.
Assign(p, v) ==
  /\ with[p] # {}
  /\ with' = with
  /\ content' = [x \in Places |-> IF x \in with[p] THEN v ELSE content[x]]

\* A closure is made to show another variable.
Join(p, q) ==
  /\ with[p] # {} /\ with[q] # {} /\ p \in with'[q]
  /\ with' = Joined(p, q)
  /\ content' = [content EXCEPT ![p] = content[q]]

\* Scopes end, closures and threads die; the others keep what they show.
Leave(P) ==
  /\ P # {}
  /\ with' = Without(P)
  /\ content' = [x \in Places |-> IF x \in P THEN Nothing ELSE content[x]]

vars == <<with, content>>

\* What leaves in a step is what shows nothing after it; a step that changes
\* nothing is a stutter.
Next ==
  /\ vars' # vars
  /\ \/ \E p \in Places, v \in Contents : New(p, v) \/ Assign(p, v)
     \/ \E p \in Places \ Closures, c \in Closures, q \in Places : Close(p, c, q)
     \/ \E p \in Closures, q \in Places : Join(p, q)
     \/ Leave({x \in Places : with[x] # {} /\ with'[x] = {}})

Spec == Init /\ [][Next]_vars

\* The places that show one variable are a class of their own and agree on its
\* content.
Agreement ==
  \A p, q \in Places : q \in with[p] =>
    p \in with[p] /\ with[q] = with[p] /\ content[q] = content[p]
=============================================================================
