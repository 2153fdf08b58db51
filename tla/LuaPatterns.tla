------------------------------ MODULE LuaPatterns ------------------------------
(***************************************************************************)
(* What a pattern promises to a Lua program.  A pattern is a sequence of   *)
(* items [text, what, set, rep]: how it is written, and for a single       *)
(* character the set it is in and how often it is repeated.  What it       *)
(* matches at a position is the sequence of all its outcomes, the one that *)
(* is preferred first.                                                     *)
(***************************************************************************)
EXTENDS Integers, Sequences, SequencesExt, FiniteSetsExt

Single(text, set, rep) == [text |-> text, what |-> "char", set |-> set, rep |-> rep]
Other(text, what)      == [text |-> text, what |-> what, set |-> {}, rep |-> ""]
Outcome(e, caps) == [e |-> e, caps |-> caps]
Error == [e |-> -1, caps |-> <<>>]

\* The lengths that a repetition tries, of a run of n.
Lengths(rep, n) ==
  CASE rep = ""  -> IF n > 0 THEN <<1>> ELSE <<>>
    [] rep = "*" -> [j \in 1..n + 1 |-> n + 1 - j]
    [] rep = "+" -> [j \in 1..n |-> n + 1 - j]
    [] rep = "-" -> [j \in 1..n + 1 |-> j - 1]
    [] rep = "?" -> IF n > 0 THEN <<1, 0>> ELSE <<0>>
Run(src, s, set) ==
  Max({n \in 0..Len(src) - s + 1 : \A i \in s..s + n - 1 : src[i] \in set})

Open(caps) == {l \in DOMAIN caps : caps[l].to = "open"}
Value(src, c) == IF c.to = "position" THEN c.from ELSE SubSeq(src, c.from, c.from + c.n - 1)
Capture(from, to, n) == [from |-> from, to |-> to, n |-> n]
At(src, i) == IF i \in DOMAIN src THEN src[i] ELSE "NUL"

\* The shortest text from s that has as many of the first character as of the
\* second, after the first character.
Count(src, s, e, c) == Len(SelectSeq(SubSeq(src, s, e), LAMBDA x : x = c))
Balanced(src, s, x, y) ==
  {e \in s + 1..Len(src) : src[s] = x /\ Count(src, s, e, x) = Count(src, s, e, y)}

RECURSIVE Outcomes(_, _, _, _)
Outcomes(src, items, s, caps) ==
  LET i == Head(items)
      Rest(from, c) == Outcomes(src, Tail(items), from, c)
  IN IF items = <<>> THEN <<Outcome(s, caps)>>
     ELSE CASE i.what = "char" ->
            FlattenSeq([j \in DOMAIN Lengths(i.rep, Run(src, s, i.set)) |->
                          Rest(s + Lengths(i.rep, Run(src, s, i.set))[j], caps)])
       [] i.what = "open"     -> Rest(s, Append(caps, Capture(s, "open", 0)))
       [] i.what = "position" -> Rest(s, Append(caps, Capture(s, "position", 0)))
       [] i.what = "close" ->
            IF Open(caps) = {} THEN <<Error>>
            ELSE Rest(s, [caps EXCEPT ![Max(Open(caps))] = Capture(@.from, "closed", s - @.from)])
       [] i.what = "again" ->    \* %1
            IF caps = <<>> \/ 1 \in Open(caps) THEN <<Error>>
            ELSE IF /\ caps[1].to = "closed" /\ s + caps[1].n <= Len(src) + 1
                    /\ SubSeq(src, s, s + caps[1].n - 1) = Value(src, caps[1])
            THEN Rest(s + caps[1].n, caps) ELSE <<>>
       [] i.what = "balanced" ->  \* %bab
            IF s > Len(src) \/ Balanced(src, s, "a", "b") = {} THEN <<>>
            ELSE Rest(Min(Balanced(src, s, "a", "b")) + 1, caps)
       [] i.what = "frontier" ->
            IF At(src, s - 1) \notin i.set /\ At(src, s) \in i.set THEN Rest(s, caps) ELSE <<>>
       [] i.what = "end" ->
            IF Tail(items) = <<>> /\ s = Len(src) + 1 THEN Rest(s, caps) ELSE <<>>
       [] i.what = "bad" -> <<Error>>

Text(items) == FlattenSeq([i \in DOMAIN items |-> items[i].text])

\* "(" and ")" together are a position.
Unambiguous(items) ==
  \A i \in 1..Len(items) - 1 : ~(items[i].what = "open" /\ items[i + 1].what = "close")

\* The first match from "from" on that does not end where the last one did:
\* where it begins, and how it ends.
Starts(src, items, from, to, last) ==
  {s \in from..to : Outcomes(src, items, s, <<>>) # <<>>
                    /\ Outcomes(src, items, s, <<>>)[1].e # last}
Match(src, items, s) == [s |-> s] @@ Outcomes(src, items, s, <<>>)[1]

Values(src, m) ==
  IF m.caps = <<>> THEN <<SubSeq(src, m.s, m.e - 1)>>
  ELSE [l \in DOMAIN m.caps |-> IF m.caps[l].to = "open" THEN -1 ELSE Value(src, m.caps[l])]

\* What string.gmatch goes through.
RECURSIVE Matches(_, _, _, _)
Matches(src, items, from, last) ==
  LET starts == Starts(src, items, from, Len(src) + 1, last)
      m == Match(src, items, Min(starts))
  IN IF starts = {} THEN <<>>
     ELSE IF m.e = -1 THEN <<m>> ELSE <<m>> \o Matches(src, items, m.e, m.e)
=============================================================================
