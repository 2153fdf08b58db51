------------------------------- MODULE LuaMatch --------------------------------
(***************************************************************************)
(* Pattern matching (lstrlib.c): match with its backtracking, captures     *)
(* that are written and restored in place, string.find, match, gmatch and  *)
(* gsub; and what a pattern means, item by item.                           *)
(*                                                                         *)
(* Strings are sequences of characters; a pointer is an index, NULL is 0,  *)
(* and BAD stands for an error, which goes straight to the caller.  A      *)
(* match state ms is [src, p, level, capture, depth, err].                 *)
(***************************************************************************)
EXTENDS Integers, Sequences, FiniteSets, SequencesExt, FiniteSetsExt

P == INSTANCE LuaPatterns

CONSTANTS MAXCCALLS, LUA_MAXCAPTURES

NULL == 0
BAD  == -1
CAP_UNFINISHED == -1
CAP_POSITION   == -2
Letters == {"a", "b", "c"}
Order   == <<"0", "1", "2", "a", "b", "c">>     \* of the characters, for ranges
Uchar(c) == IF c \in ToSet(Order) THEN CHOOSE i \in DOMAIN Order : Order[i] = c ELSE 0
At(s, i) == IF i \in DOMAIN s THEN s[i] ELSE "NUL"    \* '\0' ends every string

Result(ms, s)   == [s |-> s, ms |-> ms]
luaL_error(ms, msg) == [s |-> BAD, ms |-> [ms EXCEPT !.err = msg]]

-----------------------------------------------------------------------------
(* Single characters.                                                      *)

match_class(c, cl) ==
  CASE cl = "a" -> c \in Letters
    [] cl = "A" -> c \notin Letters
    [] cl = "d" -> c \in {"0", "1", "2"}
    [] cl = "D" -> c \notin {"0", "1", "2"}
    [] OTHER    -> c = cl

\* The index after the item at p, BAD if the pattern ends in it.
RECURSIVE endofset(_, _)
endofset(pat, p) ==
  LET q == IF At(pat, p) = "%" /\ p < Len(pat) THEN p + 2 ELSE p + 1
  IN IF p > Len(pat) THEN BAD ELSE IF At(pat, q) = "]" THEN q + 1 ELSE endofset(pat, q)
classend(pat, p) ==
  CASE At(pat, p) = "%" -> IF p = Len(pat) THEN BAD ELSE p + 2
    [] At(pat, p) = "[" -> endofset(pat, IF At(pat, p + 1) = "^" THEN p + 2 ELSE p + 1)
    [] OTHER -> p + 1

\* A character in the set from p to its "]" at ec.
RECURSIVE inset(_, _, _, _)
inset(pat, c, p, ec) ==
  /\ p < ec
  /\ CASE At(pat, p) = "%" -> match_class(c, At(pat, p + 1)) \/ inset(pat, c, p + 2, ec)
       [] At(pat, p) # "%" /\ At(pat, p + 1) = "-" /\ p + 2 < ec ->
            Uchar(c) \in Uchar(At(pat, p))..Uchar(At(pat, p + 2)) \/ inset(pat, c, p + 3, ec)
       [] OTHER -> At(pat, p) = c \/ inset(pat, c, p + 1, ec)
matchbracketclass(pat, c, p, ec) ==
  IF At(pat, p + 1) = "^" THEN ~inset(pat, c, p + 2, ec) ELSE inset(pat, c, p + 1, ec)

singlematch(ms, s, p, ep) ==
  /\ s <= Len(ms.src)
  /\ CASE At(ms.p, p) = "." -> TRUE
       [] At(ms.p, p) = "%" -> match_class(At(ms.src, s), At(ms.p, p + 1))
       [] At(ms.p, p) = "[" -> matchbracketclass(ms.p, At(ms.src, s), p, ep - 1)
       [] OTHER -> At(ms.p, p) = At(ms.src, s)

\* "cont" of the characters b before s still wait for an e.
RECURSIVE balanced(_, _, _, _, _)
balanced(ms, s, b, e, cont) ==
  IF s > Len(ms.src) THEN NULL
  ELSE IF ms.src[s] = e
       THEN IF cont = 1 THEN s + 1 ELSE balanced(ms, s + 1, b, e, cont - 1)
       ELSE balanced(ms, s + 1, b, e, IF ms.src[s] = b THEN cont + 1 ELSE cont)
matchbalance(ms, s, p) ==
  IF At(ms.src, s) # At(ms.p, p) THEN NULL
  ELSE balanced(ms, s + 1, At(ms.p, p), At(ms.p, p + 1), 1)

-----------------------------------------------------------------------------
(* Captures.                                                               *)

unfinished(ms) == {l \in 1..ms.level : ms.capture[l].len = CAP_UNFINISHED}
check_capture(ms, l) == l \in 1..ms.level /\ ms.capture[l].len # CAP_UNFINISHED
Captured(ms, l) ==
  SubSeq(ms.src, ms.capture[l].init, ms.capture[l].init + ms.capture[l].len - 1)
match_capture(ms, s, l) ==    \* the length of a position is a huge size_t
  IF /\ ms.capture[l].len # CAP_POSITION
     /\ Len(ms.src) - s + 1 >= ms.capture[l].len
     /\ SubSeq(ms.src, s, s + ms.capture[l].len - 1) = Captured(ms, l)
  THEN s + ms.capture[l].len ELSE NULL

RECURSIVE match(_, _, _), domatch(_, _, _), max_expand(_, _, _, _, _), min_expand(_, _, _, _)

opened(ms, s, what) ==
  [ms EXCEPT !.capture = [@ EXCEPT ![ms.level + 1] = [init |-> s, len |-> what]],
             !.level = @ + 1]
Unopened(r) == IF r.s = NULL THEN [r EXCEPT !.ms.level = @ - 1] ELSE r
start_capture(ms, s, p, what) ==
  IF ms.level >= LUA_MAXCAPTURES THEN luaL_error(ms, "too many captures")
  ELSE Unopened(match(opened(ms, s, what), s, p))

\* Mutant: a capture stays closed when the rest does not match.
StaysClosed(r, l) == r
Unclosed(r, l) == IF r.s = NULL THEN [r EXCEPT !.ms.capture[l].len = CAP_UNFINISHED] ELSE r
closed(ms, s, p, l) ==
  Unclosed(match([ms EXCEPT !.capture[l].len = s - ms.capture[l].init], s, p), l)
end_capture(ms, s, p) ==
  IF unfinished(ms) = {} THEN luaL_error(ms, "invalid pattern capture")
  ELSE closed(ms, s, p, Max(unfinished(ms)))

-----------------------------------------------------------------------------
(* Matching.                                                               *)

\* After the longest run from s to n, or a shorter one.
RECURSIVE longest(_, _, _, _)
longest(ms, s, p, ep) == IF singlematch(ms, s, p, ep) THEN longest(ms, s + 1, p, ep) ELSE s
orshorter(r, s, n, p, ep) ==
  IF r.s # NULL \/ n = s THEN r ELSE max_expand(r.ms, s, n - 1, p, ep)
max_expand(ms, s, n, p, ep) == orshorter(match(ms, n, ep + 1), s, n, p, ep)

orlonger(r, s, p, ep) ==
  IF r.s = NULL /\ singlematch(r.ms, s, p, ep) THEN min_expand(r.ms, s + 1, p, ep) ELSE r
min_expand(ms, s, p, ep) == orlonger(match(ms, s, ep + 1), s, p, ep)

orwithout(r, s, p) == IF r.s # NULL THEN r ELSE domatch(r.ms, s, p)

\* A single character, class or set, and what follows it.
default(ms, s, p, ep) ==
  IF ep = BAD THEN luaL_error(ms, "malformed pattern")
  ELSE IF ~singlematch(ms, s, p, ep)
  THEN IF At(ms.p, ep) \in {"*", "?", "-"} THEN domatch(ms, s, ep + 1) ELSE Result(ms, NULL)
  ELSE CASE At(ms.p, ep) = "?" -> orwithout(match(ms, s + 1, ep + 1), s, ep + 1)
         [] At(ms.p, ep) = "+" -> max_expand(ms, s + 1, longest(ms, s + 1, p, ep), p, ep)
         [] At(ms.p, ep) = "*" -> max_expand(ms, s, longest(ms, s, p, ep), p, ep)
         [] At(ms.p, ep) = "-" -> min_expand(ms, s, p, ep)
         [] OTHER -> domatch(ms, s + 1, ep)

goon(ms, s, p) == IF s = NULL THEN Result(ms, NULL) ELSE domatch(ms, s, p)
frontier(ms, s, p, ep) ==
  IF At(ms.p, p) # "[" \/ ep = BAD THEN luaL_error(ms, "malformed pattern")
  ELSE IF ~matchbracketclass(ms.p, At(ms.src, s - 1), p, ep - 1)
          /\ matchbracketclass(ms.p, At(ms.src, s), p, ep - 1)
       THEN domatch(ms, s, ep) ELSE Result(ms, NULL)
Digits == [d \in {"0", "1", "2"} |-> Uchar(d) - 1]
escaped(ms, s, p) ==
  CASE At(ms.p, p + 1) = "b" ->
         IF p + 2 >= Len(ms.p) THEN luaL_error(ms, "malformed pattern")
         ELSE goon(ms, matchbalance(ms, s, p + 2), p + 4)
    [] At(ms.p, p + 1) = "f" -> frontier(ms, s, p + 2, classend(ms.p, p + 2))
    [] At(ms.p, p + 1) \in DOMAIN Digits ->
         IF ~check_capture(ms, Digits[ms.p[p + 1]]) THEN luaL_error(ms, "invalid capture index")
         ELSE goon(ms, match_capture(ms, s, Digits[ms.p[p + 1]]), p + 2)
    [] OTHER -> default(ms, s, p, classend(ms.p, p))

domatch(ms, s, p) ==
  CASE p > Len(ms.p) -> Result(ms, s)
    [] At(ms.p, p) = "(" ->
         IF At(ms.p, p + 1) = ")" THEN start_capture(ms, s, p + 2, CAP_POSITION)
         ELSE start_capture(ms, s, p + 1, CAP_UNFINISHED)
    [] At(ms.p, p) = ")" -> end_capture(ms, s, p + 1)
    [] At(ms.p, p) = "$" /\ p = Len(ms.p) -> Result(ms, IF s = Len(ms.src) + 1 THEN s ELSE NULL)
    [] At(ms.p, p) = "%" -> escaped(ms, s, p)
    [] OTHER -> default(ms, s, p, classend(ms.p, p))

Left(r) == IF r.s = BAD THEN r ELSE [r EXCEPT !.ms.depth = @ + 1]
match(ms, s, p) ==
  IF ms.depth = 0 THEN luaL_error(ms, "pattern too complex")
  ELSE Left(domatch([ms EXCEPT !.depth = @ - 1], s, p))

-----------------------------------------------------------------------------
(* The functions of the library.  A value is a string, a position or, for  *)
(* an error, BAD.                                                          *)

prepstate(src, p) ==
  [src |-> src, p |-> p, level |-> 0, depth |-> MAXCCALLS, err |-> "",
   capture |-> [l \in 1..LUA_MAXCAPTURES |-> [init |-> 0, len |-> 0]]]
reprepstate(ms) == [ms EXCEPT !.level = 0]

push_onecapture(ms, i, s, e) ==
  CASE i > ms.level /\ i = 1 -> SubSeq(ms.src, s, e - 1)
    [] i > ms.level /\ i > 1 -> BAD
    [] i <= ms.level /\ ms.capture[i].len = CAP_UNFINISHED -> BAD
    [] i <= ms.level /\ ms.capture[i].len = CAP_POSITION -> ms.capture[i].init
    [] OTHER -> Captured(ms, i)
push_captures(ms, s, e, nlevels) == [i \in 1..nlevels |-> push_onecapture(ms, i, s, e)]

\* Where the match begins and ends, and its captures.
Hit(r, s1) ==
  [s |-> s1, e |-> r.s, caps |-> push_captures(r.ms, s1, r.s, Max({1, r.ms.level})), ms |-> r.ms]
RECURSIVE search(_, _, _, _)
orfurther(r, s1, p, anchor) ==
  IF r.s # NULL \/ s1 > Len(r.ms.src) \/ anchor THEN Hit(r, s1) ELSE search(r.ms, s1 + 1, p, anchor)
search(ms, s1, p, anchor) == orfurther(match(reprepstate(ms), s1, p), s1, p, anchor)
anchored(pat) == At(pat, 1) = "^"
NoHit(ms) == [s |-> NULL, e |-> NULL, caps |-> <<>>, ms |-> ms]
lmemfind(src, s2, init) ==
  Min({i \in init..Len(src) - Len(s2) + 1 : SubSeq(src, i, i + Len(s2) - 1) = s2}
      \cup {Len(src) + 2})
Specials == {"^", "$", "*", "+", "?", ".", "(", "[", "%", "-"}
nospecials(pat) == ToSet(pat) \cap Specials = {}
plain(src, pat, i) ==
  IF i > Len(src) + 1 THEN NoHit(prepstate(src, pat))
  ELSE [NoHit(prepstate(src, pat)) EXCEPT !.s = i, !.e = i + Len(pat)]
posrelat(pos, len) == IF pos >= 0 THEN pos ELSE IF -pos > len THEN 0 ELSE len + pos + 1
str_find_aux(src, pat, pos, find) ==
  LET init == Max({1, posrelat(pos, Len(src))})
  IN IF init > Len(src) + 1 THEN NoHit(prepstate(src, pat))
     ELSE IF find /\ nospecials(pat) THEN plain(src, pat, lmemfind(src, pat, init))
     ELSE search(prepstate(src, pat), init, IF anchored(pat) THEN 2 ELSE 1, anchored(pat))

\* One call of the iterator that string.gmatch returns, from src on.
RECURSIVE gmatch_aux(_, _, _)
ornext(r, src, lastmatch) ==
  IF r.s # NULL /\ r.s # lastmatch THEN Hit(r, src) ELSE gmatch_aux(r.ms, src + 1, lastmatch)
gmatch_aux(ms, src, lastmatch) ==
  IF src > Len(ms.src) + 1 THEN [s |-> src, e |-> NULL, caps |-> <<>>, ms |-> ms]
  ELSE ornext(match(reprepstate(ms), src, 1), src, lastmatch)
RECURSIVE allmatches(_, _, _)
andmore(found) ==
  IF found.e = NULL THEN <<>>
  ELSE IF found.e = BAD THEN <<found>>
  ELSE <<found>> \o allmatches(found.ms, found.e, found.e)
allmatches(ms, src, lastmatch) == andmore(gmatch_aux(ms, src, lastmatch))
gmatch(src, pat) == allmatches(prepstate(src, pat), 1, NULL)

\* string.gsub with the replacement "<%0>": the result and the number of matches.
RECURSIVE substitute(_, _, _, _, _, _)
add_s(ms, s, e) == <<"<">> \o SubSeq(ms.src, s, e - 1) \o <<">">>
substituted(r, src, p, lastmatch, b, n) ==
  CASE r.s = BAD -> [b |-> <<>>, n |-> BAD]
    [] r.s \notin {BAD, NULL, lastmatch} ->
         IF anchored(r.ms.p)
         THEN [b |-> b \o add_s(r.ms, src, r.s) \o SubSeq(r.ms.src, r.s, Len(r.ms.src)), n |-> n + 1]
         ELSE substitute(r.ms, r.s, p, r.s, b \o add_s(r.ms, src, r.s), n + 1)
    [] OTHER ->
         IF src > Len(r.ms.src) \/ anchored(r.ms.p)
         THEN [b |-> b \o SubSeq(r.ms.src, src, Len(r.ms.src)), n |-> n]
         ELSE substitute(r.ms, src + 1, p, lastmatch, Append(b, r.ms.src[src]), n)
substitute(ms, src, p, lastmatch, b, n) ==
  substituted(match(reprepstate(ms), src, p), src, p, lastmatch, b, n)
str_gsub(src, pat) ==
  substitute(prepstate(src, pat), 1, IF anchored(pat) THEN 2 ELSE 1, NULL, <<>>, 0)

-----------------------------------------------------------------------------
(* What a pattern promises (LuaPatterns).                                  *)

Begins(items, src, from) == P!Starts(src, items, from, Len(src) + 1, NULL)
TooComplex(r) == r.ms.err = "pattern too complex"

\* string.match and string.find, from any position on, find the first place
\* where the pattern matches, there the match that is preferred, and its
\* captures; backtracking leaves the match state as it was, and what is
\* behind "^" is tried in one place only.  string.find agrees with match, but
\* for a ")" that it takes for a plain character (str_find_aux, match).
FindRight(items, src, pos) ==
  LET pat == P!Text(items)
      from == Max({1, posrelat(pos, Len(src))})
      f == str_find_aux(src, pat, pos, FALSE)
      g == str_find_aux(src, pat, pos, TRUE)
      h == str_find_aux(src, <<"^">> \o pat, pos, FALSE)
      starts == Begins(items, src, from)
      m == P!Match(src, items, Min(starts))
  IN \/ TooComplex(f) \/ TooComplex(h)
     \/ /\ f.e # BAD => f.ms.depth = MAXCCALLS
        /\ ")" \notin ToSet(pat) \/ ~nospecials(pat) => g.e = f.e /\ (f.e # NULL => g.s = f.s)
        /\ IF starts = {} THEN f.e = NULL
           ELSE f.e = m.e /\ f.s = m.s /\ (m.e # -1 => f.caps = P!Values(src, m))
        /\ IF from \in starts THEN h.e = f.e /\ h.caps = f.caps ELSE h.e = NULL

\* gmatch goes through the matches from left to right, without an empty one
\* where the last ended, and gsub replaces the same ones (gmatch_aux, str_gsub).
Bracketed(src, ms) ==
  FlattenSeq([i \in 1..Len(ms) |->
                SubSeq(src, IF i = 1 THEN 1 ELSE ms[i - 1].e, ms[i].s - 1)
                  \o <<"<">> \o SubSeq(src, ms[i].s, ms[i].e - 1) \o <<">">>])
    \o SubSeq(src, IF ms = <<>> THEN 1 ELSE Last(ms).e, Len(src))
GmatchRight(items, src) ==
  LET pat == P!Text(items)
      found == gmatch(src, pat)
      ms == P!Matches(src, items, 1, NULL)
      sub == str_gsub(src, pat)
  IN \/ \E i \in DOMAIN found : TooComplex(found[i])
     \/ TooComplex(str_find_aux(src, pat, 1, FALSE))
     \/ /\ [i \in DOMAIN found |-> found[i].e] = [i \in DOMAIN ms |-> ms[i].e]
        /\ \A i \in DOMAIN ms : ms[i].e = BAD \/ found[i].s = ms[i].s
        /\ IF ms # <<>> /\ Last(ms).e = BAD THEN sub.n = BAD
           ELSE sub = [b |-> Bracketed(src, ms), n |-> Len(ms)]
=============================================================================
