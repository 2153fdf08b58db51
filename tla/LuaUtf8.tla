-------------------------------- MODULE LuaUtf8 --------------------------------
(***************************************************************************)
(* The utf8 library (lutf8lib.c) and the encoding of a code point          *)
(* (luaO_utf8esc).  Strings are sequences of bytes with a NUL behind them, *)
(* positions begin at 1; NIL and ERROR (an error) are no values of the     *)
(* library.                                                                *)
(***************************************************************************)
EXTENDS Integers, Sequences, SequencesExt, FiniteSetsExt

CONSTANT MAXUNICODE

NIL == -1
ERROR == -2
ByteAt(s, i) == IF i \in DOMAIN s THEN s[i] ELSE 0
iscont(c) == c \in 128..191

\* 1 byte, or a first byte that says how many follow and 6 bits in each.
luaO_utf8esc(x) ==
  LET n == Min({i \in 2..4 : x < 2^(5 * i + 1)})
      lead == 256 - 2^(8 - n)
  IN IF x < 128 THEN <<x>>
     ELSE [i \in 1..n |-> IF i = 1 THEN lead + (x \div 64^(n - 1))
                          ELSE 128 + ((x \div 64^(n - i)) % 64)]

limits == <<255, 127, 2047, 65535>>

\* [code, next] of what begins at i, NIL if it is no valid sequence.
ones(c) == Max({n \in 0..7 : c >= 256 - 2^(8 - n)})    \* leading ones of a byte
utf8_decode(s, i) ==
  LET c == ByteAt(s, i)
      count == ones(c) - 1    \* of the bytes that follow
      payload == (c % 2^(6 - count)) * 64^count
                 + FoldLeft(LAMBDA x, j : x * 64 + (ByteAt(s, i + j) % 64), 0, [j \in 1..count |-> j])
      bad == [code |-> NIL, next |-> i]
  IN IF c < 128 THEN [code |-> c, next |-> i + 1]
     ELSE IF count > 3 \/ \E j \in 1..count : ~iscont(ByteAt(s, i + j)) THEN bad
     ELSE IF payload > MAXUNICODE \/ payload <= limits[count + 1] THEN bad
     ELSE [code |-> payload, next |-> i + count + 1]

u_posrelat(pos, len) == IF pos >= 0 THEN pos ELSE IF -pos > len THEN 0 ELSE len + pos + 1

\* utf8.len: the number of characters that begin from posi to posj, or where
\* the first wrong one is.
RECURSIVE counted(_, _, _, _), decoded(_, _, _, _), back(_, _), forth(_, _)
counted(s, i, j, n) ==
  IF i > j THEN [n |-> n, at |-> 0]
  ELSE IF utf8_decode(s, i).code = NIL THEN [n |-> NIL, at |-> i]
  ELSE counted(s, utf8_decode(s, i).next, j, n + 1)
utflen(s, posi, posj) ==
  LET i == u_posrelat(posi, Len(s))
      j == u_posrelat(posj, Len(s))
  IN IF i \notin 1..Len(s) + 1 \/ j > Len(s) THEN [n |-> ERROR, at |-> 0] ELSE counted(s, i, j, 0)

\* utf8.codepoint.
decoded(s, i, j, codes) ==
  IF i > j THEN codes
  ELSE IF utf8_decode(s, i).code = NIL THEN <<ERROR>>
  ELSE decoded(s, utf8_decode(s, i).next, j, Append(codes, utf8_decode(s, i).code))
codepoint(s, posi, pose) ==
  LET i == u_posrelat(posi, Len(s))
      e == u_posrelat(pose, Len(s))
  IN IF i < 1 \/ e > Len(s) THEN <<ERROR>> ELSE decoded(s, i, e, <<>>)

\* utf8.char.
utfchar(codes) ==
  IF \E i \in DOMAIN codes : codes[i] \notin 0..MAXUNICODE THEN <<ERROR>>
  ELSE FlattenSeq([i \in DOMAIN codes |-> luaO_utf8esc(codes[i])])

\* The next character's first byte, before or after i.
back(s, i)  == IF i > 1 /\ iscont(ByteAt(s, i)) THEN back(s, i - 1) ELSE i
forth(s, i) == IF iscont(ByteAt(s, i)) THEN forth(s, i + 1) ELSE i

\* utf8.offset: where the nth character from i on begins.
RECURSIVE backwards(_, _, _), forwards(_, _, _)
backwards(s, i, n) ==
  IF n < 0 /\ i > 1 THEN backwards(s, back(s, i - 1), n + 1) ELSE IF n = 0 THEN i ELSE NIL
forwards(s, i, n) ==
  IF n > 0 /\ i <= Len(s) THEN forwards(s, forth(s, i + 1), n - 1) ELSE IF n = 0 THEN i ELSE NIL
byteoffset(s, n, pos) ==
  LET i == u_posrelat(pos, Len(s))
  IN CASE i \notin 1..Len(s) + 1 -> ERROR
       [] i \in 1..Len(s) + 1 /\ n = 0 -> back(s, i)
       [] i \in 1..Len(s) + 1 /\ n # 0 /\ iscont(ByteAt(s, i)) -> ERROR
       [] OTHER -> IF n < 0 THEN backwards(s, i, n) ELSE forwards(s, i, n - 1)
offset(s, n) == byteoffset(s, n, IF n >= 0 THEN 1 ELSE Len(s) + 1)

\* One call of the iterator of utf8.codes, after the character at n.
iter_aux(s, n) ==
  LET i == IF n = 0 THEN 1 ELSE IF n <= Len(s) THEN forth(s, n + 1) ELSE n
      d == utf8_decode(s, i)
  IN IF i > Len(s) THEN [at |-> NIL, code |-> NIL]
     ELSE IF d.code = NIL \/ iscont(ByteAt(s, d.next)) THEN [at |-> ERROR, code |-> NIL]
     ELSE [at |-> i, code |-> d.code]
RECURSIVE iterated(_, _)
iterated(s, n) ==
  IF iter_aux(s, n).at < 0 THEN <<>>
  ELSE <<iter_aux(s, n)>> \o iterated(s, iter_aux(s, n).at)

-----------------------------------------------------------------------------
\* The characters of a text, put together by utf8.char, are found again by all
\* functions of the library, from the front and from the back (utfchar,
\* codepoint, utflen, byteoffset, iter_aux).
Starts(codes) ==
  [i \in 1..Len(codes) + 1 |-> 1 + Len(utfchar(SubSeq(codes, 1, i - 1)))]
CodesComeBack(codes) ==
  LET s == utfchar(codes)
      n == Len(codes)
  IN /\ codepoint(s, 1, -1) = codes
     /\ utflen(s, 1, -1).n = n
     /\ \A i \in 1..n + 1 : offset(s, i) = Starts(codes)[i]
     /\ \A i \in 1..n : offset(s, i - n - 1) = Starts(codes)[i]
     /\ \A i \in 1..Len(s) : byteoffset(s, 0, i) = Max({p \in ToSet(Starts(codes)) : p <= i})
     /\ offset(s, n + 2) = NIL /\ offset(s, -n - 1) = NIL
     /\ iterated(s, 0) = [i \in 1..n |-> [at |-> Starts(codes)[i], code |-> codes[i]]]

\* Bytes are decoded only if they are what a code point is encoded as: no
\* longer form, none that stops short (utf8_decode, luaO_utf8esc).
Boundaries == {0, 127, 128, 2047, 2048, 65535, 65536, MAXUNICODE}
OnlyShortest(s) ==
  LET d == utf8_decode(s, 1)
  IN IF d.code = NIL
     THEN \A x \in Boundaries : ~IsPrefix(luaO_utf8esc(x), s)
     ELSE d.code \in 0..MAXUNICODE /\ luaO_utf8esc(d.code) = SubSeq(s, 1, d.next - 1)
=============================================================================
