------------------------------ MODULE LuaRead ------------------------------
(***************************************************************************)
(* What is read from a C stream: file:read and its formats                 *)
(* (lua/src/liolib.c), the numerals of strings (lobject.c), and the source *)
(* that luaL_loadfilex gives to the parser (lauxlib.c).  A stream is the   *)
(* sequence of the characters that are still to come; l_getc takes the     *)
(* first one and ungetc puts it back.                                      *)
(***************************************************************************)
EXTENDS Integers, Sequences, SequencesExt

CONSTANTS
  LUAL_BUFFERSIZE,   \* characters that read_line and read_all take at a time
  L_MAXLENNUM,       \* the longest numeral that read_number reads
  MAXINTEGER         \* the largest lua_Integer of a numeral, 2^n - 1

FAIL == <<"fail">>      \* stands for a result that is nil
Spaces    == {" ", "\n"}
DecDigits    == {"0", "1", "2", "3", "4", "5", "6", "7", "8", "9"}
HexDigits == DecDigits \cup {"a", "b", "c", "d", "e", "f"}

\* The number of characters from the beginning of s up to the first one that is
\* not in S, and not more than 'most'.
Span(s, S, most) ==
  CHOOSE n \in 0..Len(s) : /\ n <= most /\ \A i \in 1..n : s[i] \in S
                           /\ n = most \/ n = Len(s) \/ s[n + 1] \notin S
From(s, i)  == SubSeq(s, i, Len(s))
First(s, n) == IF Len(s) < n THEN s ELSE SubSeq(s, 1, n)
Taken(r, s, success) == [value |-> r, rest |-> s, success |-> success]

-----------------------------------------------------------------------------
(* file:read.                                                              *)

test_eof(s) == Taken(<<>>, s, s # <<>>)

\* The outer loop fills the buffer again as long as there is no end of line.
RECURSIVE read_line(_, _, _)
read_line(s, chop, b) ==
  LET n == Span(s, {x \in Range(s) : x # "\n"}, LUAL_BUFFERSIZE)
      line == b \o SubSeq(s, 1, n)
  IN CASE n = LUAL_BUFFERSIZE -> read_line(From(s, n + 1), chop, line)
       [] n < LUAL_BUFFERSIZE /\ n < Len(s) ->
            Taken(IF chop THEN line ELSE line \o <<"\n">>, From(s, n + 2), TRUE)
       [] OTHER -> Taken(line, <<>>, line # <<>>)

RECURSIVE read_all(_, _)
read_all(s, b) ==
  LET p == First(s, LUAL_BUFFERSIZE)
  IN IF Len(p) = LUAL_BUFFERSIZE THEN read_all(From(s, Len(p) + 1), b \o p)
     ELSE Taken(b \o p, <<>>, TRUE)

read_chars(s, n) == Taken(First(s, n), From(s, n + 1), s # <<>>)

\* RN: what is still in the stream, with the look-ahead; the buffer, which is
\* invalid after an overflow; and whether the last test succeeded.
nextc(rn) ==
  IF Len(rn.buff) >= L_MAXLENNUM THEN [rn EXCEPT !.valid = FALSE, !.ok = FALSE]
  ELSE [rn EXCEPT !.buff = Append(@, Head(rn.s)), !.s = Tail(@), !.ok = TRUE]
test2(rn, set) ==
  IF rn.s # <<>> /\ Head(rn.s) \in set THEN nextc(rn) ELSE [rn EXCEPT !.ok = FALSE]
RECURSIVE readdigits(_, _, _)
readdigits(rn, set, count) ==
  LET next == test2(rn, set)
  IN IF next.ok THEN readdigits(next, set, count + 1) ELSE [rn |-> next, count |-> count]

\* A whole numeral, as lua_stringtonumber takes it, but for spaces.
NoSign(x) == IF x # <<>> /\ Head(x) \in {"-", "+"} THEN Tail(x) ELSE x
Mantissa(x, set) == \E i \in 0..Len(x) : /\ \A j \in 1..i : x[j] \in set
                                         /\ i = Len(x) \/ (x[i + 1] = "." /\ \A j \in (i + 2)..Len(x) : x[j] \in set)
                                         /\ \E j \in DOMAIN x : x[j] # "."
Exponent(x, mark) ==
  /\ x # <<>> /\ Head(x) = mark
  /\ LET d == NoSign(Tail(x)) IN d # <<>> /\ \A j \in DOMAIN d : d[j] \in DecDigits
Scaled(x, set, mark) ==
  \E i \in 1..Len(x) : Mantissa(SubSeq(x, 1, i), set) /\ (i = Len(x) \/ Exponent(From(x, i + 1), mark))
Hex(x) == Len(x) >= 2 /\ x[1] = "0" /\ x[2] = "x"
IsNumeral(x) ==
  LET u == NoSign(x)
  IN IF Hex(u) THEN Scaled(From(u, 3), HexDigits, "p") ELSE Scaled(u, DecDigits, "e")

\* The parts of a numeral after each other, with the digits counted so far.
DigitSet(hex) == IF hex THEN HexDigits ELSE DecDigits
readexponent(r, hex) ==
  LET mark == test2(r.rn, {IF hex THEN "p" ELSE "e"})
  IN IF r.count = 0 THEN r.rn
     ELSE IF mark.ok THEN readdigits(test2(mark, {"-", "+"}), DecDigits, 0).rn ELSE mark
readfraction(r, hex) ==
  LET point == test2(r.rn, {"."})
  IN readexponent(IF point.ok THEN readdigits(point, DigitSet(hex), r.count) ELSE [r EXCEPT !.rn = point], hex)
readintegral(zero) ==
  LET x == test2(zero, {"x"})
  IN CASE ~zero.ok -> readfraction(readdigits(zero, DecDigits, 0), FALSE)
       [] zero.ok /\ x.ok -> readfraction(readdigits(x, HexDigits, 0), TRUE)
       [] OTHER -> readfraction(readdigits(x, DecDigits, 1), FALSE)
read_number(s) ==
  LET start == From(s, Span(s, Spaces, Len(s)) + 1)
      sign  == test2([s |-> start, buff |-> <<>>, valid |-> TRUE, ok |-> TRUE], {"-", "+"})
      last  == readintegral(test2(sign, {"0"}))
  IN IF last.valid /\ IsNumeral(last.buff) THEN Taken(last.buff, last.s, TRUE)
     ELSE Taken(FAIL, last.s, FALSE)

\* The loop of g_read stops at the first format that fails.
readformat(s, format) ==
  CASE format.o = "n" -> read_number(s)
    [] format.o = "l" -> read_line(s, TRUE, <<>>)
    [] format.o = "L" -> read_line(s, FALSE, <<>>)
    [] format.o = "a" -> read_all(s, <<>>)
    [] format.o = "#" -> IF format.n = 0 THEN test_eof(s) ELSE read_chars(s, format.n)
RECURSIVE readall(_, _, _)
readall(s, formats, results) ==
  IF formats = <<>> THEN [values |-> results, rest |-> s]
  ELSE LET r == readformat(s, Head(formats))
       IN IF r.success THEN readall(r.rest, Tail(formats), Append(results, r.value))
          ELSE [values |-> Append(results, FAIL), rest |-> r.rest]
g_read(s, formats) == IF formats = <<>> THEN readall(s, <<[o |-> "l", n |-> 0]>>, <<>>)
                      ELSE readall(s, formats, <<>>)

\* What the formats promise: a line goes to the first end of line, with it or
\* without it, and a number is the longest sequence of characters that a numeral may
\* begin with, however long lines are and whatever the characters after them.
Viable(x) == IsNumeral(x) \/ IsNumeral(Append(x, "1"))
Promised(s, format) ==
  LET start  == From(s, Span(s, Spaces, Len(s)) + 1)
      line   == Span(s, {x \in Range(s) : x # "\n"}, Len(s))
      digits == CHOOSE n \in 0..Len(start) :
                  /\ \A i \in 1..n : Viable(SubSeq(start, 1, i))
                  /\ n = Len(start) \/ ~Viable(SubSeq(start, 1, n + 1))
      taken  == IF digits > L_MAXLENNUM THEN L_MAXLENNUM ELSE digits
      number == SubSeq(start, 1, digits)
  IN CASE format.o = "n" -> Taken(number, From(start, taken + 1), taken = digits /\ IsNumeral(number))
       [] format.o = "l" -> Taken(First(s, line), From(s, line + 2), s # <<>>)
       [] format.o = "L" -> Taken(First(s, line + 1), From(s, line + 2), s # <<>>)
       [] format.o = "a" -> Taken(s, <<>>, TRUE)
       [] format.o = "#" -> Taken(First(s, format.n), From(s, format.n + 1), s # <<>>)
RECURSIVE PromisedAll(_, _)
PromisedAll(s, formats) ==
  IF formats = <<>> THEN [values |-> <<>>, rest |-> s]
  ELSE LET r == Promised(s, Head(formats))
           more == PromisedAll(r.rest, Tail(formats))
       IN IF r.success THEN [more EXCEPT !.values = <<r.value>> \o @]
          ELSE [values |-> <<FAIL>>, rest |-> r.rest]
ReadRight(s, formats) ==
  g_read(s, formats) = PromisedAll(s, IF formats = <<>> THEN <<[o |-> "l", n |-> 0]>> ELSE formats)

-----------------------------------------------------------------------------
(* l_str2int: a numeral is an integer if it fits, modulo 2^n if it is      *)
(* hexadecimal, and a float otherwise.                                     *)

HexDigit == <<"1", "2", "3", "4", "5", "6", "7", "8", "9", "a", "b", "c", "d", "e", "f">>
Value(c)   == IF c = "0" THEN 0 ELSE CHOOSE d \in DOMAIN HexDigit : HexDigit[d] = c   \* luaO_hexavalue
Wrapped(a) == a % (2 * (MAXINTEGER + 1))
l_castU2S(a)  == IF a > MAXINTEGER THEN a - 2 * (MAXINTEGER + 1) ELSE a
NoInteger  == <<>>

overflows(a, c, neg) ==
  /\ a >= MAXINTEGER \div 10
  /\ a > MAXINTEGER \div 10 \/ Value(c) > (MAXINTEGER % 10) + (IF neg THEN 1 ELSE 0)

l_str2int(s) ==
  LET text == From(s, Span(s, Spaces, Len(s)) + 1)
      neg  == text # <<>> /\ Head(text) = "-"
      u    == NoSign(text)
      hex  == Hex(u)
      d    == IF hex THEN From(u, 3) ELSE u
      n    == Span(d, IF hex THEN HexDigits ELSE DecDigits, Len(d))
      digit(a, c) == CASE hex -> Wrapped(a * 16 + Value(c))
                       [] ~hex /\ (a = -1 \/ overflows(a, c, neg)) -> -1
                       [] OTHER -> a * 10 + Value(c)
      a    == FoldLeft(digit, 0, SubSeq(d, 1, n))
  IN IF n = 0 \/ a = -1 \/ \E i \in (n + 1)..Len(d) : d[i] \notin Spaces THEN NoInteger
     ELSE <<l_castU2S(Wrapped(IF neg THEN -a ELSE a))>>

\* What a numeral stands for, by its digits.
Number(d, base) == FoldLeft(LAMBDA x, i : x + Value(d[i]) * base ^ (Len(d) - i), 0,
                            [i \in DOMAIN d |-> i])
IntegerRight(s) ==
  \A before, after \in 0..Len(s) :
    LET x == SubSeq(s, before + 1, Len(s) - after)
        u == NoSign(x)
        base == IF Hex(u) THEN 16 ELSE 10
        d == IF Hex(u) THEN From(u, 3) ELSE u
        v == Number(d, base) * (IF x[1] = "-" THEN -1 ELSE 1)
    IN /\ before + after < Len(s) /\ d # <<>> /\ Range(d) \subseteq (IF Hex(u) THEN HexDigits ELSE DecDigits)
       /\ \A i \in (1..before) \cup ((Len(s) - after + 1)..Len(s)) : s[i] \in Spaces
       => IF -MAXINTEGER - 1 <= v /\ v <= MAXINTEGER THEN l_str2int(s) = <<v>>
          ELSE IF Hex(u) THEN Wrapped(l_str2int(s)[1]) = Wrapped(v)
          ELSE l_str2int(s) = NoInteger

-----------------------------------------------------------------------------
(* luaL_loadfilex: lf is the stream and the characters read before.        *)

BOM == <<"EF", "BB", "BF">>
EOF == "EOF"
getc(s) == IF s = <<>> THEN [c |-> EOF, s |-> s] ELSE [c |-> Head(s), s |-> Tail(s)]

\* skipBOM gives the first character that is not of the mark.
skipBOM(s) ==
  LET n == CHOOSE n \in 0..3 : /\ n <= Len(s) /\ \A i \in 1..n : s[i] = BOM[i]
                               /\ n = 3 \/ n = Len(s) \/ s[n + 1] # BOM[n + 1]
      next == getc(From(s, n + 1))
  IN [buff |-> IF n = 3 THEN <<>> ELSE SubSeq(BOM, 1, n), c |-> next.c, s |-> next.s, comment |-> FALSE]

\* A first line that begins with '#' is skipped with its end.
skipcomment(s) ==
  LET lf   == skipBOM(s)
      line == Span(lf.s, {x \in Range(lf.s) : x # "\n"}, Len(lf.s))
      next == getc(From(lf.s, line + 2))
  IN IF lf.c = "#" THEN [lf EXCEPT !.c = next.c, !.s = next.s, !.comment = TRUE] ELSE lf

Newline(lf) == IF lf.comment THEN Append(lf.buff, "\n") ELSE lf.buff

\* A binary file is read again from the beginning, as a stream of bytes.
luaL_loadfilex(text) ==
  LET lf   == skipcomment(text)
      buff == IF lf.c = "ESC" THEN lf.buff ELSE Newline(lf)
  IN (IF lf.c = EOF THEN buff ELSE Append(buff, lf.c)) \o lf.s

\* The parser is given the file without the mark and with its first line, if it is
\* a comment, as an empty line; a precompiled chunk follows a comment at once.  (Two
\* characters of the mark and a '#' are no chunk, with and without the rest.)
LoadRight(text) ==
  LET plain == IF IsPrefix(BOM, text) THEN From(text, 4) ELSE text
      line  == Span(plain, {x \in Range(plain) : x # "\n"}, Len(plain))
      rest  == From(plain, line + 2)
  IN text # <<>> /\ plain # <<>> /\ (plain[1] = "EF" => "#" \notin Range(plain)) =>
       luaL_loadfilex(text) =
         IF plain[1] # "#" THEN plain
         ELSE IF rest # <<>> /\ rest[1] = "ESC" THEN rest
         ELSE <<"\n">> \o rest
=============================================================================
