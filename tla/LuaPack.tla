-------------------------------- MODULE LuaPack --------------------------------
(***************************************************************************)
(* string.pack, string.packsize and string.unpack (lstrlib.c): formats,    *)
(* alignment, and integers in any number of bytes.                         *)
(*                                                                         *)
(* A format is a sequence of options [o, n]: the letter and the number     *)
(* behind it, -1 for none.  A byte has NB bits, a lua_Integer SZINT bytes. *)
(* A call returns [err, data, ...], and nothing else counts if err # "".   *)
(* Floats are left out.                                                    *)
(***************************************************************************)
EXTENDS Integers, Sequences, SequencesExt, FiniteSetsExt

CONSTANTS NB, SZINT, SZSIZE, MAXINTSIZE, MAXALIGN, MAXSIZE

Bytes == 0..2^NB - 1
SizeOf == [b |-> 1, B |-> 1, h |-> 2, H |-> 2, l |-> SZINT, L |-> SZINT, j |-> SZINT,
           J |-> SZINT, T |-> SZSIZE]
MININT == -(2^(NB * SZINT - 1))
MAXINT == 2^(NB * SZINT - 1) - 1
Unsigned(n) == n % 2^(NB * SZINT)
Signed(n)   == IF n > MAXINT THEN n - 2^(NB * SZINT) ELSE n
IsPower2(n) == \E i \in 0..NB * SZINT : n = 2^i

-----------------------------------------------------------------------------
(* Options.  A header is [islittle, maxalign, err].                        *)

initheader == [islittle |-> TRUE, maxalign |-> 1, err |-> ""]

getnum(opt, df) == IF opt.n = -1 THEN df ELSE opt.n
OutOfLimits(opt, df) == getnum(opt, df) \notin 1..MAXINTSIZE
Kind(o) ==
  CASE o \in {"b", "h", "l", "j", "i"} -> "Kint"
    [] o \in {"B", "H", "L", "J", "T", "I"} -> "Kuint"
    [] o = "s" -> "Kstring"
    [] o = "c" -> "Kchar"
    [] o = "z" -> "Kzstr"
    [] o = "x" -> "Kpadding"
    [] o = "X" -> "Kpaddalign"
    [] OTHER   -> "Knop"
Default == [i |-> 2, I |-> 2, s |-> SZSIZE]    \* an int has two bytes here
Size(opt) ==
  CASE opt.o \in DOMAIN SizeOf -> SizeOf[opt.o]
    [] opt.o \in DOMAIN Default -> getnum(opt, Default[opt.o])
    [] opt.o = "c" -> getnum(opt, -1)
    [] opt.o = "x" -> 1
    [] OTHER -> 0
getoption(h, opt) ==
  CASE opt.o \in DOMAIN Default /\ OutOfLimits(opt, Default[opt.o]) -> [h EXCEPT !.err = "limits"]
    [] opt.o = "!" /\ OutOfLimits(opt, MAXALIGN) -> [h EXCEPT !.err = "limits"]
    [] opt.o = "!" /\ ~OutOfLimits(opt, MAXALIGN) -> [h EXCEPT !.maxalign = getnum(opt, MAXALIGN)]
    [] opt.o = "c" /\ opt.n = -1 -> [h EXCEPT !.err = "missing size"]
    [] opt.o = "<" -> [h EXCEPT !.islittle = TRUE]
    [] opt.o = ">" -> [h EXCEPT !.islittle = FALSE]
    [] OTHER -> h

padding(align, total) == (align - (total % align)) % align
aligned(h, kind, size, align, total) ==
  LET a == Min({align, h.maxalign})
  IN CASE h.err # "" -> [kind |-> kind, h |-> h, size |-> 0, ntoalign |-> 0]
       [] h.err = "" /\ (align <= 1 \/ kind = "Kchar") ->
            [kind |-> kind, h |-> h, size |-> size, ntoalign |-> 0]
       [] h.err = "" /\ align > 1 /\ kind # "Kchar" /\ ~IsPower2(a) ->
            [kind |-> kind, h |-> [h EXCEPT !.err = "not power of 2"], size |-> 0, ntoalign |-> 0]
       [] OTHER -> [kind |-> kind, h |-> h, size |-> size, ntoalign |-> padding(a, total)]

\* The option "X" reads the next one as well, for its size and its effects.
getdetails(h, total, fmt) ==
  LET opt == fmt[1]
      bad == [h EXCEPT !.err = "invalid next option"]
      nxt == getoption(h, fmt[2])
  IN IF opt.o # "X" THEN aligned(getoption(h, opt), Kind(opt.o), Size(opt), Size(opt), total)
     ELSE IF Len(fmt) = 1 THEN aligned(bad, "Kpaddalign", 0, 0, total)
     ELSE IF nxt.err = "" /\ (Kind(fmt[2].o) = "Kchar" \/ Size(fmt[2]) = 0)
          THEN aligned(bad, "Kpaddalign", 0, 0, total)
          ELSE aligned(nxt, "Kpaddalign", 0, Size(fmt[2]), total)
after(fmt) == IF fmt[1].o = "X" THEN SubSeq(fmt, 3, Len(fmt)) ELSE Tail(fmt)
Consumes(kind) == kind \in {"Kint", "Kuint", "Kchar", "Kstring", "Kzstr"}

-----------------------------------------------------------------------------
(* Integers.                                                               *)

Ordered(h, bytes) == IF h.islittle THEN bytes ELSE Reverse(bytes)
\* An integer in more bytes than it has is extended with its sign.
packint(h, n, size, neg) ==
  Ordered(h, [i \in 1..size |-> IF i <= SZINT THEN (Unsigned(n) \div 2^(NB * (i - 1))) % 2^NB
                                ELSE IF neg THEN 2^NB - 1 ELSE 0])
\* What the bytes say, or an error if a lua_Integer cannot say it.
unpackint(h, bytes, issigned) ==
  LET size == Len(bytes)
      limit == Min({size, SZINT})
      b == Ordered(h, bytes)
      res == FoldLeft(LAMBDA x, i : x + b[i] * 2^(NB * (i - 1)), 0, [i \in 1..limit |-> i])
      fill == IF ~issigned \/ Signed(res) >= 0 THEN 0 ELSE 2^NB - 1
  IN CASE size < SZINT -> [err |-> "", n |-> IF issigned /\ res >= 2^(NB * size - 1)
                                             THEN res - 2^(NB * size) ELSE res]
       [] size >= SZINT /\ (\E i \in limit + 1..size : b[i] # fill) -> [err |-> "does not fit", n |-> 0]
       [] OTHER -> [err |-> "", n |-> Signed(res)]

-----------------------------------------------------------------------------
(* The three functions.                                                    *)

Zeros(n) == [i \in 1..n |-> 0]
Failed(err) == [err |-> err, data |-> <<>>]
fits(kind, v, size) ==
  CASE kind = "Kint"  -> size >= SZINT \/ v \in -(2^(NB * size - 1))..2^(NB * size - 1) - 1
    [] kind = "Kuint" -> size >= SZINT \/ Unsigned(v) < 2^(NB * size)
    [] kind = "Kchar" -> Len(v) <= size
    [] kind = "Kstring" -> size >= SZSIZE \/ Len(v) < 2^(NB * size)
    [] kind = "Kzstr" -> 0 \notin ToSet(v)
packed(h, kind, v, size) ==
  CASE kind = "Kint"  -> packint(h, v, size, v < 0)
    [] kind = "Kuint" -> packint(h, v, size, FALSE)
    [] kind = "Kchar" -> v \o Zeros(size - Len(v))
    [] kind = "Kstring" -> packint(h, Len(v), size, FALSE) \o v
    [] kind = "Kzstr" -> v \o <<0>>

RECURSIVE packall(_, _, _, _), sizeall(_, _, _), unpackall(_, _, _, _, _)
packall(h, fmt, args, data) ==
  LET d == getdetails(h, Len(data), fmt)
      start == data \o Zeros(d.ntoalign)
  IN IF fmt = <<>> THEN [err |-> "", data |-> data]
     ELSE CASE d.h.err # "" -> Failed(d.h.err)
            [] d.h.err = "" /\ ~Consumes(d.kind) ->
                 packall(d.h, after(fmt), args, start \o Zeros(d.size))
            [] d.h.err = "" /\ Consumes(d.kind) /\ ~fits(d.kind, Head(args), d.size) ->
                 Failed("overflow")
            [] OTHER -> packall(d.h, after(fmt), Tail(args),
                                start \o packed(d.h, d.kind, Head(args), d.size))
str_pack(fmt, args) == packall(initheader, fmt, args, <<>>)

sizeall(h, fmt, total) ==
  LET d == getdetails(h, total, fmt)
  IN IF fmt = <<>> THEN [err |-> "", n |-> total]
     ELSE IF d.h.err # "" THEN [err |-> d.h.err, n |-> 0]
     ELSE IF total > MAXSIZE - d.size - d.ntoalign THEN [err |-> "too large", n |-> 0]
     ELSE IF d.kind \in {"Kstring", "Kzstr"} THEN [err |-> "variable-length", n |-> 0]
     ELSE sizeall(d.h, after(fmt), total + d.size + d.ntoalign)
str_packsize(fmt) == sizeall(initheader, fmt, 0)

\* Data ends with a NUL that does not belong to it: a string "z" without an
\* end of its own stops there, and pos then lies behind the data.  Lengths and
\* positions are size_t, and a sum of them may wrap; a string that is longer
\* than memory is refused.
SizeT(n) == n % 2^(NB * SZSIZE)
Bytesat(data, pos, n) == SubSeq(data, pos + 1, pos + n)
strlen(data, pos) == Min({i \in 0..Len(data) - pos : pos + i = Len(data) \/ data[pos + i + 1] = 0})
unpackall(h, fmt, data, pos, values) ==
  LET d == getdetails(h, pos, fmt)
      p == pos + d.ntoalign
      int == unpackint(d.h, Bytesat(data, p, d.size), d.kind = "Kint")
      len == SizeT(int.n)
      More(n, value) == unpackall(d.h, after(fmt), data, p + n, Append(values, value))
  IN IF fmt = <<>> THEN [err |-> "", data |-> values, next |-> pos + 1]
     ELSE IF d.h.err # "" THEN Failed(d.h.err)
     ELSE IF p + d.size > Len(data) THEN Failed("data string too short")
     ELSE CASE d.kind \in {"Kint", "Kuint"} ->
                 IF int.err # "" THEN Failed(int.err) ELSE More(d.size, int.n)
            [] d.kind = "Kchar" -> More(d.size, Bytesat(data, p, d.size))
            [] d.kind = "Kstring" ->
                 IF int.err # "" THEN Failed(int.err)
                 ELSE IF SizeT(p + len + d.size) > Len(data) THEN Failed("data string too short")
                 ELSE IF len >= MAXINT THEN Failed("not enough memory")
                 ELSE More(d.size + len, Bytesat(data, p + d.size, len))
            [] d.kind = "Kzstr" -> More(strlen(data, p) + 1, Bytesat(data, p, strlen(data, p)))
            [] OTHER -> unpackall(d.h, after(fmt), data, p + d.size, values)
str_unpack(fmt, data, init) == unpackall(initheader, fmt, data, init - 1, <<>>)

-----------------------------------------------------------------------------
\* What was packed is unpacked, value by value and to the end of the data,
\* with strings "c" padded; packsize says how long it is, when it can; and
\* bytes that are unpacked as integers are packed again to the same bytes.
\* Whatever the data, what is unpacked lies in it, up to the NUL that ends it
\* (str_pack, str_packsize, str_unpack).
Padded(v, size) == v \o Zeros(size - Len(v))
PackInverts(fmt, args) ==
  LET p == str_pack(fmt, args)
      u == str_unpack(fmt, p.data, 1)
      n == str_packsize(fmt)
      values == SelectSeq(fmt, LAMBDA opt : Consumes(Kind(opt.o)))
  IN p.err = "" =>
       /\ u.err = "" /\ u.next = Len(p.data) + 1 /\ Len(u.data) <= Len(args)
       /\ \A i \in DOMAIN u.data :
            \/ u.data[i] = args[i]
            \/ \E opt \in ToSet(values) : opt.o = "c" /\ u.data[i] = Padded(args[i], opt.n)
       /\ n.err = "" => n.n = Len(p.data)
UnpackInverts(o, bytes) ==
  LET u == str_unpack(<<o>>, bytes, 1)
  IN u.err = "" =>
       /\ u.next \in 1..Len(bytes) + IF Kind(o.o) = "Kzstr" THEN 2 ELSE 1
       /\ Kind(o.o) \in {"Kint", "Kuint"} =>
            str_pack(<<o>>, u.data).data = SubSeq(bytes, 1, u.next - 1)
=============================================================================
