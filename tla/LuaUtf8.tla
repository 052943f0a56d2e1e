--------------------------------- MODULE LuaUtf8 -------------------------------
(***************************************************************************)
(* lutf8lib.c, luaO_utf8esc of lobject.c, and the functions of lstrlib.c   *)
(* that take positions in a string.  A string is a sequence of bytes; a C  *)
(* pointer into it is an index from 0, and behind its end is a zero.       *)
(***************************************************************************)
EXTENDS Integers, Sequences, SequencesExt, FiniteSetsExt, Null

MAXUNICODE == 1114111
ERROR == NULL      \* what a call that raises an error returns

byte(s, i) == IF i < Len(s) THEN s[i + 1] ELSE 0
iscont(s, i) == byte(s, i) \in 128 .. 191

---------------------------------------------------------------------------------
(* One character.                                                            *)

\* luaO_utf8esc: continuation bytes, the last one first, until the rest fits the first byte.
RECURSIVE escape(_, _, _)
escape(x, mfb, tail) ==
    IF x > mfb THEN escape(x \div 64, mfb \div 2, <<128 + (x % 64)>> \o tail)
    ELSE <<254 - 2 * mfb + x>> \o tail

luaO_utf8esc(x) ==
    IF x < 128 THEN <<x>> ELSE escape(x \div 64, 31, <<128 + (x % 64)>>)

\* What a sequence with so many continuation bytes must be above.
limits == <<255, 127, 2047, 65535>>

\* The bits of the first byte from 0x40 down, up to the first that is not set, count the
\* continuation bytes; shifted by as many, what is left of it goes above their bits.
utf8_decode(s, o) ==
    LET c     == byte(s, o)
        unset == {k \in 0 .. 6 : (c \div 2 ^ (6 - k)) % 2 = 0}
        count == IF unset = {} THEN 7 ELSE Min(unset)
        first == ((c * 2 ^ count) % 128) * 2 ^ (5 * count)
        res   == FoldLeft(LAMBDA r, k : r * 64 + (byte(s, o + k) % 64), 0,
                          [k \in 1 .. count |-> k])
    IN  IF c < 128 THEN [val |-> c, next |-> o + 1]
        ELSE IF (\E k \in 1 .. count : ~ iscont(s, o + k)) \/ count > 3 THEN NULL
        ELSE IF first + res > MAXUNICODE \/ first + res <= limits[count + 1] THEN NULL
        ELSE [val |-> first + res, next |-> o + 1 + count]

---------------------------------------------------------------------------------
(* Positions: negative ones count from the end.                              *)

posrelat(pos, len) ==
    IF pos >= 0 THEN pos ELSE IF - pos > len THEN 0 ELSE len + pos + 1

\* The interval that str_sub and str_byte take.
interval(i, j, len) == [from |-> Max({posrelat(i, len), 1}), to |-> Min({posrelat(j, len), len})]

str_sub(s, i, j) == LET r == interval(i, j, Len(s)) IN SubSeq(s, r.from, r.to)

str_reverse(s) == [k \in DOMAIN s |-> s[Len(s) - k + 1]]

\* The length is checked without multiplying; nothing longer than maxsize is made.
str_rep(s, n, sep, maxsize) ==
    IF n <= 0 THEN <<>>
    ELSE IF Len(s) + Len(sep) > maxsize \div n THEN ERROR
    ELSE FoldLeft(LAMBDA b, k : b \o s \o sep, <<>>, [k \in 1 .. n - 1 |-> k]) \o s

---------------------------------------------------------------------------------
(* The library.                                                              *)

\* The values of the characters from position posi to before limit; where decoding fails,
\* bad is the place.
RECURSIVE decoded(_, _, _, _)
decoded(s, o, limit, values) ==
    LET d == utf8_decode(s, o)
    IN  IF o >= limit THEN [values |-> values, bad |-> NULL]
        ELSE IF d = NULL THEN [values |-> values, bad |-> o]
        ELSE decoded(s, d.next, limit, Append(values, d.val))

\* A number, or <<NULL, position>> of the first invalid byte.
utflen(s, i, j) ==
    LET posi == posrelat(i, Len(s))
        posj == posrelat(j, Len(s))
        d    == decoded(s, posi - 1, posj, <<>>)
    IN  IF posi \notin 1 .. Len(s) + 1 \/ posj > Len(s) THEN ERROR
        ELSE IF d.bad # NULL THEN <<NULL, d.bad + 1>> ELSE <<Len(d.values)>>

codepoint(s, i, j) ==
    LET posi == posrelat(i, Len(s))
        pose == posrelat(j, Len(s))
        d    == decoded(s, posi - 1, pose, <<>>)
    IN  IF posi < 1 \/ pose > Len(s) THEN ERROR
        ELSE IF posi > pose THEN <<>>
        ELSE IF d.bad # NULL THEN ERROR ELSE d.values

utfchar(codes) == FlattenSeq([k \in DOMAIN codes |-> luaO_utf8esc(codes[k])])

\* The beginning of the sequence that the byte at o is of, and of the one behind it.
RECURSIVE startOf(_, _)
startOf(s, o) == IF o > 0 /\ iscont(s, o) THEN startOf(s, o - 1) ELSE o
RECURSIVE behind(_, _)
behind(s, o) == IF iscont(s, o) THEN behind(s, o + 1) ELSE o

RECURSIVE moved(_, _, _)
moved(s, n, o) ==
    IF n < 0 /\ o > 0 THEN moved(s, n + 1, startOf(s, o - 1))
    ELSE IF n > 0 /\ o < Len(s) THEN moved(s, n - 1, behind(s, o + 1))
    ELSE IF n = 0 THEN o + 1 ELSE NULL

byteoffset(s, n, i) ==
    LET o == posrelat(i, Len(s)) - 1
    IN  IF o \notin 0 .. Len(s) THEN ERROR
        ELSE IF n = 0 THEN startOf(s, o) + 1
        ELSE IF iscont(s, o) THEN ERROR
        ELSE moved(s, IF n > 0 THEN n - 1 ELSE n, o)

\* iter_aux: the position and the value behind position n, NULL at the end.
iter_aux(s, n) ==
    LET o == IF n = 0 THEN 0 ELSE IF n - 1 < Len(s) THEN behind(s, n) ELSE n - 1
        d == utf8_decode(s, o)
    IN  IF o >= Len(s) THEN NULL
        ELSE IF d = NULL \/ (d # NULL /\ iscont(s, d.next)) THEN <<ERROR>>
        ELSE <<o + 1, d.val>>

RECURSIVE iterated(_, _)
iterated(s, n) ==
    LET r == iter_aux(s, n)
    IN  IF r = NULL THEN <<>> ELSE IF r = <<ERROR>> THEN <<r>> ELSE <<r>> \o iterated(s, r[1])

---------------------------------------------------------------------------------
\* In any bytes, what is decoded is the one encoding of its value, and nothing is read past
\* the ending zero; the functions agree on where the characters are and which bytes are
\* none.
BytesAgree(s) ==
    LET d(o) == utf8_decode(s, o)
        all  == utflen(s, 1, -1)
        it   == iterated(s, 0)
    IN  /\ \A o \in 0 .. Len(s) - 1 : d(o) # NULL =>
              luaO_utf8esc(d(o).val) = SubSeq(s, o + 1, d(o).next)
        /\ (codepoint(s, 1, -1) = ERROR) <=> (all[1] = NULL)
        /\ (all[1] = NULL /\ ~ iscont(s, all[2] - 1)) =>
              it[Len(it)] = <<ERROR>> /\ utflen(s, 1, all[2] - 1) = <<Len(it) - 1>>
        /\ all[1] # NULL => \A k \in DOMAIN it : /\ it[k][2] = codepoint(s, 1, -1)[k]
                                                 /\ it[k][1] = byteoffset(s, k, 1)

\* Encoded values are decoded again, each at the offset of its number, from both ends.
CodesAgree(codes) ==
    LET s == utfchar(codes)
        n == Len(codes)
        start(k) == Len(utfchar(SubSeq(codes, 1, k - 1))) + 1
    IN  /\ codepoint(s, 1, -1) = codes
        /\ utflen(s, 1, -1) = <<n>>
        /\ iterated(s, 0) = [k \in 1 .. n |-> <<start(k), codes[k]>>]
        /\ \A k \in 1 .. n : /\ byteoffset(s, k, 1) = start(k)
                             /\ byteoffset(s, k - n - 1, Len(s) + 1) = start(k)
                             /\ \A o \in start(k) .. start(k + 1) - 1 :
                                   byteoffset(s, 0, o) = start(k)

\* The parts of a string before and from any position make up the string, position -n is
\* the n-th from the end, and a repetition has the length that was checked.
PositionsAgree(s, i, n, maxsize) ==
    /\ i # -1 => str_sub(s, 1, i) \o str_sub(s, i + 1, -1) = s
    /\ i < 0 => str_sub(s, i, -1) = str_reverse(str_sub(str_reverse(s), 1, - i))
    /\ str_rep(s, n, <<0>>, maxsize) # ERROR =>
          Len(str_rep(s, n, <<0>>, maxsize)) <= maxsize
=================================================================================
