--------------------------------- MODULE LuaLex --------------------------------
(***************************************************************************)
(* llex.c, the numerals of lobject.c, and addquoted of lstrlib.c, which    *)
(* writes what the lexer has to read.  A source is a sequence of bytes;    *)
(* where it is read, p is the current one and EOZ is behind its end.  An   *)
(* integer has the values up to MaxInteger, and wraps.                     *)
(***************************************************************************)
EXTENDS Integers, Sequences, SequencesExt, FiniteSetsExt, Null

CONSTANTS MaxInteger,    \* LUA_MAXINTEGER
          MAXSIGDIG

EOZ == -1
current(s, p) == IF p \in DOMAIN s THEN s[p] ELSE EOZ

\* Characters by their codes.
NL == 10
CR == 13
Newlines == {NL, CR}
Spaces == 9 .. 13 \cup {32}
Controls == 0 .. 31 \cup {127}
Digits == 48 .. 57
DQ == 34
SQ == 39
Minus == 45
Plus == 43
Dot == 46
Eq == 61
Open == 91
Close == 93
Backslash == 92
alphas == 65 .. 90 \cup 97 .. 122 \cup {95}
hexes == Digits \cup 65 .. 70 \cup 97 .. 102
hexavalue(c) == IF c \in Digits THEN c - 48 ELSE (c % 32) + 9

ERROR == NULL      \* what raises an error

\* Tokens are numbers: a character by its code, two by both, and the others.
pair(two) == 256 * two[1] + two[2]
TK_EOS == 1
TK_NAME == 2
TK_STRING == 3
TK_INT == 4
TK_FLT == 5
TK_DOTS == 6
TK_CONCAT == 7

---------------------------------------------------------------------------------
(* Numerals.                                                                 *)

Wrap == 2 * (MaxInteger + 1)
signed(u) == IF u > MaxInteger THEN u - Wrap ELSE u

sign(s) == IF current(s, 1) \in {Minus, Plus} THEN 1 ELSE 0
isneg(s) == current(s, 1) = Minus
ishex(s, p) == current(s, p) = 48 /\ current(s, p + 1) \in {88, 120}

all(s, S) == Range(s) \subseteq S

\* Before one more digit.
tooLarge(a, d, neg) ==
    a >= MaxInteger \div 10
      /\ (a > MaxInteger \div 10 \/ d > (MaxInteger % 10) + (IF neg THEN 1 ELSE 0))

\* The integer a string (without spaces around it) is, or NULL.
l_str2int(s) ==
    LET body == SubSeq(s, sign(s) + 1, Len(s))
        hex  == SubSeq(body, 3, Len(body))
        decimal(a, c) == IF a = NULL THEN NULL
                         ELSE IF tooLarge(a, c - 48, isneg(s)) THEN NULL ELSE 10 * a + (c - 48)
        digits == IF ishex(body, 1) THEN hex ELSE body
        a == IF ishex(body, 1)
               THEN FoldLeft(LAMBDA b, c : (16 * b + hexavalue(c)) % Wrap, 0, hex)
               ELSE FoldLeft(decimal, 0, body)
    IN  IF digits = <<>> \/ ~ all(digits, IF ishex(body, 1) THEN hexes ELSE Digits) THEN NULL
        ELSE IF a = NULL THEN NULL
        ELSE signed(IF isneg(s) THEN (- a) % Wrap ELSE a)

\* Where the digits from p on end, with at most one dot.
mantissa(s, p, S) ==
    LET at == {q \in p .. Len(s) + 1 : /\ \A k \in p .. q - 1 : s[k] \in S \cup {Dot}
                                       /\ Cardinality({k \in p .. q - 1 : s[k] = Dot}) <= 1}
    IN  Max(at)

\* An exponent from p on: its value and where it ends; without digits it is none.
exponent(s, p) ==
    LET neg  == current(s, p) = Minus
        from == IF current(s, p) \in {Minus, Plus} THEN p + 1 ELSE p
        to   == Max({q \in from - 1 .. Len(s) : \A k \in from .. q : s[k] \in Digits})
        v    == FoldLeft(LAMBDA a, c : 10 * a + (c - 48), 0, SubSeq(s, from, to))
    IN  [v |-> IF neg THEN - v ELSE v, end |-> IF to < from THEN NULL ELSE to + 1]

\* lua_strx2number: <<m, e>> stands for m times two to the e; NULL if it is no numeral.
lua_strx2number(s) ==
    LET end    == mantissa(s, 3, hexes)
        digits == SelectSeq(SubSeq(s, 3, end - 1), LAMBDA c : c # Dot)
        dots   == {k \in 3 .. end - 1 : s[k] = Dot}
        after  == IF dots = {} THEN 0 ELSE end - 1 - Min(dots)
        zero   == Max({k \in 0 .. Len(digits) : \A j \in 1 .. k : digits[j] = 48})
        kept   == Min({Len(digits), zero + MAXSIGDIG})
        r      == FoldLeft(LAMBDA a, c : 16 * a + hexavalue(c), 0, SubSeq(digits, 1, kept))
        e      == 4 * (Len(digits) - kept - after)
        x      == exponent(s, end + 1)
    IN  IF digits = <<>> THEN NULL
        ELSE IF current(s, end) \in {80, 112}
          THEN IF x.end = Len(s) + 1 THEN <<r, e + x.v>> ELSE NULL
        ELSE IF end = Len(s) + 1 THEN <<r, e>> ELSE NULL

\* The C library's decimal numerals, in so far as they are some.
lua_str2number(s) ==
    LET end == mantissa(s, 1, Digits)
        x   == exponent(s, end + 1)
    IN  IF \A k \in 1 .. end - 1 : s[k] = Dot THEN NULL
        ELSE IF current(s, end) \in {69, 101} /\ x.end = Len(s) + 1 THEN <<s>>
        ELSE IF end = Len(s) + 1 THEN <<s>> ELSE NULL

luaO_str2num(s) ==
    IF l_str2int(s) # NULL THEN [token |-> TK_INT, v |-> l_str2int(s)]
    ELSE LET f == IF ishex(s, 1) THEN lua_strx2number(s) ELSE lua_str2number(s)
         IN  IF f = NULL THEN ERROR ELSE [token |-> TK_FLT, v |-> f]

---------------------------------------------------------------------------------
(* Parts of tokens.  A result has the place behind what is read and the line.  *)

\* Behind the newline sequence at p.
inclinenumber(s, p) ==
    IF current(s, p + 1) \in Newlines /\ s[p + 1] # s[p] THEN p + 2 ELSE p + 1

\* [=*[ or ]=*]: the number of its = and the place of the second bracket.
skip_sep(s, p) ==
    LET n == Max({k \in 0 .. Len(s) - p : \A j \in 1 .. k : s[p + j] = Eq})
    IN  [sep |-> IF current(s, p + n + 1) = s[p] THEN n ELSE - n - 1, p |-> p + n + 1]

read(v, p, line) == [v |-> v, p |-> p, line |-> line]

RECURSIVE longFrom(_, _, _, _, _)
longFrom(s, p, line, sep, b) ==
    LET c == current(s, p)
        t == skip_sep(s, p)
    IN  IF c = EOZ THEN ERROR
        ELSE IF c = Close
          THEN IF t.sep = sep THEN read(b, t.p + 1, line)
               ELSE longFrom(s, t.p, line, sep, b \o SubSeq(s, p, t.p - 1))
        ELSE IF c \in Newlines THEN longFrom(s, inclinenumber(s, p), line + 1, sep, Append(b, NL))
        ELSE longFrom(s, p + 1, line, sep, Append(b, c))

\* From the second bracket on.
read_long_string(s, p, line, sep) ==
    IF current(s, p + 1) \in Newlines
      THEN longFrom(s, inclinenumber(s, p + 1), line + 1, sep, <<>>)
      ELSE longFrom(s, p + 1, line, sep, <<>>)

Letters == [c \in {97, 98, 102, 110, 114, 116, 118} |->   \* \a \b \f \n \r \t \v
              CASE c = 97 -> 7 [] c = 98 -> 8 [] c = 102 -> 12 [] c = 110 -> 10
                [] c = 114 -> 13 [] c = 116 -> 9 [] c = 118 -> 11]

\* Mutant of inDecimal: a decimal escape goes on as long as there are digits.
inDecimalAll(s, p) == {n \in 1 .. Len(s) - p + 1 : \A k \in 0 .. n - 1 : s[p + k] \in Digits}

\* The digits a decimal escape may have.
inDecimal(s, p) == {n \in 1 .. Min({3, Len(s) - p + 1}) : \A k \in 0 .. n - 1 : s[p + k] \in Digits}

\* Spaces from p on, with their lines.
RECURSIVE zapped(_, _, _)
zapped(s, p, line) ==
    IF current(s, p) \in Newlines THEN zapped(s, inclinenumber(s, p), line + 1)
    ELSE IF current(s, p) \in Spaces THEN zapped(s, p + 1, line)
    ELSE read(<<>>, p, line)

\* The escape sequence whose backslash is before p.  (\u is of LuaUtf8.)
escaped(s, p, line) ==
    LET c == current(s, p)
        n == Max(inDecimal(s, p))
        r == FoldLeft(LAMBDA a, d : 10 * a + (d - 48), 0, SubSeq(s, p, p + n - 1))
    IN  CASE c \in DOMAIN Letters -> read(<<Letters[c]>>, p + 1, line)
          [] c = 120 -> IF current(s, p + 1) \in hexes /\ current(s, p + 2) \in hexes
                          THEN read(<<16 * hexavalue(s[p + 1]) + hexavalue(s[p + 2])>>, p + 3, line)
                          ELSE ERROR
          [] c \in Newlines -> read(<<NL>>, inclinenumber(s, p), line + 1)
          [] c \in {Backslash, DQ, SQ} -> read(<<c>>, p + 1, line)
          [] c = EOZ -> read(<<>>, p, line)
          [] c = 122 -> zapped(s, p + 1, line)
          [] c \in Digits -> IF r > 255 THEN ERROR ELSE read(<<r>>, p + n, line)
          [] OTHER -> ERROR

\* From behind the delimiter on.
RECURSIVE read_string(_, _, _, _, _)
read_string(s, p, line, del, b) ==
    LET c == current(s, p)
        e == escaped(s, p + 1, line)
    IN  IF c = del THEN read(b, p + 1, line)
        ELSE IF c = EOZ \/ c \in Newlines THEN ERROR
        ELSE IF c = Backslash
          THEN IF e = ERROR THEN ERROR ELSE read_string(s, e.p, e.line, del, b \o e.v)
        ELSE read_string(s, p + 1, line, del, Append(b, c))

\* Where the numeral at p ends; whether it is one is asked later.
RECURSIVE numeralEnd(_, _, _)
numeralEnd(s, p, expo) ==
    LET q == IF current(s, p) \in expo
               THEN IF current(s, p + 1) \in {Minus, Plus} THEN p + 2 ELSE p + 1
               ELSE p
    IN  IF current(s, q) \in hexes \cup {Dot} THEN numeralEnd(s, q + 1, expo) ELSE q

read_numeral(s, p) ==
    IF ishex(s, p) THEN numeralEnd(s, p + 2, {80, 112}) ELSE numeralEnd(s, p + 1, {69, 101})

---------------------------------------------------------------------------------
(* Tokens.                                                                   *)

Reserved == {<<105, 102>>, <<111, 114>>}     \* if, or
Double == {<<Eq, Eq>>, <<60, Eq>>, <<60, 60>>, <<62, Eq>>, <<62, 62>>, <<47, 47>>,
           <<126, Eq>>, <<58, 58>>}

token(t, v, p, line) == [t |-> t, v |-> v, p |-> p, line |-> line]

\* The next token at p, ERROR where there is none.
RECURSIVE llex(_, _, _)
llex(s, p, line) ==
    LET c     == current(s, p)
        two   == <<c, current(s, p + 1)>>
        long  == skip_sep(s, p)
        after == skip_sep(s, p + 2)
        text(r) == IF r = ERROR THEN ERROR ELSE token(TK_STRING, r.v, r.p, r.line)
        short == Min({q \in p .. Len(s) + 1 : current(s, q) \in Newlines \cup {EOZ}})
        name  == Max({q \in p .. Len(s) : \A k \in p .. q : s[k] \in alphas \cup Digits})
        end   == read_numeral(s, IF c = Dot THEN p + 1 ELSE p)
        num   == luaO_str2num(SubSeq(s, p, end - 1))
    IN  CASE c \in Newlines -> llex(s, inclinenumber(s, p), line + 1)
          [] c \in Spaces \ Newlines -> llex(s, p + 1, line)
          [] two = <<Minus, Minus>> ->
               IF current(s, p + 2) = Open /\ after.sep >= 0
                 THEN LET r == read_long_string(s, after.p, line, after.sep)
                      IN  IF r = ERROR THEN ERROR ELSE llex(s, r.p, r.line)
                 ELSE llex(s, short, line)
          [] c = Open -> IF long.sep >= 0 THEN text(read_long_string(s, long.p, line, long.sep))
                         ELSE IF long.sep # -1 THEN ERROR
                         ELSE token(Open, <<>>, p + 1, line)
          [] two \in Double -> token(pair(two), <<>>, p + 2, line)
          [] c \in {DQ, SQ} -> text(read_string(s, p + 1, line, c, <<>>))
          [] two = <<Dot, Dot>> -> IF current(s, p + 2) = Dot
                                     THEN token(TK_DOTS, <<>>, p + 3, line)
                                     ELSE token(TK_CONCAT, <<>>, p + 2, line)
          [] c \in Digits \/ (c = Dot /\ two[2] \in Digits) ->
               IF num = ERROR THEN ERROR ELSE token(num.token, num.v, end, line)
          [] c = EOZ -> token(TK_EOS, <<>>, p, line)
          [] c \in alphas ->
               LET w == SubSeq(s, p, name)
               IN  token(IF w \in Reserved THEN pair(w) ELSE TK_NAME, w, name + 1, line)
          [] OTHER -> token(c, <<>>, p + 1, line)

\* All tokens, up to the last or to ERROR.
RECURSIVE tokensFrom(_, _, _)
tokensFrom(s, p, line) ==
    LET t == llex(s, p, line)
    IN  IF t = ERROR THEN <<ERROR>>
        ELSE IF t.t = TK_EOS THEN <<t>> ELSE <<t>> \o tokensFrom(s, t.p, t.line)
tokens(s) == tokensFrom(s, 1, 1)

---------------------------------------------------------------------------------
(* What writes for the lexer.                                                *)

RECURSIVE decimal(_)
decimal(n) == IF n < 10 THEN <<48 + n>> ELSE Append(decimal(n \div 10), 48 + (n % 10))

\* %q of string.format.
addquoted(s) ==
    LET three(n) == IF n < 10 THEN <<48, 48>> ELSE IF n < 100 THEN <<48>> ELSE <<>>
        one(k) == IF s[k] \in {DQ, Backslash, NL} THEN <<Backslash, s[k]>>
                  ELSE IF s[k] \in Controls
                    THEN <<Backslash>>
                           \o (IF current(s, k + 1) \in Digits THEN three(s[k]) ELSE <<>>)
                           \o decimal(s[k])
                  ELSE <<s[k]>>
    IN  <<DQ>> \o FlattenSeq([k \in DOMAIN s |-> one(k)]) \o <<DQ>>

lua_integer2str(n) == IF n < 0 THEN <<Minus>> \o decimal(- n) ELSE decimal(n)

---------------------------------------------------------------------------------
\* What %q writes is one string token, and the string it has been.
QuotedReadsBack(s) ==
    LET t == tokens(addquoted(s)) IN Len(t) = 2 /\ t[1].t = TK_STRING /\ t[1].v = s

\* A decimal numeral is the integer it writes if there is one, from the smallest to the
\* largest; what an integer is converted to is read as that integer again.
NumeralAgrees(s) ==
    LET v == FoldLeft(LAMBDA a, c : 10 * a + (c - 48), 0, SubSeq(s, sign(s) + 1, Len(s)))
        n == IF isneg(s) THEN - v ELSE v
    IN  all(SubSeq(s, sign(s) + 1, Len(s)), Digits) /\ Len(s) > sign(s) =>
          l_str2int(s) = IF n \in - MaxInteger - 1 .. MaxInteger THEN n ELSE NULL

\* The value of a hexadecimal numeral is that of its digits, cut after MAXSIGDIG of them.
HexAgrees(digits, dot, x) ==
    LET codes(t) == [k \in DOMAIN t |-> IF t[k] < 10 THEN 48 + t[k] ELSE 87 + t[k]]
        s == <<48, 120>> \o codes(SubSeq(digits, 1, dot)) \o <<Dot>>
               \o codes(SubSeq(digits, dot + 1, Len(digits))) \o <<112>> \o lua_integer2str(x)
        r == lua_strx2number(s)
        v == FoldLeft(LAMBDA a, d : 16 * a + d, 0, digits)
        e == x - 4 * (Len(digits) - dot)                \* the value is v times 2^e
    IN  IF digits = <<>> THEN r = NULL
        ELSE /\ r[2] >= e
             /\ r[1] * 2 ^ (r[2] - e) <= v
             /\ v < (r[1] + 1) * 2 ^ (r[2] - e)
             /\ r[2] > e => r[1] >= 16 ^ (MAXSIGDIG - 1)

RECURSIVE newlines(_, _)
newlines(s, p) ==
    IF p > Len(s) THEN 0
    ELSE IF s[p] \in Newlines THEN 1 + newlines(s, inclinenumber(s, p))
    ELSE newlines(s, p + 1)

\* Whatever the newlines are in - strings, comments, spaces -, each is counted once.
LinesCounted(s) ==
    LET t == Last(tokens(s)) IN t # ERROR => t.line = 1 + newlines(s, 1)

\* Tokens are read back from what they are written as, whatever stands between them.
TokensReadBack(texts, kinds, between) ==
    LET t == tokens(FlattenSeq([k \in DOMAIN texts |-> texts[k] \o between]))
    IN  /\ ERROR \notin Range(t)
        /\ [k \in 1 .. Len(t) - 1 |-> t[k].t] = kinds
=================================================================================
