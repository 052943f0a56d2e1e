-------------------------------- MODULE LuaNumber --------------------------------
(***************************************************************************)
(* Numbers in Lua 5.3.4: the arithmetic of lobject.c and lvm.c on integers *)
(* of IntBits bits that wrap around and on floats, the comparisons that    *)
(* never round, the limit of a numeric for, and the libraries math and     *)
(* bit32 built on them.                                                    *)
(*                                                                         *)
(* A number is <<"int", n>> or <<"flt", q>>.  q counts quarters, has at    *)
(* most NBM significant bits (rounded), or is one of the four values that  *)
(* are no quarters: an infinity, NaN or the negative zero.  Overflow of a  *)
(* float to an infinity is left out.                                       *)
(***************************************************************************)
EXTENDS Integers, Sequences, FiniteSets, SequencesExt, FiniteSetsExt, Bitwise

CONSTANTS
    IntBits,    \* bits of a lua_Integer
    NBM,        \* bits of the mantissa of a lua_Number
    NBITS       \* LUA_NBITS, the bits bit32 works on

MaxInt == 2 ^ (IntBits - 1) - 1      \* LUA_MAXINTEGER
MinInt == - (2 ^ (IntBits - 1))      \* LUA_MININTEGER
Word   == 2 ^ IntBits

\* Conversions between signed and unsigned integers.
unsigned(n) == n % Word
signed(n)   == ((n - MinInt) % Word) + MinInt

PosInf  == 1000000
NegInf  == - PosInf
NaN     == PosInf + 1
NegZero == PosInf + 2
Quarter == 4

Infinite(q) == q \in {PosInf, NegInf}
Negative(q) == q < 0 \/ q = NegZero
Real(q)     == IF q = NegZero THEN 0 ELSE q      \* the value, zeros being one
Zero(neg)   == IF neg THEN NegZero ELSE 0
Infinity(neg) == IF neg THEN NegInf ELSE PosInf
Magnitude(n) == IF n < 0 THEN - n ELSE n

(***************************************************************************)
(* The nearest float to n/d quarters, the even one of two.                 *)
(***************************************************************************)
nearest(n, d) == LET f == n \div d
                     r == n % d IN
                 IF 2 * r < d \/ (2 * r = d /\ f % 2 = 0) THEN f ELSE f + 1
rounded(q) == IF Magnitude(q) < 2 ^ NBM THEN q
              ELSE LET k == CHOOSE k \in 1..30 : Magnitude(q) \div 2 ^ (NBM + k) = 0
                                             /\ Magnitude(q) \div 2 ^ (NBM + k - 1) # 0
                   IN  nearest(q, 2 ^ k) * 2 ^ k
cast_num(i) == rounded(Quarter * i)     \* an integer as a float

luai_numunm(a) == IF a = NaN THEN NaN ELSE IF Real(a) = 0 THEN Zero(~ Negative(a)) ELSE - a
luai_numadd(a, b) ==
    IF NaN \in {a, b} \/ (Infinite(a) /\ Infinite(b) /\ a # b) THEN NaN
    ELSE IF Infinite(a) THEN a
    ELSE IF Infinite(b) THEN b
    ELSE IF Real(a) + Real(b) = 0 THEN Zero(a = NegZero /\ b = NegZero)
    ELSE rounded(Real(a) + Real(b))
luai_nummul(a, b) ==
    LET neg == Negative(a) # Negative(b) IN
    IF NaN \in {a, b} \/ (0 \in {Real(a), Real(b)} /\ (Infinite(a) \/ Infinite(b))) THEN NaN
    ELSE IF Infinite(a) \/ Infinite(b) THEN Infinity(neg)
    ELSE LET p == rounded(nearest(Real(a) * Real(b), Quarter)) IN
         IF p = 0 THEN Zero(neg) ELSE p
luai_numdiv(a, b) ==
    LET neg == Negative(a) # Negative(b) IN
    IF \/ NaN \in {a, b} \/ (Infinite(a) /\ Infinite(b)) \/ (Real(a) = 0 /\ Real(b) = 0) THEN NaN
    ELSE IF Infinite(a) \/ Real(b) = 0 THEN Infinity(neg)
    ELSE IF Infinite(b) THEN Zero(neg)
    ELSE LET n == Magnitude(Real(a)) * Quarter
             q == rounded(nearest(n, Magnitude(Real(b)))) IN
         IF q = 0 THEN Zero(neg) ELSE IF neg THEN - q ELSE q
l_floor(q) == IF Infinite(q) \/ q \in {NaN, NegZero} THEN q ELSE q - (q % Quarter)
l_ceil(q)  == luai_numunm(l_floor(luai_numunm(q)))
fmod(a, b) ==      \* the C function: the remainder has the sign of a
    IF NaN \in {a, b} \/ Infinite(a) \/ Real(b) = 0 THEN NaN
    ELSE IF Infinite(b) THEN a
    ELSE LET m == Magnitude(Real(a)) % Magnitude(Real(b)) IN
         IF m = 0 THEN Zero(Negative(a)) ELSE IF Negative(a) THEN - m ELSE m
luai_nummod(a, b) ==
    LET m == fmod(a, b) IN
    IF m # NaN /\ Real(m) # 0 /\ Negative(m) # Negative(b) THEN luai_numadd(m, b) ELSE m
luai_numidiv(a, b) == l_floor(luai_numdiv(a, b))
luai_numlt(a, b) == NaN \notin {a, b} /\ Real(a) < Real(b)
luai_numle(a, b) == NaN \notin {a, b} /\ Real(a) <= Real(b)

----------------------------------------------------------------------------
\* Integers.

\* The quotient and the remainder of C, which round toward zero.
CQuotient(m, n) == LET q == Magnitude(m) \div Magnitude(n) IN IF (m < 0) # (n < 0) THEN - q ELSE q
CRemainder(m, n) == m - n * CQuotient(m, n)

(***************************************************************************)
(* The two operators that may fail are not applied to a zero divisor.      *)
(***************************************************************************)
luaV_div(m, n) == IF n = -1 THEN signed(- m)
                  ELSE LET q == CQuotient(m, n) IN
                       IF (m < 0) # (n < 0) /\ CRemainder(m, n) # 0 THEN q - 1 ELSE q
luaV_mod(m, n) == IF n = -1 THEN 0
                  ELSE LET r == CRemainder(m, n) IN
                       IF r # 0 /\ (m < 0) # (n < 0) THEN r + n ELSE r

luaV_shiftl(x, y) ==
    IF y < 0
    THEN IF y <= - IntBits THEN 0 ELSE signed(unsigned(x) \div 2 ^ (- y))
    ELSE IF y >= IntBits THEN 0 ELSE signed(unsigned(x) * 2 ^ y)

intarith(op, v1, v2) ==
    CASE op = "+"  -> signed(v1 + v2)
      [] op = "-"  -> signed(v1 - v2)
      [] op = "*"  -> signed(v1 * v2)
      [] op = "%"  -> luaV_mod(v1, v2)
      [] op = "//" -> luaV_div(v1, v2)
      [] op = "&"  -> signed(unsigned(v1) & unsigned(v2))
      [] op = "|"  -> signed(unsigned(v1) | unsigned(v2))
      [] op = "~"  -> signed(unsigned(v1) ^^ unsigned(v2))
      [] op = "<<" -> luaV_shiftl(v1, v2)
      [] op = ">>" -> luaV_shiftl(v1, signed(- v2))
      [] op = "unm"  -> signed(- v1)
      [] op = "bnot" -> signed(- v1 - 1)
numarith(op, v1, v2) ==
    CASE op = "+"  -> luai_numadd(v1, v2)
      [] op = "-"  -> luai_numadd(v1, luai_numunm(v2))
      [] op = "*"  -> luai_nummul(v1, v2)
      [] op = "/"  -> luai_numdiv(v1, v2)
      [] op = "//" -> luai_numidiv(v1, v2)
      [] op = "unm" -> luai_numunm(v1)
      [] op = "%"  -> luai_nummod(v1, v2)

Int_(n) == <<"int", n>>
Flt(q)  == <<"flt", q>>
ttisnumber(v) == v[1] \in {"int", "flt"}
tonumber(v) == IF v[1] = "int" THEN cast_num(v[2]) ELSE v[2]

\* A float that is whole and in range is an integer: lua_numbertointeger.
FitsInteger(q) == q # NaN /\ Quarter * MinInt <= Real(q) /\ Real(q) < - (Quarter * MinInt)
\* mode 0 takes integral values only, 1 the floor, 2 the ceiling; {} is failure.
luaV_tointeger(v, mode) ==
    IF v[1] = "int" THEN {v[2]}
    ELSE LET n == v[2]
             f == l_floor(n)
             g == IF n # f /\ mode > 1 THEN luai_numadd(f, Quarter) ELSE f IN
         IF (n # f /\ mode = 0) \/ ~ FitsInteger(g) THEN {} ELSE {Real(g) \div Quarter}
tointeger(v) == luaV_tointeger(v, 0)
TheOne(S) == CHOOSE x \in S : TRUE

IntegerOps == {"&", "|", "~", "<<", ">>", "bnot"}
\* The number an operator gives; {} is an operand it has no number for.
luaO_arith(op, p1, p2) ==
    IF op \in IntegerOps
    THEN {Int_(intarith(op, i, j)) : i \in tointeger(p1), j \in tointeger(p2)}
    ELSE IF op # "/" /\ p1[1] = "int" /\ p2[1] = "int"
    THEN {Int_(intarith(op, p1[2], p2[2]))}
    ELSE {Flt(numarith(op, tonumber(p1), tonumber(p2)))}

----------------------------------------------------------------------------
\* Comparisons.

l_intfitsf(i) == - (2 ^ NBM) <= i /\ i <= 2 ^ NBM
truncated(f) == CQuotient(Real(f), Quarter)
\* Mutant of LTintfloat: as if every integer were a float.
LTintfloatRounded(i, f) == luai_numlt(cast_num(i), f)

\* The integer is converted where that is exact; elsewhere the float is truncated.
LTintfloat(i, f) ==
    IF l_intfitsf(i) THEN luai_numlt(cast_num(i), f)
    ELSE IF luai_numle(- (Quarter * MinInt), f) THEN TRUE
    ELSE IF luai_numlt(Quarter * MinInt, f) THEN i < truncated(f)
    ELSE FALSE
LEintfloat(i, f) ==
    IF l_intfitsf(i) THEN luai_numle(cast_num(i), f)
    ELSE IF luai_numle(- (Quarter * MinInt), f) THEN TRUE
    ELSE IF luai_numle(Quarter * MinInt, f) THEN i <= truncated(f)
    ELSE FALSE

LTnum(l, r) ==
    CASE l[1] = "int" /\ r[1] = "int" -> l[2] < r[2]
      [] l[1] = "int" /\ r[1] = "flt" -> LTintfloat(l[2], r[2])
      [] l[1] = "flt" /\ r[1] = "flt" -> luai_numlt(l[2], r[2])
      [] l[1] = "flt" /\ r[1] = "int" -> l[2] # NaN /\ ~ LEintfloat(r[2], l[2])
LEnum(l, r) ==
    CASE l[1] = "int" /\ r[1] = "int" -> l[2] <= r[2]
      [] l[1] = "int" /\ r[1] = "flt" -> LEintfloat(l[2], r[2])
      [] l[1] = "flt" /\ r[1] = "flt" -> luai_numle(l[2], r[2])
      [] l[1] = "flt" /\ r[1] = "int" -> l[2] # NaN /\ ~ LTintfloat(r[2], l[2])
\* luaV_equalobj on two numbers.
equalnum(l, r) ==
    IF l[1] # r[1] THEN tointeger(l) \cap tointeger(r) # {}
    ELSE IF l[1] = "int" THEN l[2] = r[2]
    ELSE NaN \notin {l[2], r[2]} /\ Real(l[2]) = Real(r[2])

(***************************************************************************)
(* Strings may hold zeros; strcoll compares up to one.  The result is the  *)
(* sign of the comparison.                                                 *)
(***************************************************************************)
segment(s) == SelectInSeq(s \o <<0>>, LAMBDA c : c = 0) - 1      \* strlen
strcoll(l, r) ==
    LET a == SubSeq(l, 1, segment(l))
        b == SubSeq(r, 1, segment(r))
        D == {i \in 1..Max({Len(a), Len(b)}) : i > Len(a) \/ i > Len(b) \/ a[i] # b[i]} IN
    IF D = {} THEN 0
    ELSE LET i == Min(D) IN
         IF i > Len(a) THEN -1 ELSE IF i > Len(b) THEN 1 ELSE IF a[i] < b[i] THEN -1 ELSE 1
RECURSIVE l_strcmp(_, _)
l_strcmp(l, r) ==
    LET temp == strcoll(l, r)
        len  == segment(l) IN
    IF temp # 0 THEN temp
    ELSE IF len = Len(r) THEN (IF len = Len(l) THEN 0 ELSE 1)
    ELSE IF len = Len(l) THEN -1
    ELSE l_strcmp(SubSeq(l, len + 2, Len(l)), SubSeq(r, len + 2, Len(r)))

----------------------------------------------------------------------------
\* The numeric for.

(***************************************************************************)
(* The limit of a loop over integers, and whether the loop stops at once.  *)
(***************************************************************************)
forlimit(obj, step) ==
    LET p == luaV_tointeger(obj, IF step < 0 THEN 2 ELSE 1) IN
    IF p # {} THEN [limit |-> TheOne(p), stopnow |-> FALSE]
    ELSE IF luai_numlt(0, obj[2])
    THEN [limit |-> MaxInt, stopnow |-> step < 0]
    ELSE [limit |-> MinInt, stopnow |-> step >= 0]
\* The bounds of the loop, whose index starts one step before init.
forprep(init, plimit, step) ==
    LET f == forlimit(plimit, step) IN
    [idx |-> signed((IF f.stopnow THEN 0 ELSE init) - step), limit |-> f.limit, step |-> step]
\* One turn: the next index, and whether the body runs with it.
forloop(f) ==
    LET idx == signed(f.idx + f.step) IN
    [runs |-> IF 0 < f.step THEN idx <= f.limit ELSE f.limit <= idx, f |-> [f EXCEPT !.idx = idx]]

----------------------------------------------------------------------------
\* The library math.

pushnumint(q) == IF FitsInteger(q) THEN Int_(Real(q) \div Quarter) ELSE Flt(q)
math_abs(v)   == IF v[1] = "int" THEN Int_(IF v[2] < 0 THEN signed(0 - unsigned(v[2])) ELSE v[2])
                 ELSE Flt(IF Negative(v[2]) THEN luai_numunm(v[2]) ELSE v[2])
math_floor(v) == IF v[1] = "int" THEN v ELSE pushnumint(l_floor(v[2]))
math_ceil(v)  == IF v[1] = "int" THEN v ELSE pushnumint(l_ceil(v[2]))
math_fmod(a, b) ==      \* {}: the argument error for a zero
    IF a[1] = "int" /\ b[1] = "int"
    THEN IF b[2] = 0 THEN {} ELSE IF b[2] = -1 THEN {Int_(0)} ELSE {Int_(CRemainder(a[2], b[2]))}
    ELSE {Flt(fmod(tonumber(a), tonumber(b)))}
math_modf(v) ==
    IF v[1] = "int" THEN <<v, Flt(0)>>
    ELSE LET ip == IF luai_numlt(v[2], 0) THEN l_ceil(v[2]) ELSE l_floor(v[2]) IN
         <<pushnumint(ip), Flt(IF v[2] # NaN /\ Real(v[2]) = Real(ip) THEN 0
                               ELSE luai_numadd(v[2], luai_numunm(ip)))>>
math_ult(a, b) == unsigned(a) < unsigned(b)
math_max(s) == FoldLeft(LAMBDA m, v : IF LTnum(m, v) THEN v ELSE m, Head(s), Tail(s))
math_min(s) == FoldLeft(LAMBDA m, v : IF LTnum(v, m) THEN v ELSE m, Head(s), Tail(s))
\* The integer drawn from [low, up] by the fraction r/draws; {} for an error.
math_random(low, up, r, draws) ==
    IF low > up \/ ~ (low >= 0 \/ up <= MaxInt + low) THEN {}
    ELSE {((r * (signed(up - low) + 1)) \div draws) + low}

----------------------------------------------------------------------------
\* The library bit32, on the low NBITS bits.

trim(x) == x % 2 ^ NBITS
mask(n) == 2 ^ n - 1
ALLONES == mask(NBITS)
b_and(s) == trim(FoldLeft(LAMBDA r, n : r & unsigned(n), Word - 1, s))
b_or(s)  == trim(FoldLeft(LAMBDA r, n : r | unsigned(n), 0, s))
b_xor(s) == trim(FoldLeft(LAMBDA r, n : r ^^ unsigned(n), 0, s))
b_test(s) == b_and(s) # 0
b_not(n) == trim(Word - 1 - unsigned(n))
b_shift(r, i) ==
    IF i < 0
    THEN LET j == signed(- i) IN IF j >= NBITS THEN 0 ELSE trim(r) \div 2 ^ j
    ELSE IF i >= NBITS THEN 0 ELSE trim(r * 2 ^ i)
b_arshift(n, i) ==
    LET r == unsigned(n) IN
    IF i < 0 \/ (r \div 2 ^ (NBITS - 1)) % 2 = 0 THEN b_shift(r, signed(- i))
    ELSE IF i >= NBITS THEN ALLONES
    ELSE trim((r \div 2 ^ i) | (Word - 1 - ALLONES \div 2 ^ i))
b_rot(n, d) ==
    LET r == trim(unsigned(n))
        i == d % NBITS IN
    IF i = 0 THEN r ELSE trim((r * 2 ^ i) | (r \div 2 ^ (NBITS - i)))
fieldargs(f, w) == 0 <= f /\ 0 < w /\ f + w <= NBITS
b_extract(n, f, w) == (trim(unsigned(n)) \div 2 ^ f) & mask(w)
b_replace(n, v, f, w) == LET m == mask(w) IN
    (trim(unsigned(n)) & (Word - 1 - m * 2 ^ f)) | ((trim(unsigned(v)) & m) * 2 ^ f)

----------------------------------------------------------------------------
\* Sizes packed in a byte, and the logarithm that sizes a table.

RECURSIVE int2fb(_, _)
int2fb(x, e) == IF x >= 8 * 16 THEN int2fb((x + 15) \div 16, e + 4)
                ELSE IF x >= 16 THEN int2fb((x + 1) \div 2, e + 1)
                ELSE (e + 1) * 8 + (x - 8)
luaO_int2fb(x) == IF x < 8 THEN x ELSE int2fb(x, 0)
luaO_fb2int(x) == IF x < 8 THEN x ELSE ((x % 8) + 8) * 2 ^ ((x \div 8) - 1)
RECURSIVE ceillog2(_, _)
ceillog2(x, l) == IF x >= 256 THEN ceillog2(x \div 256, l + 8)
                  ELSE l + (CHOOSE k \in 0..8 : x < 2 ^ k /\ (k = 0 \/ x >= 2 ^ (k - 1)))
luaO_ceillog2(x) == ceillog2(x - 1, 0)
----------------------------------------------------------------------------
(***************************************************************************)
(* What is checked.  The value of a number, in quarters, without rounding. *)
(***************************************************************************)
Exact(v) == IF v[1] = "int" THEN Quarter * v[2] ELSE Real(v[2])

(***************************************************************************)
(* An integer and a float compare as the numbers they are, though not      *)
(* every integer is a float; nothing compares with NaN.  (LTnum, LEnum and *)
(* the mixed case of luaV_equalobj.)                                       *)
(***************************************************************************)
ComparesExactly(l, r) ==
    LET nan == <<"flt", NaN>> \in {l, r} IN
    /\ LTnum(l, r) = (~ nan /\ Exact(l) < Exact(r))
    /\ LEnum(l, r) = (~ nan /\ Exact(l) <= Exact(r))
    /\ equalnum(l, r) = (~ nan /\ Exact(l) = Exact(r))

(***************************************************************************)
(* Division rounds to minus infinity, with the remainder that goes with    *)
(* it, for every pair of integers, the quotient that overflows included;   *)
(* and a shift either way is a product or a quotient of words.  (luaV_div, *)
(* luaV_mod, luaV_shiftl.)                                                 *)
(***************************************************************************)
DividesDown(m, n) ==
    /\ n # 0 =>
        LET q == luaV_div(m, n)
            r == luaV_mod(m, n) IN
        /\ signed(q * n + r) = m
        /\ IF n > 0 THEN 0 <= r /\ r < n ELSE n < r /\ r <= 0
        /\ q = signed(IF n > 0 THEN m \div n ELSE (- m) \div (- n))
    /\ luaV_shiftl(m, n) = signed(IF n >= 0 THEN unsigned(m) * 2 ^ Min({n, IntBits})
                                  ELSE unsigned(m) \div 2 ^ Min({- n, IntBits}))

(***************************************************************************)
(* A loop over integers with any limit, an integer, a float in between two *)
(* integers or one out of range, runs its body exactly when its index has  *)
(* not passed the limit.  (forlimit, OP_FORPREP, OP_FORLOOP.)              *)
(***************************************************************************)
LoopStopsAt(init, plimit, step) ==
    LET first == forloop(forprep(init, plimit, step))
        Within(i) == IF step > 0 THEN Quarter * i <= Exact(plimit) ELSE Exact(plimit) <= Quarter * i IN
    /\ first.runs = Within(init)
    /\ first.runs => /\ first.f.idx = init
                     /\ LET next == forloop(first.f) IN
                        next.runs = Within(signed(init + step)) /\ next.f.idx = signed(init + step)

(***************************************************************************)
(* bit32 on the set of the bits of its argument.                           *)
(***************************************************************************)
BitsOf(x) == {i \in 0..NBITS - 1 : (unsigned(x) \div 2 ^ i) % 2 = 1}
Ones(S)   == MapThenSumSet(LAMBDA i : 2 ^ i, S)
BitsAgree(n, v, d, w) ==
    LET B == BitsOf(n)
        V == BitsOf(v)
        All == 0..NBITS - 1
        Moved(k) == {i \in All : i - k \in B} IN
    /\ b_and(<<n, v>>) = Ones(B \cap V) /\ b_or(<<n, v>>) = Ones(B \cup V)
    /\ b_xor(<<n, v>>) = Ones((B \cup V) \ (B \cap V)) /\ b_not(n) = Ones(All \ B)
    /\ b_test(<<n, v>>) = (B \cap V # {})
    /\ b_shift(unsigned(n), d) = Ones(Moved(d))
    /\ b_shift(unsigned(n), signed(- d)) = Ones(Moved(- d))
    /\ b_arshift(n, d) = Ones({i \in All : (IF i + d >= NBITS THEN NBITS - 1 ELSE i + d) \in B})
    /\ b_rot(n, d) = Ones({i \in All : (i - d) % NBITS \in B})
    /\ fieldargs(d, w) =>
        /\ b_extract(n, d, w) = Ones({i \in 0..w - 1 : i + d \in B})
        /\ b_replace(n, v, d, w) =
              Ones({i \in All : IF i \in d..d + w - 1 THEN i - d \in V ELSE i \in B})

(***************************************************************************)
(* A size packed in a byte is never below the size it stands for and       *)
(* wastes less than an eighth; the logarithm is the least that fits.       *)
(***************************************************************************)
SizesFit(x) ==
    /\ LET y == luaO_fb2int(luaO_int2fb(x)) IN x <= y /\ 8 * (y - x) <= x + 7 * (x \div 128)
    /\ x > 0 => x <= 2 ^ luaO_ceillog2(x) /\ (x > 1 => x > 2 ^ (luaO_ceillog2(x) - 1))

(***************************************************************************)
(* Strings with zeros in them have the order of their bytes.  (l_strcmp.)  *)
(***************************************************************************)
StringsOrdered(a, b) ==
    LET Before(l, r) == IsStrictPrefix(l, r) \/
            \E i \in 1..Min({Len(l), Len(r)}) :
               SubSeq(l, 1, i - 1) = SubSeq(r, 1, i - 1) /\ l[i] < r[i] IN
    l_strcmp(a, b) = IF a = b THEN 0 ELSE IF Before(a, b) THEN -1 ELSE 1

(***************************************************************************)
(* The integers nearest to a number, its parts, the absolute value that    *)
(* wraps and the bounds of a draw.  (math.floor, ceil, modf, fmod, abs,    *)
(* ult, min, max, random.)                                                 *)
(***************************************************************************)
MathAgrees(v, u) ==
    LET Holds(n) == n[1] = "int" \/ ~ (n[2] = NaN \/ Infinite(n[2]))      \* a number with a value
        Whole(n) == ~ Holds(n) \/ Exact(n) % Quarter = 0 IN
    /\ Holds(v) => /\ Exact(math_floor(v)) = (Exact(v) \div Quarter) * Quarter
                   /\ Exact(math_ceil(v)) = - ((- Exact(v)) \div Quarter) * Quarter
                   /\ LET p == math_modf(v) IN
                      /\ Exact(p[1]) + Exact(p[2]) = Exact(v) /\ Whole(p[1])
                      /\ Magnitude(Exact(p[2])) < Quarter /\ Exact(p[2]) * Exact(v) >= 0
    /\ math_floor(v)[1] = "flt" => (~ Holds(v) \/ Magnitude(Exact(v)) >= - (Quarter * MinInt))
    /\ math_abs(v)[1] = v[1]
    /\ Holds(v) => Exact(math_abs(v)) = (IF v = Int_(MinInt) THEN Exact(v) ELSE Magnitude(Exact(v)))
    /\ v[1] = u[1] /\ Holds(v) /\ Holds(u) /\ Exact(u) # 0 =>
          \A m \in math_fmod(v, u) : /\ Magnitude(Exact(m)) < Magnitude(Exact(u))
                                     /\ Exact(m) * Exact(v) >= 0
                                     /\ (Exact(v) - Exact(m)) % Magnitude(Exact(u)) = 0
    /\ v[1] = "int" /\ u[1] = "int" =>
          /\ math_ult(v[2], u[2]) = (IF (v[2] < 0) = (u[2] < 0) THEN v[2] < u[2] ELSE u[2] < 0)
          /\ v[2] <= u[2] /\ u[2] - v[2] <= MaxInt =>
                \A n \in UNION {math_random(v[2], u[2], r, 5) : r \in 0..4} : n \in v[2]..u[2]
          /\ v[2] <= u[2] /\ u[2] - v[2] > MaxInt => math_random(v[2], u[2], 0, 5) = {}
    /\ Holds(v) /\ Holds(u) => Exact(math_max(<<v, u>>)) = Max({Exact(v), Exact(u)})
                             /\ Exact(math_min(<<v, u>>)) = Min({Exact(v), Exact(u)})
============================================================================
