--------------------------------- MODULE LuaPack -------------------------------
(***************************************************************************)
(* string.pack, unpack and packsize of lstrlib.c, over bytes of NB bits    *)
(* and integers of SZINT bytes.  A format is a sequence of items, each an  *)
(* option letter and the number behind it, NULL if there is none; an       *)
(* argument is an integer, or a string of bytes (also for a float, which   *)
(* is the bytes it has in memory).  The machine is little-endian.          *)
(***************************************************************************)
EXTENDS Integers, Sequences, SequencesExt, FiniteSetsExt, Null

CONSTANTS NB,           \* CHAR_BIT
          SZINT,        \* SZINT, and sizeof(size_t)
          MAXINTSIZE,
          MAXALIGN,
          MAXSIZE

Base == 2 ^ NB
MC   == Base - 1
Unsigned == Base ^ SZINT                         \* lua_Unsigned wraps here
signed(u) == IF u >= Unsigned \div 2 THEN u - Unsigned ELSE u

ERROR == NULL   \* what a call that raises an error returns

Header == [islittle |-> TRUE, maxalign |-> 1]

---------------------------------------------------------------------------------
(* Options.                                                                  *)

\* The options of a fixed size, shrunk as the integers are.
Fixed == [b |-> <<"int", 1>>, B |-> <<"uint", 1>>, j |-> <<"int", SZINT>>,
          J |-> <<"uint", SZINT>>, T |-> <<"uint", SZINT>>, n |-> <<"float", SZINT>>,
          z |-> <<"zstr", 0>>, x |-> <<"padding", 1>>, X |-> <<"paddalign", 0>>]
Sized == [i |-> "int", I |-> "uint", s |-> "string"]

getoption(h, it) ==
    LET num(df)     == IF it.n = NULL THEN df ELSE it.n
        option(k, size) == [opt |-> k, size |-> size, h |-> h]
        limited(df) == num(df) \in 1 .. MAXINTSIZE
        nop(g)      == [opt |-> "nop", size |-> 0, h |-> g]
    IN  CASE it.c \in DOMAIN Fixed -> option(Fixed[it.c][1], Fixed[it.c][2])
          [] it.c \in DOMAIN Sized /\ limited(SZINT) -> option(Sized[it.c], num(SZINT))
          [] it.c = "c" /\ it.n # NULL -> option("char", it.n)
          [] it.c = "<" -> nop([h EXCEPT !.islittle = TRUE])
          [] it.c = ">" -> nop([h EXCEPT !.islittle = FALSE])
          [] it.c = "!" /\ limited(MAXALIGN) -> nop([h EXCEPT !.maxalign = num(MAXALIGN)])
          [] OTHER -> option("error", 0)

PowersOf2 == {1, 2, 4, 8, 16}

padding(a, total) == (a - (total % a)) % a

\* The option of item i of fmt, the bytes of padding before it, and the next item.
getdetails(h, total, fmt, i) ==
    LET o     == getoption(h, fmt[i])
        x     == getoption(o.h, fmt[i + 1])        \* 'X' aligns for the option behind it
        isX   == o.opt = "paddalign"
        align == IF isX THEN x.size ELSE o.size
        a     == Min({align, o.h.maxalign})
        d(pad) == [opt |-> o.opt, size |-> o.size, h |-> o.h, pad |-> pad,
                   next |-> IF isX THEN i + 2 ELSE i + 1]
        bad   == [d(0) EXCEPT !.opt = "error"]
    IN  IF isX /\ i = Len(fmt) THEN bad
        ELSE IF isX /\ (x.opt \in {"char", "error"} \/ x.size = 0) THEN bad
        ELSE IF align <= 1 \/ o.opt = "char" THEN d(0)
        ELSE IF a \notin PowersOf2 THEN bad
        ELSE d(padding(a, total))

---------------------------------------------------------------------------------
(* pack.                                                                     *)

inOrder(bytes, islittle) == IF islittle THEN bytes ELSE Reverse(bytes)

packint(n, islittle, size, neg) ==
    inOrder([k \in 1 .. size |-> IF k > SZINT THEN IF neg THEN MC ELSE 0
                                 ELSE (n \div Base ^ (k - 1)) % Base], islittle)

copywithendian(bytes, islittle) == inOrder(bytes, islittle)

zeros(n) == [k \in 1 .. n |-> 0]

\* What option d makes of its argument v.
packed(d, v) ==
    LET int(n, neg) == packint(n % Unsigned, d.h.islittle, d.size, neg)
        small == d.size < SZINT
        lim   == IF small THEN Base ^ d.size ELSE Unsigned
    IN  CASE d.opt = "int"   -> IF small /\ ~ (- lim <= 2 * v /\ 2 * v < lim) THEN ERROR
                                ELSE int(v, v < 0)
          [] d.opt = "uint"  -> IF small /\ (v % Unsigned) >= lim THEN ERROR ELSE int(v, FALSE)
          [] d.opt = "float" -> copywithendian(v, d.h.islittle)
          [] d.opt = "char"  -> IF Len(v) > d.size THEN ERROR ELSE v \o zeros(d.size - Len(v))
          [] d.opt = "string" -> IF small /\ Len(v) >= lim THEN ERROR
                                 ELSE int(Len(v), FALSE) \o v
          [] d.opt = "zstr"  -> IF 0 \in Range(v) THEN ERROR ELSE Append(v, 0)

WithArgument == {"int", "uint", "float", "char", "string", "zstr"}

\* str_pack from item i on, with argument arg.  (totalsize is the length of b.)
RECURSIVE packFrom(_, _, _, _, _, _)
packFrom(fmt, args, i, arg, h, b) ==
    LET d    == getdetails(h, Len(b), fmt, i)
        item == CASE d.opt \in WithArgument -> packed(d, args[arg])
                  [] d.opt = "padding" -> <<0>>
                  [] OTHER -> <<>>
    IN  IF i > Len(fmt) THEN b
        ELSE IF d.opt = "error" THEN ERROR
        ELSE IF item = ERROR THEN ERROR
        ELSE packFrom(fmt, args, d.next, IF d.opt \in WithArgument THEN arg + 1 ELSE arg,
                      d.h, b \o zeros(d.pad) \o item)

str_pack(fmt, args) == packFrom(fmt, args, 1, 1, Header, <<>>)

---------------------------------------------------------------------------------
(* packsize.                                                                 *)

RECURSIVE packsizeFrom(_, _, _, _)
packsizeFrom(fmt, i, h, total) ==
    LET d == getdetails(h, total, fmt, i)
    IN  IF i > Len(fmt) THEN total
        ELSE IF d.opt \in {"error", "string", "zstr"} \/ total > MAXSIZE - (d.size + d.pad)
          THEN -1
        ELSE packsizeFrom(fmt, d.next, d.h, total + d.size + d.pad)

str_packsize(fmt) == packsizeFrom(fmt, 1, Header, 0)

---------------------------------------------------------------------------------
(* unpack.                                                                   *)

\* bytes as they lie in the data: an integer, or ERROR.
unpackint(bytes, islittle, size, issigned) ==
    LET str   == inOrder(bytes, islittle)
        limit == Min({size, SZINT})
        res   == MapThenSumSet(LAMBDA k : str[k] * Base ^ (k - 1), 1 .. limit)
        mask  == Base ^ size \div 2
        extra == IF ~ issigned \/ res < Unsigned \div 2 THEN 0 ELSE MC
    IN  IF size < SZINT
          THEN IF issigned /\ res >= mask THEN <<res - 2 * mask>> ELSE <<res>>
        ELSE IF \E k \in limit + 1 .. size : str[k] # extra THEN ERROR
        ELSE <<signed(res)>>

\* str_unpack from item i on, pos bytes into data: the values and the next position.
RECURSIVE unpackFrom(_, _, _, _, _, _)
unpackFrom(fmt, data, i, h, pos, values) ==
    LET d     == getdetails(h, pos, fmt, i)
        p     == pos + d.pad
        at(from, n) == SubSeq(data, from + 1, from + n)
        int   == unpackint(at(p, d.size), d.h.islittle, d.size, d.opt = "int")
        len   == int[1] % Unsigned
        zero  == {k \in p .. Len(data) : k = Len(data) \/ data[k + 1] = 0}
        rest(v, more) ==
            unpackFrom(fmt, data, d.next, d.h, p + d.size + more, values \o v)
    IN  IF i > Len(fmt) THEN [values |-> values, next |-> pos + 1]
        ELSE IF d.opt = "error" THEN ERROR
        ELSE IF p + d.size > Len(data) THEN ERROR
        ELSE IF d.opt \in {"int", "uint", "string"} /\ int = ERROR THEN ERROR
        ELSE CASE d.opt \in {"int", "uint"} -> rest(int, 0)
               [] d.opt = "float"  -> rest(<<copywithendian(at(p, d.size), d.h.islittle)>>, 0)
               [] d.opt = "char"   -> rest(<<at(p, d.size)>>, 0)
               [] d.opt = "string" -> IF (p + len + d.size) % Unsigned > Len(data) THEN ERROR
                                      ELSE rest(<<at(p + d.size, len)>>, len)
               [] d.opt = "zstr"   -> rest(<<at(p, Min(zero) - p)>>, Min(zero) - p + 1)
               [] OTHER -> rest(<<>>, 0)

str_unpack(fmt, data) == unpackFrom(fmt, data, 1, Header, 0, <<>>)

---------------------------------------------------------------------------------
Texts == {"s", "z", "c"}
Numbers == {"b", "B", "j", "J", "T", "i", "I", "n"}

\* The items that take an argument.
Taking(fmt) ==
    LET at == {i \in DOMAIN fmt : /\ fmt[i].c \in Texts \cup Numbers
                                  /\ i > 1 => fmt[i - 1].c # "X"}
    IN  [k \in 1 .. Cardinality(at) |->
            fmt[CHOOSE i \in at : Cardinality({j \in at : j <= i}) = k]]

\* What is packed is unpacked: the same integers and strings, padded to their size where
\* the format has one, from the whole of the data; and packsize, where it has an answer,
\* has foretold its length.
PackAgrees(fmt, args) ==
    LET b == str_pack(fmt, args)
        padded(v, it) == IF it.c = "c" THEN v \o zeros(it.n - Len(v)) ELSE v
    IN  b # ERROR =>
          /\ str_unpack(fmt, b) =
                [values |-> [k \in DOMAIN Taking(fmt) |-> padded(args[k], Taking(fmt)[k])],
                 next   |-> Len(b) + 1]
          /\ str_packsize(fmt) \in {-1, Len(b)}
=================================================================================
