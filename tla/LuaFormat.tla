---------------------------------- MODULE LuaFormat -----------------------------------
(***************************************************************************)
(* script/lua/LuaBuffer.cpp: a script writes values to a Buffer by a       *)
(* format, one letter for each, and reads them back.  Every number passes  *)
(* through a lua_Number on its way in, the 64-bit integers too, which are  *)
(* wider than its mantissa.                                                *)
(*                                                                         *)
(* A buffer is a sequence of cells, <<bits, n>> for an integer of so many  *)
(* bits, <<"flt", q>> and <<"str", s>>; n is Undefined where C++ leaves    *)
(* open what a cast gives.  The widths 8, 16, 32 and 64 are 2, 4, 6 and    *)
(* IntBits here, and a float has two bits less than a double.  Strings     *)
(* are no numerals; NUL is a character.  The buffer takes all that is      *)
(* written (Buffer says how), and is read no further than that.            *)
(***************************************************************************)
EXTENDS LuaNumber

Undefined == 2 ^ 20     \* no integer of a cell
NUL       == "0"
Width(c)  == CASE c \in {"b", "B"} -> 2 [] c \in {"w", "W"} -> 4 [] c \in {"i", "I"} -> 6 [] OTHER -> IntBits
Integral  == {"b", "B", "w", "W", "i", "I", "l", "L"}
Unsigned  == {"B", "W", "I", "L"}
Codes     == Integral \union {"f", "d", "s"}

\* The integers of a letter's type.
InRange(c, n) == IF c \in Unsigned THEN 0 <= n /\ n < 2 ^ Width(c)
                 ELSE - (2 ^ (Width(c) - 1)) <= n /\ n < 2 ^ (Width(c) - 1)

\* lua_tonumber: 0 for what is no number.
lua_tonumber(v) == CASE v[1] = "int" -> cast_num(v[2]) [] v[1] = "flt" -> v[2] [] OTHER -> 0

\* A cast of a double to an integer type drops the fraction; what the type cannot hold is
\* undefined.
CastTo(c, q) ==
    LET n == CQuotient(Real(q), Quarter)
    IN  IF q \in {PosInf, NegInf, NaN} \/ ~ InRange(c, n) THEN Undefined ELSE n

\* A double as a float.
Single(q) ==
    LET k == CHOOSE k \in 1 .. 30 : Magnitude(q) \div 2 ^ (NBM - 2 + k) = 0 /\ Magnitude(q) \div 2 ^ (NBM - 3 + k) # 0
    IN  IF q \in {PosInf, NegInf, NaN, NegZero} \/ Magnitude(q) < 2 ^ (NBM - 2) THEN q
        ELSE nearest(q, 2 ^ k) * 2 ^ k

\* strlen
upToNUL(s) == SubSeq(s, 1, SelectInSeq(s \o <<NUL>>, LAMBDA ch : ch = NUL) - 1)

\* One value to the buffer; ok is FALSE where the method returns, or an error leaves it.
put(buffer, c, v) ==
    CASE c \in Integral -> [ok |-> TRUE, buffer |-> Append(buffer, <<Width(c), CastTo(c, lua_tonumber(v))>>)]
      [] c = "f" -> [ok |-> TRUE, buffer |-> Append(buffer, <<"flt", Single(lua_tonumber(v))>>)]
      [] c = "d" -> [ok |-> TRUE, buffer |-> Append(buffer, <<"flt", lua_tonumber(v)>>)]
      [] c = "s" /\ v[1] = "str" -> [ok |-> TRUE, buffer |-> Append(buffer, <<"str", upToNUL(v[2])>>)]
      [] OTHER -> [ok |-> FALSE, buffer |-> buffer]

\* luaWriteFormat, on a new buffer.
luaWriteFormat(fmt, args) ==
    IF args = <<>> \/ Len(fmt) # Len(args) THEN [ok |-> FALSE, buffer |-> <<>>]
    ELSE FoldLeft(LAMBDA r, i : IF r.ok THEN put(r.buffer, fmt[i], args[i]) ELSE r,
                  [ok |-> TRUE, buffer |-> <<>>], [i \in DOMAIN fmt |-> i])

\* One cell as the letter reads it: its bits, extended by the sign of the letter's type and,
\* in 64 bits, pushed as a lua_Integer.
get(c, cell) ==
    IF c \notin Integral THEN cell
    ELSE IF cell[2] = Undefined THEN <<"int", Undefined>>
    ELSE LET n == cell[2] % 2 ^ Width(c)
         IN  Int_(IF c \in Unsigned THEN signed(n)
                  ELSE IF n < 2 ^ (Width(c) - 1) THEN n ELSE n - 2 ^ Width(c))

\* luaReadFormat: a letter it does not know, and the script gets nothing.
luaReadFormat(fmt, buffer) ==
    IF Range(fmt) \subseteq Codes THEN [i \in DOMAIN fmt |-> get(fmt[i], buffer[i])] ELSE <<>>

---------------------------------------------------------------------------------
\* A number that goes through a lua_Number and a letter's type unchanged.
Fits(c, v) == v[1] = "int" /\ cast_num(v[2]) = Quarter * v[2] /\ InRange(c, v[2])

otherSign(c) == CASE c = "b" -> "B" [] c = "B" -> "b" [] c = "w" -> "W" [] c = "W" -> "w" [] c = "i" -> "I"
                  [] c = "I" -> "i" [] c = "l" -> "L" [] c = "L" -> "l" [] OTHER -> c
otherSigns(fmt) == [i \in DOMAIN fmt |-> otherSign(fmt[i])]

\* With the right number of values, all up to the first letter or value that is wrong are
\* written, else none; and read by the same letters they are what was written, each of them
\* where it fits in its letter, whatever its neighbours do; the letter of the other sign reads
\* the same bits.
FormatAgrees(fmt, args) ==
    LET w     == luaWriteFormat(fmt, args)
        wrong == SelectInSeq([i \in DOMAIN fmt |-> i], LAMBDA i :
                   fmt[i] \notin Codes \/ (fmt[i] = "s" /\ args[i][1] # "str"))
        read  == luaReadFormat(fmt, w.buffer)
    IN  IF Len(fmt) # Len(args) \/ fmt = <<>> THEN w.buffer = <<>>
        ELSE IF wrong # 0 THEN ~ w.ok /\ Len(w.buffer) = wrong - 1
        ELSE /\ w.ok /\ Len(read) = Len(fmt)
             /\ \A i \in DOMAIN fmt :
                  /\ fmt[i] \in Integral /\ Fits(fmt[i], args[i]) => read[i] = args[i]
                  /\ fmt[i] = "d" /\ args[i][1] = "flt" => read[i] = args[i]
                  /\ fmt[i] = "s" /\ NUL \notin Range(args[i][2]) => read[i] = args[i]
                  /\ fmt[i] \in Integral /\ read[i][2] # Undefined =>
                       (read[i][2] - luaReadFormat(otherSigns(fmt), w.buffer)[i][2]) % 2 ^ Width(fmt[i]) = 0
=================================================================================
