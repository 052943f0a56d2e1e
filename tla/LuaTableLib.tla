------------------------------- MODULE LuaTableLib -----------------------------
(***************************************************************************)
(* ltablib.c: sort, which the caller's comparison may lie to, and the      *)
(* functions that shift, copy and unpack ranges of integers that may end   *)
(* at either end of lua_Integer.  A table is a function from all the       *)
(* integers to values; metamethods are left out.                           *)
(***************************************************************************)
EXTENDS Integers, Sequences, SequencesExt, FiniteSetsExt

CONSTANTS MaxInteger,   \* LUA_MAXINTEGER
          IntMax        \* INT_MAX

Integers == - MaxInteger - 1 .. MaxInteger

---------------------------------------------------------------------------------
(* sort.  Less is a comparison, the set of the pairs it is true of.  The      *)
(* result has the array so far and whether the comparison was found invalid.  *)

swap(a, i, j) == [a EXCEPT ![i] = a[j], ![j] = a[i]]

invalid(a) == [a |-> a, p |-> 0, invalid |-> TRUE]

\* The places i may stop at: not less than the pivot, at up - 1, nor past it.
upwards(a, i, up, less) ==
    {k \in i + 1 .. up - 1 : <<a[k], a[up - 1]>> \notin less}

RECURSIVE partition(_, _, _, _, _)
partition(a, i, j, up, less) ==
    LET right == upwards(a, i, up, less)
        i1    == Min(right)
        left  == {k \in Min({i1, j}) - 1 .. j - 1 : <<a[up - 1], a[k]>> \notin less}
        j1    == Max(left)
    IN  IF right = {} THEN invalid(a)
        ELSE IF left = {} THEN invalid(a)
        ELSE IF j1 < i1 THEN [a |-> swap(a, up - 1, i1), p |-> i1, invalid |-> FALSE]
        ELSE partition(swap(a, i1, j1), i1, j1, up, less)

\* The median of the first, the middle and the last is put in the middle.
ordered(a, i, j, less) == IF <<a[j], a[i]>> \in less THEN swap(a, i, j) ELSE a
middle(a, lo, p, up, less) ==
    IF <<a[p], a[lo]>> \in less THEN swap(a, p, lo) ELSE ordered(a, p, up, less)

RECURSIVE auxsort(_, _, _, _)
auxsort(a, lo, up, less) ==
    LET p    == (lo + up) \div 2
        ends == ordered(a, lo, up, less)
        b    == middle(ends, lo, p, up, less)
        r    == partition(swap(b, p, up - 1), lo, up - 1, up, less)
        \* The smaller part is sorted by a call, the other one by the loop.
        low  == auxsort(r.a, lo, r.p - 1, less)
        high == auxsort(r.a, r.p + 1, up, less)
    IN  IF lo >= up THEN [a |-> a, p |-> 0, invalid |-> FALSE]
        ELSE IF up - lo = 1 THEN [a |-> ends, p |-> 0, invalid |-> FALSE]
        ELSE IF up - lo = 2 THEN [a |-> b, p |-> 0, invalid |-> FALSE]
        ELSE IF r.invalid THEN r
        ELSE IF r.p - lo < up - r.p
          THEN IF low.invalid THEN low ELSE auxsort(low.a, r.p + 1, up, less)
          ELSE IF high.invalid THEN high ELSE auxsort(high.a, lo, r.p - 1, less)

sort(a, less) == auxsort(a, 1, Len(a), less)

\* less orders S strictly, up to equivalent elements.
WeakOrder(less, S) ==
    /\ \A x \in S : <<x, x>> \notin less
    /\ \A x, y, z \in S : /\ <<x, y>> \in less /\ <<y, z>> \in less => <<x, z>> \in less
                          /\ <<x, z>> \in less => <<x, y>> \in less \/ <<y, z>> \in less

\* A true order sorts; any other relation at worst is reported, and the array still has the
\* elements it had: none is lost or doubled, none from outside comes in.
SortAgrees(a, less) ==
    LET r == sort(a, less)
        times(b, x) == Cardinality({i \in DOMAIN b : b[i] = x})
    IN  /\ \A x \in Range(a) : times(r.a, x) = times(a, x)
        /\ WeakOrder(less, Range(a)) =>
              /\ ~ r.invalid
              /\ \A i, j \in DOMAIN a : i < j => <<r.a[j], r.a[i]>> \notin less

---------------------------------------------------------------------------------
(* move.                                                                     *)

\* Mutant of forwards: an overlap is copied in increasing order too.
forwardsAlways(f, e, t, other) == TRUE

\* Where the elements may be copied in increasing order: no overlap, or to lower places.
forwards(f, e, t, other) == t > e \/ t <= f \/ other

refused == <<"argument error">>

move(from, to, f, e, t, other) ==
    LET n == e - f + 1
        copy(dest, i) == [dest EXCEPT ![t + i] = IF other THEN from[f + i] ELSE dest[f + i]]
        up   == [k \in 1 .. n |-> k - 1]
    IN  IF e < f THEN to
        ELSE IF ~ (f > 0 \/ e < MaxInteger + f) THEN refused
        ELSE IF ~ (t <= MaxInteger - n + 1) THEN refused
        ELSE FoldLeft(copy, to, IF forwards(f, e, t, other) THEN up ELSE Reverse(up))

\* All at once, wherever source and destination overlap; refused only if the number of
\* elements or the end of the destination is no lua_Integer.
MoveAgrees(from, f, e, t, other) ==
    LET to == IF other THEN [k \in Integers |-> -100] ELSE from
        r  == move(from, to, f, e, t, other)
    IN  IF e >= f /\ (e - f + 1 > MaxInteger \/ t + (e - f) > MaxInteger) THEN r = refused
        ELSE r = [k \in Integers |-> IF k \in t .. t + (e - f) THEN from[f + (k - t)] ELSE to[k]]

---------------------------------------------------------------------------------
(* insert, remove and unpack.                                                *)

insert(t, size, pos, v) ==
    IF ~ (1 <= pos /\ pos <= size + 1) THEN refused
    ELSE [FoldLeft(LAMBDA u, i : [u EXCEPT ![i] = u[i - 1]], t,
                   Reverse([k \in 1 .. size + 1 - pos |-> pos + k])) EXCEPT ![pos] = v]

remove(t, size, pos) ==
    IF pos # size /\ ~ (1 <= pos /\ pos <= size + 1) THEN refused
    ELSE [FoldLeft(LAMBDA u, i : [u EXCEPT ![i] = u[i + 1]], t,
                   [k \in 1 .. size - pos |-> pos + k - 1])
             EXCEPT ![IF pos < size THEN size ELSE pos] = 0]

\* What is removed from a place can be inserted there again, and nothing has changed.
InsertAgrees(s, pos) ==
    LET size == Len(s)
        t    == [k \in Integers |-> IF k \in DOMAIN s THEN s[k] ELSE 0]
        r    == remove(t, size, pos)
    IN  /\ pos \in 1 .. size => insert(r, size - 1, pos, s[pos]) = t
        /\ r # refused => r = [t EXCEPT ![pos] = 0] \/ pos \in 1 .. size

\* The number of elements is counted as a lua_Unsigned, and the last is pushed apart, so
\* that neither the count nor the index overflows.
unpack(t, i, e) ==
    LET n == (e - i) % (2 * (MaxInteger + 1))
    IN  IF i > e THEN <<>>
        ELSE IF n >= IntMax THEN refused
        ELSE Append([k \in 1 .. e - i |-> t[i + k - 1]], t[e])

UnpackAgrees(t, i, e) ==
    unpack(t, i, e) =
        IF e - i >= IntMax THEN refused
        ELSE [k \in 1 .. IF i > e THEN 0 ELSE e - i + 1 |-> t[i + k - 1]]
=================================================================================
