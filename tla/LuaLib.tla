---------------------------------- MODULE LuaLib --------------------------------
(***************************************************************************)
(* The pure parts of Lua - its numbers, its lexer and its libraries, and   *)
(* what its compiler and virtual machine make of a program - on            *)
(* every input of a bounded set: a behaviour chooses a case, and its       *)
(* states are the inputs.                                                  *)
(***************************************************************************)
EXTENDS Integers, Sequences, SequencesExt, Null

CONSTANTS
    IntBits, NBM, NBITS,                       \* LuaNumber's
    MAXSIGDIG,                                 \* LuaLex's
    NB, SZINT, MAXINTSIZE, MAXALIGN, MAXSIZE,  \* LuaPack's
    MaxCaptures, MaxDepth,                     \* LuaPattern's
    MaxIndex, IntMax,                          \* LuaTableLib's MaxInteger and IntMax
    MAXINDEXRK, LFIELDS_PER_FLUSH,             \* LuaCode's
    LUAI_MAXSHORTLEN,                          \* LuaDump's
    StackSize, MAXTAGLOOP, StepBits, Fuel      \* LuaVM's and LuaMeaning's

VARIABLE lib_case   \* <<>>, <<a kind>>, or a kind and an input

Num  == INSTANCE LuaNumber
Lex  == INSTANCE LuaLex WITH MaxInteger <- 2 ^ (IntBits - 1) - 1
Pack == INSTANCE LuaPack
Utf8 == INSTANCE LuaUtf8
Pat  == INSTANCE LuaPattern
Fmt  == INSTANCE LuaFormat
Tab  == INSTANCE LuaTableLib WITH MaxInteger <- MaxIndex
Prog == INSTANCE LuaPrograms

Kinds == {"compare", "math", "divide", "loop", "bits", "size", "order",
          "quote", "numeral", "hex", "lines", "tokens",
          "pack", "bytes", "codes", "positions", "pattern", "scan", "format",
          "sort", "badsort", "move", "insert", "unpack",
          "conditions", "operators", "assignments", "loops", "gotos", "lists", "metamethods", "chunks"}

LibInit == lib_case = <<>>

upTo(n, S) == UNION {[1 .. i -> S] : i \in 0 .. n}

\* The next state is the kind k with the input x.
Input(x) == lib_case' = Append(lib_case, x)
Chosen(k) == lib_case = <<k>>

---------------------------------------------------------------------------------
(* Numbers.                                                                  *)

Ints == {-128, -127, -65, -33, -32, -7, -2, -1, 0, 1, 2, 3, 7, 31, 32, 33, 34, 63, 64, 65,
         126, 127}

\* In quarters; rounding makes each a number of NBM bits.
Flts == {Num!rounded(q) : q \in {-2000, -516, -512, -508, -132, -128, -10, -4, -1, 1, 2, 4, 6,
                                 10, 128, 132, 134, 136, 140, 142, 256, 504, 508, 512, 516,
                                 1000}}
        \cup {0, Num!PosInf, Num!NegInf, Num!NaN, Num!NegZero}
Nums == {Num!Int_(n) : n \in Ints} \cup {Num!Flt(q) : q \in Flts}

NumberCase ==
    \/ Chosen("compare") /\ \E l \in Nums, r \in Nums : Input(<<l, r>>)
    \/ Chosen("math") /\ \E l \in Nums, r \in Nums : Input(<<l, r>>)
    \/ Chosen("divide") /\ \E a \in Ints \cup -9 .. 9, b \in Ints \cup -9 .. 9 : Input(<<a, b>>)
    \/ Chosen("loop") /\ \E l \in Nums \ {Num!Flt(Num!NaN)}, i \in Ints,
                            s \in {-128, -2, -1, 1, 3, 127} : Input(<<i, l, s>>)
    \/ Chosen("bits") /\ \E n \in {-3, -1, 0, 1, 5, 6, 8, 9, 10, 15, 21}, v \in {0, 1, 5, 10, 15, 20},
                            d \in -6 .. 6, w \in 0 .. 5 : Input(<<n, v, d, w>>)
    \/ Chosen("size") /\ \E x \in 0 .. 600 : Input(x)
    \/ Chosen("order") /\ \E a \in upTo(3, 0 .. 2), b \in upTo(3, 0 .. 2) : Input(<<a, b>>)

NumberAgrees(k, x) ==
    CASE k = "compare" -> Num!ComparesExactly(x[1], x[2])
      [] k = "math"    -> Num!MathAgrees(x[1], x[2])
      [] k = "divide"  -> Num!DividesDown(x[1], x[2])
      [] k = "loop"    -> Num!LoopStopsAt(x[1], x[2], x[3])
      [] k = "bits"    -> Num!BitsAgree(x[1], x[2], x[3], x[4])
      [] k = "size"    -> Num!SizesFit(x)
      [] k = "order"   -> Num!StringsOrdered(x[1], x[2])
      [] OTHER         -> TRUE

---------------------------------------------------------------------------------
(* Texts.  Characters are bytes: 10 and 13 the line breaks, 34 the quote,    *)
(* 45 -, 46 ., 48 to 57 the digits, 61 =, 91 [, 92 \, 93 ], 101 e, 120 x.    *)

\* Words of the language, and the kinds of token they are.
Words == << <<105, 102>>, <<97>>, <<49>>, <<49, 46, 49, 101, 50>>, <<46, 49>>, <<34, 97, 34>>,
            <<91, 61, 91, 93, 93, 61, 93>>, <<46, 46>>, <<46, 46, 46>>, <<60, 61>>, <<45>>,
            <<91>>, <<48, 120, 65>> >>
WordKinds == << Lex!pair(<<105, 102>>), Lex!TK_NAME, Lex!TK_INT, Lex!TK_FLT, Lex!TK_FLT,
                Lex!TK_STRING, Lex!TK_STRING, Lex!TK_CONCAT, Lex!TK_DOTS, Lex!pair(<<60, 61>>),
                45, 91, Lex!TK_INT >>
\* Spaces, line breaks and comments between two words.
Blanks == {<<32>>, <<10>>, <<13, 10>>, <<32, 45, 45, 97, 10>>, <<32, 45, 45, 91, 91, 10, 93, 93>>}

TextCase ==
    \/ Chosen("quote") /\ \E f \in upTo(3, {34, 92, 10, 13, 0, 1, 127, 49, 97, 120}) : Input(f)
    \/ Chosen("numeral") /\ \E f \in upTo(3, {48, 49, 50, 51, 55, 56, 57}),
                               g \in {<<>>, <<43>>, <<45>>} : Input(g \o f)
    \/ Chosen("hex") /\ \E f \in upTo(3, {0, 1, 10}), x \in {-2, 0, 1} :
                           \E d \in 0 .. Len(f) : Input(<<f, d, x>>)
    \/ Chosen("lines") /\ \E f \in upTo(4, {45, 91, 61, 93, 10, 13, 34, 92, 122, 49}) : Input(f)
    \/ Chosen("tokens") /\ \E f \in upTo(3, DOMAIN Words), b \in Blanks : Input(<<f, b>>)

TextAgrees(k, x) ==
    CASE k = "quote"   -> Lex!QuotedReadsBack(x)
      [] k = "numeral" -> Lex!NumeralAgrees(x)
      [] k = "hex"     -> Lex!HexAgrees(x[1], x[2], x[3])
      [] k = "lines"   -> Lex!LinesCounted(x)
      [] k = "tokens"  -> Lex!TokensReadBack([i \in DOMAIN x[1] |-> Words[x[1][i]]],
                                             [i \in DOMAIN x[1] |-> WordKinds[x[1][i]]], x[2])
      [] OTHER         -> TRUE

---------------------------------------------------------------------------------
(* Strings.                                                                  *)

item(x, n) == [c |-> x, n |-> n]
PackItems == {item("b", NULL), item("J", NULL), item("n", NULL), item("i", 3), item("I", 4),
              item("s", 1), item("z", NULL), item("c", 2), item("x", NULL), item("X", NULL),
              item(">", NULL), item("!", NULL), item("!", 4)}

\* An argument of each item that takes one.
PackArguments(f) ==
    LET w == Pack!Taking(f)
    IN  {[k \in DOMAIN w |-> IF w[k].c \in Pack!Texts THEN s ELSE IF w[k].c = "n" THEN <<k, 3>> ELSE i[k]]
           : i \in [DOMAIN w -> {-8, 1, 7}], s \in {<<>>, <<2, 0>>}}

\* What a script writes by a format; 127 has more bits than a float.
FormatValues == {Num!Int_(n) : n \in {-128, -8, -1, 0, 7, 8, 127}} \union {Num!Flt(6), Num!Flt(Num!NaN)}
                \union {<<"str", <<"a">> >>, <<"str", <<"a", "0", "b">> >>, <<"nil", 0>>}

LeadBytes == {0, 65, 127, 128, 143, 144, 191, 192, 194, 223, 224, 239, 240, 244, 245, 252}
TailBytes == {65, 127, 128, 143, 144, 191, 192}

\* Pieces of patterns, which make up those matched against Subjects, and some patterns with
\* %b and %f, or malformed.
PatternTokens == {<<"a">>, <<"b">>, <<"(">>, <<")">>, <<"(", ")">>, <<".", "*">>, <<"a", "-">>,
                  <<"b", "?">>, <<"%", "1">>, <<"[", "^", "a", "]">>}
Subjects == {<<>>, <<"a", "b">>, <<"a", "a", "b">>}
PatternScans == {<<"%", "b", "a", "b">>, <<"%", "f", "[", "a", "]">>, <<"(", "%", "f", "[", "b", "]", ")">>,
                 <<"%", "b", "a">>, <<"(", "a">>, <<"a", ")">>, <<"%">>, <<"[", "a">>, <<"%", "1">>,
                 <<"%", "f", "a">>, <<"(", "%", "b", "(", "a", ")">>, <<"(", ".", "-", ")", "%", "b", "a", "a">>}
flat(t) == FlattenSeq(t)

StringCase ==
    \/ Chosen("pack") /\ \E f \in [1 .. 3 -> PackItems] : \E a \in PackArguments(f) : Input(<<f, a>>)
    \/ Chosen("format") /\ \E f \in upTo(2, Fmt!Codes \union {"v"}), a \in upTo(2, FormatValues) : Input(<<f, a>>)
    \/ Chosen("bytes") /\ \E b \in LeadBytes, f \in upTo(3, TailBytes) : Input(<<b>> \o f)
    \/ Chosen("codes") /\ \E f \in upTo(3, {0, 127, 128, 2047, 2048, 65535, 65536, 1114111}) : Input(f)
    \/ Chosen("positions") /\ \E m \in 0 .. 3, i \in -5 .. 5, n \in -1 .. 5 :
                                 Input(<<[k \in 1 .. m |-> k], i, n>>)
    \/ Chosen("pattern") /\ \E n \in 0 .. 4 : \E t \in [1 .. n -> PatternTokens], s \in Subjects :
                               Pat!WellFormed(flat(t)) /\ Input(<<s, flat(t)>>)
    \/ Chosen("scan") /\ \E p \in PatternScans, s \in upTo(4, {"a", "b", "("}) : Input(<<s, p>>)

StringAgrees(k, x) ==
    CASE k = "pack"      -> Pack!PackAgrees(x[1], x[2])
      [] k = "format"    -> Fmt!FormatAgrees(x[1], x[2])
      [] k = "bytes"     -> Utf8!BytesAgree(x)
      [] k = "codes"     -> Utf8!CodesAgree(x)
      [] k = "positions" -> Utf8!PositionsAgree(x[1], x[2], x[3], 6)
      [] OTHER           -> TRUE

PatternAgrees(k, x) ==
    CASE k = "pattern" -> Pat!PatternAgrees(x[1], x[2])
      [] k = "scan"    -> Pat!PatternEnds(x[1], x[2])
      [] OTHER         -> TRUE

---------------------------------------------------------------------------------
(* Tables.                                                                   *)

same == [k \in Tab!Integers |-> k]

\* Orders on 1 .. n; also what is no order, which a script may give sort as well.
Relations(n) == SUBSET ((1 .. n) \X (1 .. n))
Orders(n) == {r \in Relations(n) : Tab!WeakOrder(r, 1 .. n)}

TableCase ==
    \/ Chosen("sort") /\ \E a \in upTo(5, 1 .. 3), l \in Orders(3) : Input(<<a, l>>)
    \/ Chosen("badsort") /\ \E a \in [1 .. 6 -> 1 .. 2], l \in Relations(2) : Input(<<a, l>>)
    \/ Chosen("move") /\ \E f \in Tab!Integers, e \in Tab!Integers, t \in Tab!Integers,
                            b \in BOOLEAN : Input(<<f, e, t, b>>)
    \/ Chosen("insert") /\ \E s \in upTo(3, 1 .. 3), p \in -1 .. 5 : Input(<<s, p>>)
    \/ Chosen("unpack") /\ \E i \in Tab!Integers, e \in Tab!Integers : Input(<<i, e>>)

TableAgrees(k, x) ==
    CASE k \in {"sort", "badsort"} -> Tab!SortAgrees(x[1], x[2])
      [] k = "move"   -> Tab!MoveAgrees(same, x[1], x[2], x[3], x[4])
      [] k = "insert" -> Tab!InsertAgrees(x[1], x[2])
      [] k = "unpack" -> Tab!UnpackAgrees(same, x[1], x[2])
      [] OTHER        -> TRUE

---------------------------------------------------------------------------------
(* Programs.                                                                 *)

ProgramCase ==
    \/ Chosen("conditions") /\ \E b \in Prog!Conditions : Input(b)
    \/ Chosen("operators") /\ \E b \in Prog!Operators : Input(b)
    \/ Chosen("assignments") /\ \E b \in Prog!Assignments : Input(b)
    \/ Chosen("loops") /\ \E b \in Prog!Loops : Input(b)
    \/ Chosen("gotos") /\ \E b \in Prog!Gotos : Input(b)
    \/ Chosen("lists") /\ \E b \in Prog!Lists : Input(b)
    \/ Chosen("metamethods") /\ \E b \in Prog!Metamethods : Input(b)
    \/ Chosen("chunks") /\ \E n \in {0, 40, 41, 253, 254, 300}, o \in {"source", "other"},
                              s \in BOOLEAN : Input(<<n, o, s>>)

ProgramAgrees(k, x) ==
    CASE k \in {"conditions", "operators", "assignments", "loops", "gotos", "lists", "metamethods"} ->
           Prog!ProgramAgrees(x)
      [] k = "chunks" -> Prog!ChunkAgrees(x[1], x[2], x[3])
      [] OTHER        -> TRUE

---------------------------------------------------------------------------------
LibNext ==
    \/ lib_case = <<>> /\ \E k \in Kinds : Input(k)
    \/ NumberCase
    \/ TextCase
    \/ StringCase
    \/ TableCase
    \/ ProgramCase

Judged(Agrees(_, _)) == Len(lib_case') = 2 => Agrees(lib_case'[1], lib_case'[2])

\* Integers and floats compare as the numbers they are, division rounds down, loops stop at
\* their limits, and the other operations give what mathematics says.
NumbersAgree == [][Judged(NumberAgrees)]_lib_case

\* What %q writes, the lexer reads back; a numeral is the number it spells, unless that does
\* not fit; lines are counted and tokens told apart wherever breaks and comments are.
TextsReadBack == [][Judged(TextAgrees)]_lib_case

\* A match is the preferred one of those the pattern has, with the captures of its own path.
\* What pack writes, unpack reads, and what a script writes to a Buffer by a format, it reads
\* where it fits its letters; UTF-8 is decoded where it is valid and refused elsewhere; sort
\* sorts, or finds the comparison invalid; moves keep what they overlap.
LibrariesAgree == [][Judged(PatternAgrees) /\ Judged(StringAgrees) /\ Judged(TableAgrees)]_lib_case

\* The parser refuses a program exactly when the manual does; otherwise what the compiled
\* program emits, and whether it fails, is what the program means: whatever registers and
\* jumps its code uses, and wherever a yield or an error interrupts it.  A function that is
\* dumped loads again as the same code, and a chunk cut short or of another build is refused.
CompiledRuns == [][Judged(ProgramAgrees)]_lib_case
=================================================================================
