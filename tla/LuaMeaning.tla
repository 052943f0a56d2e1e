-------------------------------- MODULE LuaMeaning --------------------------------
(***************************************************************************)
(* What a Lua program means by the reference manual, for judging what      *)
(* LuaParser and LuaVM make of it: scopes are functions from names to      *)
(* variables, a function carries the scope it was made in, and a statement *)
(* ends by leaving for somewhere; there are no registers, jumps or frames. *)
(*                                                                         *)
(* A program is a block, a sequence of statements; statements and          *)
(* expressions are tuples that begin with their kind (see statementTokens  *)
(* and expTokens, which also spell the program).  A yield gives back what  *)
(* it hands over, as the resumes of LuaVM!lua_resume have it.              *)
(***************************************************************************)
EXTENDS LuaVM, LuaDump

CONSTANT Fuel       \* bound: statements executed in a program that is judged

---------------------------------------------------------------------------------
(* How a program is spelt.                                                   *)

RECURSIVE expTokens(_), listTokens(_), blockTokens(_), statementTokens(_)

t(kind) == << <<kind>> >>
name(n) == << <<"NAME", n>> >>
\* What is written for each, with a token between two.
separated(S, sep) == IF S = <<>> THEN <<>> ELSE FoldLeft(LAMBDA s, x : s \o t(sep) \o x, Head(S), Tail(S))
names(ns) == separated([i \in DOMAIN ns |-> name(ns[i])], ",")
listTokens(es) == separated([i \in DOMAIN es |-> expTokens(es[i])], ",")
bodyTokens(f) ==        \* <<_, parameters, whether there are more, block>>
    t("(") \o separated([i \in DOMAIN f[2] |-> name(f[2][i])] \o IF f[3] THEN <<t("...")>> ELSE <<>>, ",")
        \o t(")") \o blockTokens(f[4]) \o t("end")

valueTokens(v) ==
    CASE v[1] = "nil"  -> t("nil")
      [] v[1] = "bool" -> t(IF v[2] THEN "true" ELSE "false")
      [] v[1] = "int"  -> << <<"INT", v[2]>> >>
      [] v[1] = "flt"  -> << <<"FLT", v[2]>> >>
      [] v[1] = "str"  -> << <<"STRING", v[2]>> >>

expTokens(e) ==
    CASE e[1] = "value"    -> valueTokens(e[2])
      [] e[1] = "..."      -> t("...")
      [] e[1] = "name"     -> name(e[2])
      [] e[1] = "index"    -> expTokens(e[2]) \o t("[") \o expTokens(e[3]) \o t("]")
      [] e[1] = "call"     -> expTokens(e[2]) \o t("(") \o listTokens(e[3]) \o t(")")
      [] e[1] = "method"   -> expTokens(e[2]) \o t(":") \o name(e[3]) \o t("(") \o listTokens(e[4]) \o t(")")
      [] e[1] = "function" -> t("function") \o bodyTokens(e)
      [] e[1] = "paren"    -> t("(") \o expTokens(e[2]) \o t(")")
      [] e[1] = "unary"    -> t(e[2]) \o expTokens(e[3])
      [] e[1] = "chain"    -> FoldLeft(LAMBDA s, i : s \o t(e[3][i]) \o expTokens(e[2][i + 1]), expTokens(e[2][1]),
                                       [i \in DOMAIN e[3] |-> i])
      [] e[1] = "table"    ->        \* an item, or a key and its value
           t("{") \o separated([i \in DOMAIN e[2] |->
                        IF Len(e[2][i]) = 1 THEN expTokens(e[2][i][1])
                        ELSE t("[") \o expTokens(e[2][i][1]) \o t("]") \o t("=") \o expTokens(e[2][i][2])], ",")
               \o t("}")

statementTokens(s) ==
    CASE s[1] = "local"    -> t("local") \o names(s[2]) \o IF s[3] = <<>> THEN <<>> ELSE t("=") \o listTokens(s[3])
      [] s[1] = "assign"   -> listTokens(s[2]) \o t("=") \o listTokens(s[3])
      [] s[1] = "call"     -> t(";") \o expTokens(s)
      [] s[1] = "do"       -> t("do") \o blockTokens(s[2]) \o t("end")
      [] s[1] = "while"    -> t("while") \o expTokens(s[2]) \o t("do") \o blockTokens(s[3]) \o t("end")
      [] s[1] = "repeat"   -> t("repeat") \o blockTokens(s[2]) \o t("until") \o expTokens(s[3])
      [] s[1] = "if"       -> t("if") \o expTokens(s[2]) \o t("then") \o blockTokens(s[3])
                                \o (IF s[4] = <<>> THEN <<>> ELSE t("else") \o blockTokens(s[4])) \o t("end")
      [] s[1] = "fornum"   -> t("for") \o name(s[2]) \o t("=") \o listTokens(s[3]) \o t("do") \o blockTokens(s[4]) \o t("end")
      [] s[1] = "forin"    -> t("for") \o names(s[2]) \o t("in") \o listTokens(s[3]) \o t("do") \o blockTokens(s[4]) \o t("end")
      [] s[1] = "return"   -> t("return") \o listTokens(s[2])
      [] s[1] = "goto"     -> IF s[2] = "break" THEN t("break") ELSE t("goto") \o name(s[2])
      [] s[1] = "label"    -> t("::") \o name(s[2]) \o t("::")
blockTokens(b) == FoldLeft(LAMBDA s, x : s \o statementTokens(x), <<>>, b)

---------------------------------------------------------------------------------
(* Which programs are refused: a goto needs a label of its block, or of one  *)
(* around it in the function, and must not enter the scope of a variable.    *)

isLabel(s, n) == s[1] = "label" /\ s[2] = n
labels(b, n) == {i \in DOMAIN b : isLabel(b[i], n)}
\* The i-th statement of block b may leave for the label n of b; a block has ended where
\* only labels follow, unless an until reads its variables.
mayEnter(b, i, n, until) ==
    \E j \in labels(b, n) :
        \/ \A k \in i + 1 .. j : b[k][1] # "local"
        \/ ~ until /\ \A k \in j .. Len(b) : b[k][1] = "label"

RECURSIVE Legal(_, _, _), legalExp(_)
legalAll(es) == \A i \in DOMAIN es : legalExp(es[i])
legalExp(e) ==
    CASE e[1] = "function" -> Legal(e[4], FALSE, {})
      [] e[1] = "index" -> legalExp(e[2]) /\ legalExp(e[3])
      [] e[1] = "paren" -> legalExp(e[2])
      [] e[1] = "unary" -> legalExp(e[3])
      [] e[1] \in {"call", "method"} -> legalExp(e[2]) /\ legalAll(e[Len(e)])
      [] e[1] = "chain" -> legalAll(e[2])
      [] e[1] = "table" -> \A i \in DOMAIN e[2] : legalAll(e[2][i])
      [] OTHER -> TRUE

\* outside: the labels around b that a goto of b may go to.
Legal(b, until, outside) ==
    LET own == {b[i][2] : i \in {j \in DOMAIN b : b[j][1] = "label"}}
        from(i) == (outside \ own) \cup {n \in own : mayEnter(b, i, n, until)}
        loop(i) == from(i) \cup {"break"}
        legal(i, s) ==
            CASE s[1] = "goto"   -> s[2] \in from(i)
              [] s[1] = "do"     -> Legal(s[2], FALSE, from(i))
              [] s[1] = "while"  -> legalExp(s[2]) /\ Legal(s[3], FALSE, loop(i))
              [] s[1] = "repeat" -> Legal(s[2], TRUE, loop(i)) /\ legalExp(s[3])
              [] s[1] = "if"     -> legalExp(s[2]) /\ Legal(s[3], FALSE, from(i)) /\ Legal(s[4], FALSE, from(i))
              [] s[1] \in {"fornum", "forin"} -> legalAll(s[3]) /\ Legal(s[4], FALSE, loop(i))
              [] s[1] = "call"   -> legalExp(s)
              [] s[1] = "return" -> legalAll(s[2])
              [] s[1] = "local"  -> legalAll(s[3])
              [] s[1] = "assign" -> legalAll(s[2]) /\ legalAll(s[3])
              [] OTHER -> TRUE
    IN  \A i \in DOMAIN b : legal(i, b[i]) /\ (b[i][1] = "label" => labels(b, b[i][2]) = {i})

---------------------------------------------------------------------------------
(* What a program does.  s is the state: the variables (scopes say which is  *)
(* whose), the tables, the functions, what was emitted, the fuel left.  An   *)
(* outcome is how something ends: with values, or leaving.  c is the scope.  *)

Done(s, vs)  == [s |-> s, exit |-> "value", vs |-> vs]
Fails(s, v)  == [s |-> s, exit |-> "error", vs |-> <<v>>]
Fault(s)     == Fails(s, ERRMSG)
Then(o, F(_, _)) == IF o.exit = "value" THEN F(o.s, o.vs) ELSE o
first(vs) == IF vs = <<>> THEN Nil ELSE vs[1]
upto(vs, n) == [i \in 1 .. n |-> IF i <= Len(vs) THEN vs[i] ELSE Nil]

\* The scope c with new variables called ns that hold vs.
declared(s, c, ns, vs) ==
    [s |-> [s EXCEPT !.vars = @ \o upto(vs, Len(ns))],
     c |-> [c EXCEPT !.names = [n \in ToSet(ns) |->
                                   Len(s.vars) + Max({i \in DOMAIN ns : ns[i] = n})] @@ @]]

field(s, tab, k) == LET m == s.tabs[tab[2]].map IN IF k \in DOMAIN m THEN m[k] ELSE Nil
stored(s, tab, k, v) == [s EXCEPT !.tabs[tab[2]].map = [x \in DOMAIN @ \cup {k} |-> IF x = k THEN v ELSE @[x]]]
meta(s, v, event) == IF v[1] = "tab" /\ s.tabs[v[2]].meta # Nil THEN field(s, s.tabs[v[2]].meta, Str(event)) ELSE Nil
eitherMeta(s, a, b, event) == IF meta(s, a, event) # Nil THEN meta(s, a, event) ELSE meta(s, b, event)

RECURSIVE Value(_, _, _), Values(_, _, _), Apply(_, _, _), Block(_, _, _), Stat(_, _, _), Chain(_, _, _, _)

One(o) == Then(o, LAMBDA s, vs : Done(s, <<first(vs)>>))
AsBool(o, b) == Then(o, LAMBDA s, vs : Done(s, <<Bool(l_isfalse(first(vs)) # b)>>))
\* The metamethod h of the operands, if there is one.
ByMeta(s, h, args) == IF h = Nil THEN Fault(s) ELSE One(Apply(s, h, args))

RECURSIVE Index(_, _, _), SetIndex(_, _, _, _)
Index(s, o, k) ==
    LET h == meta(s, o, "__index") IN
    IF o[1] = "tab" /\ (field(s, o, k) # Nil \/ h = Nil) THEN Done(s, <<field(s, o, k)>>)
    ELSE IF h = Nil THEN Fault(s)
    ELSE IF h[1] \in {"fun", "cfun"} THEN One(Apply(s, h, <<o, k>>))
    ELSE Index(s, h, k)
SetIndex(s, o, k, v) ==
    LET h == meta(s, o, "__newindex") IN
    IF o[1] = "tab" /\ (field(s, o, k) # Nil \/ h = Nil)
    THEN IF k = Nil THEN Fault(s) ELSE Done(stored(s, o, k, v), <<>>)
    ELSE IF h = Nil THEN Fault(s)
    ELSE IF h[1] \in {"fun", "cfun"} THEN Then(Apply(s, h, <<o, k, v>>), LAMBDA s2, vs : Done(s2, <<>>))
    ELSE SetIndex(s, h, k, v)

Arith(s, op, a, b) ==
    LET v == IF ttisnumber(a) /\ ttisnumber(b) THEN luaO_arith(op, a, b) ELSE {} IN
    IF op \in {"//", "%"} /\ a[1] = "int" /\ b = Int_(0) THEN Fault(s)
    ELSE IF v # {} THEN Done(s, <<TheOne(v)>>)
    ELSE ByMeta(s, eitherMeta(s, a, b, luaT_eventname(op)), <<a, b>>)
Concat(s, a, b) ==
    LET text(v) == IF v[1] = "int" THEN ToString(v[2]) ELSE v[2] IN
    IF cvt2str(a) /\ cvt2str(b) THEN Done(s, <<Str(text(a) \o text(b))>>)
    ELSE ByMeta(s, eitherMeta(s, a, b, "__concat"), <<a, b>>)
LengthOf(s, a) ==
    LET h == meta(s, a, "__len")
        border == Max({n \in 0 .. Cardinality(DOMAIN s.tabs[a[2]].map) : \A i \in 1 .. n : field(s, a, Int_(i)) # Nil}) IN
    IF a[1] = "str" THEN Done(s, <<Int_(Len(a[2]))>>)
    ELSE IF h # Nil THEN One(Apply(s, h, <<a>>))
    ELSE IF a[1] = "tab" THEN Done(s, <<Int_(border)>>) ELSE Fault(s)
Equal(s, a, b) ==
    LET h == eitherMeta(s, a, b, "__eq") IN
    IF ttisnumber(a) /\ ttisnumber(b) THEN Done(s, <<Bool(equalnum(a, b))>>)
    ELSE IF a = b \/ a[1] # "tab" \/ b[1] # "tab" \/ h = Nil THEN Done(s, <<Bool(a = b)>>)
    ELSE AsBool(Apply(s, h, <<a, b>>), TRUE)
Less(s, a, b) == IF ttisnumber(a) /\ ttisnumber(b) THEN Done(s, <<Bool(LTnum(a, b))>>)
                 ELSE AsBool(ByMeta(s, eitherMeta(s, a, b, "__lt"), <<a, b>>), TRUE)
LessEqual(s, a, b) ==
    IF ttisnumber(a) /\ ttisnumber(b) THEN Done(s, <<Bool(LEnum(a, b))>>)
    ELSE IF eitherMeta(s, a, b, "__le") # Nil THEN AsBool(ByMeta(s, eitherMeta(s, a, b, "__le"), <<a, b>>), TRUE)
    ELSE AsBool(ByMeta(s, eitherMeta(s, b, a, "__lt"), <<b, a>>), FALSE)

Binary(s, op, a, b) ==
    CASE op = ".." -> Concat(s, a, b)
      [] op = "==" -> Equal(s, a, b)
      [] op = "~=" -> AsBool(Equal(s, a, b), FALSE)
      [] op = "<"  -> Less(s, a, b)
      [] op = ">"  -> Less(s, b, a)
      [] op = "<=" -> LessEqual(s, a, b)
      [] op = ">=" -> LessEqual(s, b, a)
      [] OTHER     -> Arith(s, op, a, b)
Unary(s, op, a) ==
    CASE op = "not" -> Done(s, <<Bool(l_isfalse(a))>>)
      [] op = "#"   -> LengthOf(s, a)
      [] op = "-"   -> Arith(s, "unm", a, a)
      [] op = "~"   -> Arith(s, "bnot", a, a)

\* The manual's table of precedence; .. is right associative, the others left.
level(op) == CHOOSE i \in 1 .. 10 :
    op \in << {"or"}, {"and"}, {"<", ">", "<=", ">=", "~=", "=="}, {"|"}, {"~"}, {"&"}, {"<<", ">>"},
              {".."}, {"+", "-"}, {"*", "/", "//", "%"} >>[i]
Chain(s, c, es, ops) ==
    LET weakest == {i \in DOMAIN ops : \A j \in DOMAIN ops : level(ops[i]) <= level(ops[j])}
        i == IF ops[CHOOSE k \in weakest : TRUE] = ".." THEN Min(weakest) ELSE Max(weakest)
        left(s1) == Chain(s1, c, SubSeq(es, 1, i), SubSeq(ops, 1, i - 1))
        right(s1) == Chain(s1, c, SubSeq(es, i + 1, Len(es)), SubSeq(ops, i + 1, Len(ops))) IN
    IF ops = <<>> THEN One(Value(s, c, es[1]))
    ELSE Then(left(s), LAMBDA s1, a :
           CASE ops[i] = "and" -> IF l_isfalse(a[1]) THEN Done(s1, a) ELSE right(s1)
             [] ops[i] = "or"  -> IF l_isfalse(a[1]) THEN right(s1) ELSE Done(s1, a)
             [] OTHER -> Then(right(s1), LAMBDA s2, b : Binary(s2, ops[i], a[1], b[1])))

---------------------------------------------------------------------------------
(* Functions, expressions and statements.                                    *)

\* The functions of the host, as LuaVM has them; a message is put before a string.
Builtin(s, f, args) ==
    LET failed(o) == IF o.exit = "error" THEN Done(o.s, <<Bool(FALSE)>> \o o.vs) ELSE o IN
    CASE f = "emit"  -> Done([s EXCEPT !.out = Append(@, args)], <<>>)
      [] f = "yield" -> Done(s, args)
      [] f = "error" -> Fails(s, IF first(args)[1] = "str" THEN ERRMSG ELSE first(args))
      [] f = "pcall" -> IF args = <<>> THEN Fault(s)
                        ELSE failed(Then(Apply(s, args[1], Tail(args)), LAMBDA s1, vs : Done(s1, <<Bool(TRUE)>> \o vs)))
      [] f = "setmetatable" ->
           IF Len(args) < 2 \/ args[1][1] # "tab" \/ args[2][1] \notin {"tab", "nil"} THEN Fault(s)
           ELSE Done([s EXCEPT !.tabs[args[1][2]].meta = args[2]], <<args[1]>>)

Apply(s, f, args) ==
    LET fn == s.funs[f[2]]
        extra == SubSeq(args, Len(fn.e[2]) + 1, Len(args))
        d == declared(s, [fn.c EXCEPT !.more = IF fn.e[3] THEN extra ELSE <<>>], fn.e[2], args)
        o == Block(d.s, d.c, fn.e[4]) IN
    CASE f[1] = "cfun" -> Builtin(s, f[2], args)
      [] f[1] = "fun"  -> IF o.exit = "return" THEN Done(o.s, o.vs) ELSE IF o.exit = "value" THEN Done(o.s, <<>>) ELSE o
      [] OTHER -> IF meta(s, f, "__call") = Nil THEN Fault(s) ELSE Apply(s, meta(s, f, "__call"), <<f>> \o args)

Values(s, c, es) ==
    IF es = <<>> THEN Done(s, <<>>)
    ELSE Then(Value(s, c, Head(es)), LAMBDA s1, vs :
           IF Len(es) = 1 THEN Done(s1, vs)
           ELSE Then(Values(s1, c, Tail(es)), LAMBDA s2, ws : Done(s2, <<first(vs)>> \o ws)))

\* The items of a constructor go to 1, 2, ..., the values of a last one after one another.
RECURSIVE Fill(_, _, _, _, _)
Fill(s, c, tab, fs, n) ==
    LET f == Head(fs)
        put(s1, vs) == FoldLeft(LAMBDA s2, i : stored(s2, tab, Int_(n + i), vs[i]), s1, [i \in DOMAIN vs |-> i]) IN
    IF fs = <<>> THEN Done(s, <<tab>>)
    ELSE IF Len(f) = 2
    THEN Then(Values(s, c, f), LAMBDA s1, kv :
           IF kv[1] = Nil THEN Fault(s1) ELSE Fill(stored(s1, tab, kv[1], first(Tail(kv))), c, tab, Tail(fs), n))
    ELSE Then(Value(s, c, f[1]), LAMBDA s1, vs :
           Fill(put(s1, IF Len(fs) = 1 THEN vs ELSE <<first(vs)>>), c, tab, Tail(fs), n + 1))

Value(s, c, e) ==
    CASE e[1] = "value" -> Done(s, <<e[2]>>)
      [] e[1] = "..."   -> Done(s, c.more)
      [] e[1] = "name"  -> IF e[2] \in DOMAIN c.names THEN Done(s, <<s.vars[c.names[e[2]]]>>)
                           ELSE Index(s, Tab(1), Str(e[2]))
      [] e[1] = "index" -> Then(Values(s, c, <<e[2], <<"paren", e[3]>> >>), LAMBDA s1, vs : Index(s1, vs[1], vs[2]))
      [] e[1] = "paren" -> One(Value(s, c, e[2]))
      [] e[1] = "unary" -> Then(One(Value(s, c, e[3])), LAMBDA s1, vs : Unary(s1, e[2], vs[1]))
      [] e[1] = "chain" -> Chain(s, c, e[2], e[3])
      [] e[1] = "call"  -> Then(One(Value(s, c, e[2])), LAMBDA s1, f :
                             Then(Values(s1, c, e[3]), LAMBDA s2, args : Apply(s2, f[1], args)))
      [] e[1] = "method" -> Then(One(Value(s, c, e[2])), LAMBDA s1, o :
                              Then(Index(s1, o[1], Str(e[3])), LAMBDA s2, f :
                                Then(Values(s2, c, e[4]), LAMBDA s3, args : Apply(s3, f[1], o \o args))))
      [] e[1] = "function" -> Done([s EXCEPT !.funs = Append(@, [e |-> e, c |-> c])], <<Fun(Len(s.funs) + 1)>>)
      [] e[1] = "table" -> Fill([s EXCEPT !.tabs = Append(@, [map |-> <<>>, meta |-> Nil])], c,
                                Tab(Len(s.tabs) + 1), e[2], 0)

\* The object and key of a target of an assignment; a name is its own place.
Place_(s, c, e) == IF e[1] = "name" THEN Done(s, <<>>) ELSE Values(s, c, <<e[2], <<"paren", e[3]>> >>)
Assigned(s, c, e, place, v) ==
    IF e[1] # "name" THEN SetIndex(s, place[1], place[2], v)
    ELSE IF e[2] \in DOMAIN c.names THEN Done([s EXCEPT !.vars[c.names[e[2]]] = v], <<>>)
    ELSE SetIndex(s, Tab(1), Str(e[2]), v)
\* Places first, then values; then the places get them, the last first.
RECURSIVE Places(_, _, _), Assign(_, _, _, _, _)
Places(s, c, es) == IF es = <<>> THEN Done(s, <<>>)
                    ELSE Then(Place_(s, c, Head(es)), LAMBDA s1, p :
                           Then(Places(s1, c, Tail(es)), LAMBDA s2, ps : Done(s2, <<p>> \o ps)))
Assign(s, c, es, ps, vs) ==
    IF es = <<>> THEN Done(s, <<>>)
    ELSE Then(Assigned(s, c, Last(es), Last(ps), upto(vs, Len(es))[Len(es)]),
              LAMBDA s1, none : Assign(s1, c, Front(es), Front(ps), vs))

\* A loop goes on with next after its body, unless that leaves further than the loop.
Loop(o, next(_, _)) == IF o.exit = "goto" /\ o.vs = <<"break">> THEN Done(o.s, <<>>) ELSE Then(o, next)

RECURSIVE For(_, _, _, _, _, _), ForIn(_, _, _, _, _)
For(s, c, st, i, limit, step) ==
    LET d == declared(s, c, <<st[2]>>, <<Int_(i)>>) IN
    IF IF step > 0 THEN i > limit ELSE i < limit THEN Done(s, <<>>)
    ELSE Loop(Block(d.s, d.c, st[4]), LAMBDA s1, none : For(s1, c, st, i + step, limit, step))
ForIn(s, c, st, fn, control) ==
    Then(Apply(s, fn[1], <<fn[2], control>>), LAMBDA s1, vs :
      LET d == declared(s1, c, st[2], vs) IN
      IF first(vs) = Nil THEN Done(s1, <<>>)
      ELSE Loop(Block(d.s, d.c, st[4]), LAMBDA s2, none : ForIn(s2, c, st, fn, vs[1])))

\* A statement's outcome has the scope after it in c.
Runs(o, c) == [s |-> o.s, exit |-> o.exit, vs |-> o.vs, c |-> c]
\* The statements of b from the i-th on; cs has the scopes before those already reached.
RECURSIVE From(_, _, _, _, _)
From(s, c, b, i, cs) ==
    LET seen == (i :> c) @@ cs
        o == Stat([s EXCEPT !.fuel = @ - 1], c, b[i])
        target == CHOOSE j \in labels(b, o.vs[1]) : TRUE IN
    IF i > Len(b) THEN Runs(Done(s, <<>>), c)
    ELSE IF s.fuel = 0 THEN Runs([s |-> s, exit |-> "fuel", vs |-> <<>>], c)
    ELSE IF o.exit = "value" THEN From(o.s, o.c, b, i + 1, seen)
    ELSE IF o.exit = "goto" /\ labels(b, o.vs[1]) # {}
    THEN From(o.s, IF target \in DOMAIN seen THEN seen[target] ELSE c, b, target, seen)
    ELSE o
Block(s, c, b) == From(s, c, b, 1, <<>>)

RECURSIVE While(_, _, _), Repeat(_, _, _)
While(s, c, st) ==
    Then(One(Value(s, c, st[2])), LAMBDA s1, v :
      IF l_isfalse(v[1]) THEN Done(s1, <<>>)
      ELSE Loop(Block(s1, c, st[3]), LAMBDA s2, none : While(s2, c, st)))
Repeat(s, c, st) ==
    LET b == Block(s, c, st[2]) IN
    Loop(IF b.exit = "value" THEN One(Value(b.s, b.c, st[3])) ELSE b, LAMBDA s1, v :
      IF l_isfalse(v[1]) THEN Repeat(s1, c, st) ELSE Done(s1, <<>>))

Stat(s, c, st) ==
    LET init == Values(s, c, st[3])
        new == declared(init.s, c, st[2], init.vs)
        num == upto(init.vs, 3) IN
    CASE st[1] = "local"  -> IF init.exit = "value" THEN Runs(Done(new.s, <<>>), new.c) ELSE Runs(init, c)
      [] st[1] = "assign" -> Runs(Then(Places(s, c, st[2]), LAMBDA s1, ps :
                                    Then(Values(s1, c, st[3]), LAMBDA s2, vs : Assign(s2, c, st[2], ps, vs))), c)
      [] st[1] = "call"   -> Runs(Value(s, c, st), c)
      [] st[1] = "do"     -> Runs(Block(s, c, st[2]), c)
      [] st[1] = "while"  -> Runs(While(s, c, st), c)
      [] st[1] = "repeat" -> Runs(Repeat(s, c, st), c)
      [] st[1] = "if"     -> Runs(Then(One(Value(s, c, st[2])), LAMBDA s1, v :
                                    Block(s1, c, IF l_isfalse(v[1]) THEN st[4] ELSE st[3])), c)
      [] st[1] = "fornum" -> Runs(Then(init, LAMBDA s1, vs :
                                    IF \E i \in 1 .. 3 : num[i][1] # "int" THEN Fault(s1)
                                    ELSE For(s1, c, st, num[1][2], num[2][2], num[3][2])), c)
      [] st[1] = "forin"  -> Runs(Then(init, LAMBDA s1, vs : ForIn(s1, c, st, num, num[3])), c)
      [] st[1] = "return" -> LET o == Values(s, c, st[2]) IN
                             Runs(IF o.exit = "value" THEN [o EXCEPT !.exit = "return"] ELSE o, c)
      [] st[1] = "goto"   -> Runs([s |-> s, exit |-> "goto", vs |-> <<st[2]>>], c)
      [] st[1] = "label"  -> Runs(Done(s, <<>>), c)

\* The program b, begun with the state that LuaVM's loaded gives.
Meaning(b) ==
    Block([vars |-> <<>>, funs |-> <<>>, out |-> <<>>, fuel |-> Fuel,
           tabs |-> <<[map |-> [k \in {Str(n) : n \in CFunctions} |-> CFun(k[2])], meta |-> Nil]>>],
          [names |-> <<>>, more |-> <<>>], b)

(***************************************************************************)
(* The parser refuses the program exactly when the manual does; otherwise  *)
(* its code emits what the program means to, and ends with an error when   *)
(* it does; and no lua_assert on the way fails.                            *)
(***************************************************************************)
ProgramAgrees(b) ==
    LET p == luaY_parser(blockTokens(b))
        vm == lua_resume(p.f, Fuel)
        o == Meaning(b) IN
    IF ~ Legal(b, FALSE, {}) THEN p.bad
    ELSE /\ ~ p.bad /\ p.asserts
         /\ \/ o.exit = "fuel"
            \/ /\ vm.out = o.s.out /\ vm.asserts
               /\ vm.status = IF o.exit = "error" THEN "dead" ELSE "run"
=================================================================================
