-------------------------------- MODULE LuaPrograms --------------------------------
(***************************************************************************)
(* The programs LuaParser and LuaVM are judged on, in families that each   *)
(* aim at one thing they do.                                               *)
(***************************************************************************)
EXTENDS LuaMeaning

V(n) == <<"name", n>>
K(n) == <<"value", Int_(n)>>
S(s) == <<"value", Str(s)>>
nil_ == <<"value", Nil>>
true_ == <<"value", Bool(TRUE)>>
false_ == <<"value", Bool(FALSE)>>
more_ == <<"...">>
call(f, args) == <<"call", f, args>>
emits(args) == call(V("emit"), args)
chain(es, ops) == <<"chain", es, ops>>
plus(e, n) == chain(<<e, K(n)>>, <<"+">>)
index(e, k) == <<"index", e, k>>
fn(ps, b) == <<"function", ps, FALSE, b>>
vararg(b) == <<"function", <<>>, TRUE, b>>
local_(ns, es) == <<"local", ns, es>>
is(n, e) == <<"assign", <<V(n)>>, <<e>> >>
when(e, b) == <<"if", e, b, <<>> >>
returns(es) == <<"return", es>>
goto_(l) == <<"goto", l>>
label_(l) == <<"label", l>>
table_(es) == <<"table", [i \in DOMAIN es |-> <<es[i]>>]>>

seqs(lo, hi, T) == UNION {[1 .. n -> T] : n \in lo .. hi}

---------------------------------------------------------------------------------
(* A condition as a value, as an argument, as what an if, a while and an     *)
(* until test, and its negation.                                             *)

Conditions ==
    LET operands == {V("a"), V("b"), false_, <<"unary", "not", V("b")>>}
        uses(e) == << local_(<<"a", "b">>, <<nil_, K(1)>>), local_(<<"x">>, <<e>>), emits(<<V("x"), e>>),
                      <<"if", <<"unary", "not", <<"paren", e>> >>, <<emits(<<K(1)>>)>>, <<emits(<<K(2)>>)>> >>,
                      <<"while", e, << emits(<<K(3)>>), goto_("break") >> >>,
                      <<"repeat", << is("b", nil_), is("a", true_) >>, chain(<<e, K(4)>>, <<"or">>)>>,
                      is("x", <<"unary", "not", <<"paren", e>> >>), emits(<<V("x")>>),
                      when(e, <<returns(<<e>>)>>), is("b", e), emits(<<V("b")>>) >>
    IN  {uses(chain(es, ops)) : es \in [1 .. 3 -> operands], ops \in [1 .. 2 -> {"and", "or", "==", "~="}]}

---------------------------------------------------------------------------------
(* Which operands an operator takes, some known to the compiler.             *)

Operators ==
    LET all == {"+", "-", "*", "//", "%", "&", "|", "~", "<<", ">>", "..", "==", "<", ">", ">=", "and", "or"}
        some == {"-", "*", "~", "..", "<", "and"}
        operands == <<V("x"), K(2), <<"unary", "-", V("y")>>, K(3)>>
        zero == <<"value", Flt(0)>>
        judged(e) == << local_(<<"x", "y">>, <<K(7), K(5)>>), emits(<<e>>) >>
    IN  {judged(chain(SubSeq(operands, 1, Len(ops) + 1), ops)) : ops \in [1 .. 2 -> all] \cup [1 .. 3 -> some]}
        \cup {judged(chain(SubSeq(operands, 2, 4), ops)) : ops \in [1 .. 2 -> some]}
        \cup {<<emits(<<zero, chain(<<K(1), <<"unary", "-", zero>> >>, <<o>>), chain(<<K(1), zero>>, <<o>>)>>)>> : o \in {"/", "*"}}

---------------------------------------------------------------------------------
(* Assignments whose targets use what they assign to, as locals, upvalues    *)
(* and globals, and with too few and too many values.                        *)

Assignments ==
    LET targets_ == {V("i"), V("a"), index(V("a"), V("i"))}
        values_ == {plus(V("i"), 1), V("b"), call(V("f"), <<>>)}
        show == emits(<<V("i"), index(V("a"), K(1)), index(V("a"), K(2)), index(V("b"), K(1)), index(V("b"), K(2))>>)
        begin == << <<"assign", <<V("i"), V("a")>>, <<K(1), table_(<<K(10), K(20)>>)>> >>, is("b", table_(<<K(30)>>)),
                    is("f", fn(<<>>, <<returns(<<K(2), V("b")>>)>>)) >>
        placed == [local |-> << local_(<<"i", "a", "b", "f">>, <<>>) >>, global |-> <<>>]
        program(st, where) ==
            IF where = "upvalue"
            THEN placed.local \o begin \o << call(<<"paren", fn(<<>>, <<st>>)>>, <<>>), show >>
            ELSE placed[where] \o begin \o << st, show >>
    IN  {program(<<"assign", ts, es>>, where) :
            ts \in seqs(2, 3, targets_), es \in seqs(1, 2, values_), where \in {"local", "upvalue", "global"}}

---------------------------------------------------------------------------------
(* Functions made in loops that are left early, and what they keep.          *)

Loops ==
    LET exits == {"none", "break", "continue", "over", "return", "error"}
        leave(x) == CASE x = "none" -> is("g", K(0))
                      [] x = "break" -> goto_("break")
                      [] x = "continue" -> goto_("continue")
                      [] x = "over" -> goto_("over")
                      [] x = "return" -> returns(<<>>)
                      [] x = "error" -> call(V("error"), <<K(9)>>)
        counts(n) == fn(<<>>, <<is(n, plus(V(n), 1)), returns(<<V(n), V("i")>>)>>)
        \* What the function made in the body changes: a variable of the body, the loop's, one outside.
        body_(n, x) == << <<"do", << local_(<<"j">>, <<plus(V("i"), 10)>>),
                                    <<"assign", <<index(V("fs"), V("i"))>>, <<counts(n)>> >>,
                                    when(chain(<<V("i"), K(2)>>, <<"==">>), <<leave(x)>>), emits(<<V("i"), V("j")>>) >> >>,
                          label_("continue") >>
        step_ == is("n", plus(V("n"), 1))
        loop(kind, n, x) ==
            CASE kind = "fornum" -> << <<"fornum", "i", <<K(1), K(3), K(1)>>, body_(n, x)>> >>
              [] kind = "down" -> << <<"fornum", "i", <<K(3), K(1), <<"unary", "-", K(1)>> >>, body_(n, x)>> >>
              [] kind = "forin" -> << <<"forin", <<"i">>, << fn(<<"s", "c">>,
                                        << when(chain(<<V("c"), K(3)>>, <<"<">>), <<returns(<<plus(V("c"), 1)>>)>>) >>),
                                        nil_, K(0) >>, body_(n, x)>> >>
              [] kind = "while" -> << <<"while", chain(<<V("n"), K(3)>>, <<"<">>),
                                       << step_, local_(<<"i">>, <<V("n")>>) >> \o body_(n, x)>> >>
              [] kind = "repeat" -> << <<"repeat", << step_, local_(<<"i">>, <<V("n")>>), <<"do", body_(n, x)>>,
                                                      local_(<<"k">>, <<V("i")>>) >>,
                                         chain(<<call(fn(<<>>, <<returns(<<V("k")>>)>>), <<>>), K(3)>>, <<">=">>)>> >>
        made(k) == index(V("fs"), K(k))
        shown == << emits(<<call(made(1), <<>>), call(made(2), <<>>)>>), emits(<<call(V("pcall"), <<made(3)>>), call(made(1), <<>>)>>),
                    emits(<<call(V("pcall"), <<made(3)>>)>>) >>
    IN  {<< local_(<<"fs", "n">>, <<table_(<<>>), K(0)>>),
            local_(<<"run">>, <<fn(<<>>, loop(kind, n, x) \o <<label_("over"), emits(<<V("n")>>)>>)>>),
            emits(<<call(V("pcall"), <<V("run")>>)>>) >> \o shown :
            kind \in {"fornum", "down", "forin", "while"}, n \in {"j", "i", "n"}, x \in exits}

---------------------------------------------------------------------------------
(* Gotos and labels in every order, with variables in their way.             *)

Gotos ==
    LET tick == <<"do", << is("n", plus(V("n"), 1)), when(chain(<<V("n"), K(2)>>, <<">">>), <<returns(<<>>)>>) >> >>
        loop(b, kind) == IF kind = "repeat" THEN <<"repeat", b, chain(<<V("n"), K(1)>>, <<">">>)>>
                         ELSE <<"while", chain(<<V("n"), K(2)>>, <<"<">>), b>>
        pieces == { <<goto_("l")>>, <<label_("l")>>, <<tick, local_(<<"x">>, <<V("n")>>), is("f", chain(<<V("f"), fn(<<>>, <<returns(<<V("x")>>)>>)>>, <<"or">>))>>,
                    << <<"do", <<local_(<<"y">>, <<>>), is("f", fn(<<>>, <<returns(<<V("y")>>)>>)), is("y", V("x")), is("x", V("n")),
                                goto_("l")>> >> >>,
                    << <<"do", <<goto_("l"), local_(<<"z">>, <<>>), label_("l")>> >> >>,
                    << when(chain(<<V("n"), K(1)>>, <<"<">>), <<goto_("l")>>), tick >>,
                    << <<"repeat", <<tick, local_(<<"x">>, <<K(7)>>), when(V("x"), <<goto_("l")>>), label_("m")>>, true_>> >> }
        program(ps) == << local_(<<"n", "f", "x">>, <<K(0)>>), <<"do", ps[1] \o ps[2]>> >> \o ps[3] \o ps[4]
    IN  {program(ps) \o << emits(<<V("n"), V("x"), call(V("pcall"), <<V("f")>>)>>) >> : ps \in [1 .. 4 -> pieces]}
        \cup {<< local_(<<"n">>, <<K(0)>>), loop(<<tick, when(chain(<<V("n"), K(2)>>, <<"<">>), <<goto_("m")>>)>> \o between
                   \o <<label_("m")>> \o after, kind), emits(<<V("n")>>) >> : between \in {<<>>, <<local_(<<"w">>, <<>>)>>},
                after \in {<<>>, <<label_("l")>>, <<emits(<<V("n")>>)>>}, kind \in {"repeat", "while"}}

---------------------------------------------------------------------------------
(* Lists of values: as arguments, as items and as results.                   *)

Lists ==
    LET items == {more_, <<"paren", more_>>, call(V("two"), <<>>), K(1), <<"paren", call(V("two"), <<K(3)>>)>>}
        program(es) ==
            << local_(<<"two", "g">>, <<fn(<<"a">>, <<returns(<<K(5), V("a")>>)>>)>>),
               local_(<<"f">>, <<vararg(<< emits(es), local_(<<"a", "b">>, es), local_(<<"t">>, <<table_(es)>>),
                   emits(<<V("a"), V("b")>> \o [i \in 1 .. 6 |-> index(V("t"), K(i))]),
                   is("g", fn(<<>>, <<returns(<<V("b"), V("a")>>)>>)), returns(es) >>)>>),
               emits(<<call(V("f"), <<K(7), K(8)>>)>>), emits(<<call(V("f"), <<>>), K(0)>>), emits(<<call(V("g"), <<>>)>>) >>
    IN  {program(es) : es \in seqs(1, 4, items)}

---------------------------------------------------------------------------------
(* Metamethods that return, yield, fail or are missing, from every operation *)
(* that calls one.                                                           *)

Metamethods ==
    LET handler(h, v) ==
            CASE h = "returns" -> <<fn(<<"a", "b">>, <<returns(<<v>>)>>)>>
              [] h = "yields" -> <<vararg(<<local_(<<"r">>, <<call(V("yield"), <<v, K(2)>>)>>), returns(<<V("r"), K(6)>>)>>)>>
              [] h = "fails" -> <<fn(<<"a", "b">>, <<call(V("yield"), <<>>), call(V("error"), <<v>>)>>)>>
              [] h = "missing" -> <<nil_>>
        events == <<"__index", "__newindex", "__call", "__add", "__unm", "__concat", "__len", "__eq", "__lt">>
        u == V("u")
        op(o) == chain(<<V("t"), u>>, <<o>>)
        uses == { op("+"), op("=="), op("~="), op("<"), op(">"), op("<="), op(">="), <<"unary", "-", u>>, <<"unary", "#", u>>,
                  chain(<<S("a"), u, K(1)>>, <<"..", "..">>), chain(<<K(1), S("b"), u>>, <<"..", "..">>),
                  chain(<<S("a"), K(1), u, K(2), u>>, <<"..", "..", "..", "..">>),
                  index(u, S("k")), <<"method", u, "m", <<K(3)>> >>, call(u, <<K(4)>>), call(V("pcall"), <<u, K(5)>>) }
        contexts(e) == { << emits(<<e, K(1)>>) >>,
                         << <<"if", e, <<emits(<<K(1)>>)>>, <<emits(<<K(2)>>)>> >> >>,
                         << emits(<<call(V("pcall"), <<fn(<<>>, <<returns(<<e>>)>>), K(1)>>)>>), emits(<<K(3)>>) >>,
                         << local_(<<"x">>, <<chain(<<e, K(0)>>, <<"or">>)>>), emits(<<V("x")>>) >> }
        stores == << <<"assign", <<index(u, S("k")), index(u, S("k"))>>, <<K(1)>> >>, emits(<<index(u, S("k"))>>) >>
        iterates == << <<"forin", <<"a", "b">>, <<u, nil_, nil_>>, <<emits(<<V("a"), V("b")>>), goto_("break")>> >> >>
        program(h, v, p) ==
            << local_(<<"mt">>, <<table_(<<>>)>>) >>
            \o [i \in DOMAIN events |-> <<"assign", <<index(V("mt"), S(events[i]))>>, handler(h, v)>>]
            \o << local_(<<"t">>, <<table_(<<>>)>>), local_(<<"u">>, <<call(V("setmetatable"), <<table_(<<K(8)>>), V("mt")>>)>>) >>
            \o p
    IN  {program(h, v, p) : h \in {"returns", "yields", "fails", "missing"}, v \in {K(9), nil_},
            p \in UNION {contexts(e) : e \in uses} \cup {stores, iterates}}

---------------------------------------------------------------------------------
(* A chunk with a function in it, whose source may be another, and with a    *)
(* string of n characters.                                                   *)

Chunk(n, others) ==
    LET same(v) == chain(<<V("a"), v>>, <<"==">>)
        text == FoldLeft(LAMBDA s, i : s \o "x", "", [i \in 1 .. n |-> i])
        p    == luaY_parser(blockTokens(<<local_(<<"a", "b">>, <<S(text), fn(<<"c">>, <<returns(<<S("z"), V("c")>>)>>)>>),
                                          emits(<<same(nil_), same(true_), K(100), chain(<<K(1), K(2)>>, <<"/">>)>>),
                                          returns(<<vararg(<<returns(<<V("a"), V("b"), more_, true_>>)>>)>>)>>))
    IN  Sourced(p.f, Str("source"), Str(others))
ChunkAgrees(n, others, strip) == LET f == Chunk(n, others)
                                 IN  LoadsBack(f, strip) /\ (n \in {0, 254} => RefusesOthers(f, strip))
=================================================================================
