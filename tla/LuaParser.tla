-------------------------------- MODULE LuaParser --------------------------------
(***************************************************************************)
(* The parser of Lua 5.3.4, lparser.c: one pass over the tokens that codes *)
(* each function as it reads it, with the scopes of local variables, the   *)
(* upvalues of nested functions, and gotos that wait for their labels.     *)
(*                                                                         *)
(* ls is the LexState with what it reaches: the tokens and the position p, *)
(* fs the FuncStates from the main function's to the current one, actvar,  *)
(* gt and label of the Dyndata.  A token is <<kind>> or <<kind, value>>.   *)
(* What only serves messages or debugging, and the limits on variables,    *)
(* upvalues and nesting, are left out.  bad is set by a syntax error and   *)
(* asserts is cleared by an lua_assert that fails.                         *)
(***************************************************************************)
EXTENDS LuaCode

ENV == "_ENV"       \* ls->envn

----------------------------------------------------------------------------
\* Tokens.

tok(ls) == IF ls.p <= Len(ls.toks) THEN ls.toks[ls.p][1] ELSE "EOS"
seminfo(ls) == ls.toks[ls.p][2]
lookahead(ls) == IF ls.p < Len(ls.toks) THEN ls.toks[ls.p + 1][1] ELSE "EOS"
luaX_next(ls) == [ls EXCEPT !.p = @ + 1]
skipif(ls, c) == IF tok(ls) = c THEN luaX_next(ls) ELSE ls      \* testnext, unless its result is used
check_condition(ls, c) == [ls EXCEPT !.bad = @ \/ ~ c]
check(ls, c) == check_condition(ls, tok(ls) = c)
checknext(ls, c) == luaX_next(check(ls, c))
str_checkname(ls) == IF tok(ls) = "NAME" THEN seminfo(ls) ELSE ""
skipname(ls) == checknext(ls, "NAME")

FS(ls) == Last(ls.fs)
Put(ls, fs) == [ls EXCEPT !.fs[Len(ls.fs)] = fs]
P(ls, e) == [ls |-> ls, e |-> e]
Of(ls, p) == P(Put(ls, p.fs), p.e)         \* a pair of the code generator
Code(ls, op, a, b, c) == Put(ls, codeABC(FS(ls), op, a, b, c))

hasmultret(k) == k \in {"VCALL", "VVARARG"}
codestring(ls, s) == LET a == constantK(FS(ls), Str(s)) IN P(Put(ls, a.fs), Exp("VK", a.k))
checkname(ls) == codestring(skipname(ls), str_checkname(ls))

----------------------------------------------------------------------------
\* Variables.

new_localvar(ls, name) == [ls EXCEPT !.actvar = Append(@, name)]
adjustlocalvars(ls, nvars) == Put(ls, [FS(ls) EXCEPT !.nactvar = @ + nvars])
removevars(ls, tolevel) ==
    Put([ls EXCEPT !.actvar = SubSeq(@, 1, Len(@) - (FS(ls).nactvar - tolevel))],
        [FS(ls) EXCEPT !.nactvar = tolevel])

\* Positions are from 0, and -1 is not found.
searchvar(ls, fs, n) == Max({-1} \cup {i \in 0..fs.nactvar - 1 : ls.actvar[fs.firstlocal + i + 1] = n})
searchupvalue(fs, n) == SelectInSeq(fs.upvalues, LAMBDA u : u.name = n) - 1
\* The block where the variable at this level was defined closes upvalues.
markupval(ls, lev, level) ==
    LET bl == ls.fs[lev].bl
        b == Max({i \in DOMAIN bl : bl[i].nactvar <= level}) IN
    [ls EXCEPT !.fs[lev].bl[b].upval = TRUE]
newupvalue(ls, lev, name, v) ==
    P([ls EXCEPT !.fs[lev].upvalues =
                    Append(@, [name |-> name, instack |-> v.k = "VLOCAL", idx |-> v.info])],
      Exp("VUPVAL", Len(ls.fs[lev].upvalues)))

(***************************************************************************)
(* The variable called n, seen from the function at level lev: a local, an *)
(* upvalue, which every function in between takes too, or VVOID.           *)
(***************************************************************************)
RECURSIVE singlevaraux(_, _, _, _)
singlevaraux(ls, n, base, lev) ==
    IF lev = 0 THEN P(ls, Exp("VVOID", 0))
    ELSE LET v == searchvar(ls, ls.fs[lev], n)
             idx == searchupvalue(ls.fs[lev], n)
             up == singlevaraux(ls, n, FALSE, lev - 1) IN
         IF v >= 0 THEN P(IF base THEN ls ELSE markupval(ls, lev, v), Exp("VLOCAL", v))
         ELSE IF idx >= 0 THEN P(ls, Exp("VUPVAL", idx))
         ELSE IF up.e.k = "VVOID" THEN up
         ELSE newupvalue(up.ls, lev, n, up.e)
singlevar(ls0) ==
    LET n == str_checkname(ls0)
        ls == skipname(ls0)
        var == singlevaraux(ls, n, TRUE, Len(ls.fs))
        env == singlevaraux(var.ls, ENV, TRUE, Len(ls.fs))
        key == codestring(env.ls, n) IN
    IF var.e.k # "VVOID" THEN var
    ELSE Of(key.ls, luaK_indexed(FS(key.ls), env.e, key.e))      \* a global: _ENV.n

(***************************************************************************)
(* As many values as variables: the last expression gives what is missing, *)
(* nil does, or the extra registers are freed.                             *)
(***************************************************************************)
adjust_assign(ls, nvars, nexps, e) ==
    LET fs == FS(ls)
        extra == nvars - nexps
        open == Max({extra + 1, 0})
        g == IF e.k = "VVOID" THEN fs ELSE luaK_exp2nextreg(fs, e).fs
        h == IF hasmultret(e.k)
             THEN LET r == luaK_setreturns(fs, e, open) IN
                  IF open > 1 THEN luaK_reserveregs(r, open - 1) ELSE r
             ELSE IF extra > 0 THEN luaK_nil(luaK_reserveregs(g, extra), g.freereg, extra)
             ELSE g IN
    Put(ls, IF nexps > nvars THEN [h EXCEPT !.freereg = @ - (nexps - nvars)] ELSE h)

----------------------------------------------------------------------------
\* Gotos, labels and blocks.

Bl(ls) == Last(FS(ls).bl)

closegoto(ls, g, lb) ==
    LET gt == ls.gt[g]
        c == check_condition(ls, gt.nactvar >= lb.nactvar) IN     \* into the scope of a local
    Put([c EXCEPT !.gt = RemoveAt(@, g)], luaK_patchlist(FS(ls), gt.pc, lb.pc))
findlabel(ls, g) ==
    LET gt == ls.gt[g]
        first == Bl(ls).firstlabel
        S == {i \in first + 1..Len(ls.label) : ls.label[i].name = gt.name}
        lb == ls.label[Min(S)]
        closes == gt.nactvar > lb.nactvar /\ (Bl(ls).upval \/ Len(ls.label) > first)
        c == IF closes THEN Put(ls, luaK_patchclose(FS(ls), gt.pc, lb.nactvar)) ELSE ls IN
    IF S = {} THEN [ls |-> ls, found |-> FALSE]
    ELSE [ls |-> closegoto(c, g, lb), found |-> TRUE]
Labeldesc(ls, name, p) == [name |-> name, pc |-> p, nactvar |-> FS(ls).nactvar]
RECURSIVE findgotos(_, _)
findgotos(ls, lb) ==
    LET S == {i \in Bl(ls).firstgoto + 1..Len(ls.gt) : ls.gt[i].name = lb.name} IN
    IF S = {} THEN ls ELSE findgotos(closegoto(ls, Min(S), lb), lb)
\* The gotos still pending leave block bl, from the i-th on.
RECURSIVE movegotosout(_, _, _)
movegotosout(ls, bl, i) ==
    LET out == ls.gt[i].nactvar > bl.nactvar
        c == IF out /\ bl.upval THEN Put(ls, luaK_patchclose(FS(ls), ls.gt[i].pc, bl.nactvar)) ELSE ls
        f == findlabel(IF out THEN [c EXCEPT !.gt[i].nactvar = bl.nactvar] ELSE c, i) IN
    IF i > Len(ls.gt) THEN ls
    ELSE movegotosout(f.ls, bl, IF f.found THEN i ELSE i + 1)
enterblock(ls, isloop) ==
    LET fs == FS(ls) IN
    Put(ls, Assert_([fs EXCEPT !.bl = Append(@, [isloop |-> isloop, nactvar |-> fs.nactvar,
                                                 firstlabel |-> Len(ls.label),
                                                 firstgoto |-> Len(ls.gt), upval |-> FALSE])],
                    fs.freereg = fs.nactvar))
breaklabel(ls) == LET l == Labeldesc(ls, "break", pc(FS(ls))) IN
                  findgotos([ls EXCEPT !.label = Append(@, l)], l)
leaveblock(ls) ==
    LET bl == Bl(ls)
        inner == Len(FS(ls).bl) > 1
        j == luaK_jump(FS(ls))
        c == IF inner /\ bl.upval
             THEN Put(ls, luaK_patchtohere(luaK_patchclose(j.fs, j.j, bl.nactvar), j.j)) ELSE ls
        b == IF bl.isloop THEN breaklabel(c) ELSE c
        r == removevars(Put(b, [FS(b) EXCEPT !.bl = Front(@)]), bl.nactvar)
        s == [Put(r, [FS(r) EXCEPT !.freereg = bl.nactvar])
              EXCEPT !.label = SubSeq(@, 1, bl.firstlabel)] IN
    IF inner THEN movegotosout(s, bl, bl.firstgoto + 1)
    ELSE check_condition([s EXCEPT !.gt = SubSeq(@, 1, bl.firstgoto)], bl.firstgoto >= Len(s.gt))   \* undefgoto

----------------------------------------------------------------------------
\* Functions.

open_func(ls) ==
    enterblock([ls EXCEPT !.fs = Append(@,
        [code |-> <<>>, k |-> <<>>, h |-> IF ls.fs = <<>> THEN <<>> ELSE FS(ls).h, p |-> <<>>,
         jpc |-> NO_JUMP, lasttarget |-> 0, freereg |-> 0, nactvar |-> 0, maxstacksize |-> 2,
         bl |-> <<>>, upvalues |-> <<>>, firstlocal |-> Len(ls.actvar),
         numparams |-> 0, is_vararg |-> FALSE, bad |-> FALSE, asserts |-> TRUE])], FALSE)
Proto(fs) == [code |-> fs.code, k |-> fs.k, p |-> fs.p, upvalues |-> fs.upvalues,
              numparams |-> fs.numparams, is_vararg |-> fs.is_vararg, maxstacksize |-> fs.maxstacksize]
\* Ends the current function; its prototype is given back.
close_func(ls) ==
    LET r == leaveblock(Put(ls, luaK_ret(FS(ls), 0, 0)))
        fs == FS(r)
        up == Front(r.fs) IN
    [ls |-> [r EXCEPT !.fs = IF up = <<>> THEN up ELSE Front(up) \o <<[Last(up) EXCEPT !.h = fs.h]>>,
                      !.bad = @ \/ fs.bad, !.asserts = @ /\ fs.asserts],
     f |-> Proto(fs)]

RECURSIVE statement(_), statlist(_), subexpr(_, _), moreops(_, _, _), suffixes(_, _)
expr(ls) == subexpr(ls, 0)

block_follow(ls, withuntil) ==
    tok(ls) \in {"else", "elseif", "end", "EOS"} \/ (withuntil /\ tok(ls) = "until")
statlist(ls) ==
    IF block_follow(ls, TRUE) THEN ls
    ELSE IF tok(ls) = "return" THEN statement(ls)
    ELSE statlist(statement(ls))
block(ls) == leaveblock(statlist(enterblock(ls, FALSE)))

\* The parameters from the n-th on.
RECURSIVE params(_)
params(ls) ==
    IF tok(ls) = "..." THEN Put(luaX_next(ls), [FS(ls) EXCEPT !.is_vararg = TRUE])
    ELSE LET l == new_localvar(skipname(ls), str_checkname(ls)) IN
         IF tok(l) = "," THEN params(luaX_next(l)) ELSE l
parlist(ls) ==
    LET l == IF tok(ls) = ")" THEN ls ELSE params(ls)
        nparams == Len(l.actvar) - Len(ls.actvar)
        a == adjustlocalvars(l, nparams)
        n == FS(a).nactvar IN
    Put(a, luaK_reserveregs([FS(a) EXCEPT !.numparams = n], n))
body(ls, ismethod) ==
    LET o == checknext(open_func(ls), "(")
        self == IF ismethod THEN adjustlocalvars(new_localvar(o, "self"), 1) ELSE o
        b == checknext(statlist(checknext(parlist(self), ")")), "end")
        c == close_func(b)
        fs == FS(c.ls)
        v == luaK_exp2nextreg(codeABC(fs, "CLOSURE", 0, Len(fs.p), 0),
                              Exp("VRELOCABLE", pc(fs))) IN
    Of(c.ls, Pair([v.fs EXCEPT !.p = Append(@, c.f)], v.e))

----------------------------------------------------------------------------
\* Expressions.

\* The last expression is left open; n is how many there are.
RECURSIVE explist(_, _)
explist(ls, n) ==
    LET v == expr(ls) IN
    IF tok(v.ls) = ","
    THEN explist(Put(luaX_next(v.ls), luaK_exp2nextreg(FS(v.ls), v.e).fs), n + 1)
    ELSE [ls |-> v.ls, e |-> v.e, n |-> n]

fieldsel(ls, v) ==
    LET u == Of(ls, luaK_exp2anyregup(FS(ls), v))
        key == checkname(luaX_next(u.ls)) IN
    Of(key.ls, luaK_indexed(FS(key.ls), u.e, key.e))
yindex(ls) ==
    LET v == expr(luaX_next(ls))
        w == Of(v.ls, luaK_exp2val(FS(v.ls), v.e)) IN
    P(checknext(w.ls, "]"), w.e)

(***************************************************************************)
(* A constructor: cc.v is the last item read, which is stored when the     *)
(* next one comes, LFIELDS_PER_FLUSH at a time.                            *)
(***************************************************************************)
recfield(ls, cc, t) ==
    LET reg == FS(ls).freereg
        key == IF tok(ls) = "NAME" THEN checkname(ls) ELSE yindex(ls)
        k == luaK_exp2RK(FS(key.ls), key.e)
        val == expr(Put(checknext(key.ls, "="), k.fs))
        v == luaK_exp2RK(FS(val.ls), val.e) IN
    [ls |-> Put(val.ls, [codeABC(v.fs, "SETTABLE", t.info, k.rk, v.rk) EXCEPT !.freereg = reg]),
     cc |-> [cc EXCEPT !.nh = @ + 1]]
closelistfield(ls, cc, t) ==
    LET r == luaK_exp2nextreg(FS(ls), cc.v)
        v == Exp("VVOID", 0) IN
    IF cc.v.k = "VVOID" THEN [ls |-> ls, cc |-> cc]
    ELSE IF cc.tostore = LFIELDS_PER_FLUSH
    THEN [ls |-> Put(ls, luaK_setlist(r.fs, t.info, cc.na, cc.tostore)),
          cc |-> [cc EXCEPT !.v = v, !.tostore = 0]]
    ELSE [ls |-> Put(ls, r.fs), cc |-> [cc EXCEPT !.v = v]]
lastlistfield(ls, cc, t) ==
    IF cc.tostore = 0 THEN [ls |-> ls, cc |-> cc]
    ELSE IF hasmultret(cc.v.k)
    THEN [ls |-> Put(ls, luaK_setlist(luaK_setreturns(FS(ls), cc.v, LUA_MULTRET),
                                      t.info, cc.na, LUA_MULTRET)),
          cc |-> [cc EXCEPT !.na = @ - 1]]
    ELSE LET g == IF cc.v.k = "VVOID" THEN FS(ls) ELSE luaK_exp2nextreg(FS(ls), cc.v).fs IN
         [ls |-> Put(ls, luaK_setlist(g, t.info, cc.na, cc.tostore)), cc |-> cc]
listfield(ls, cc) ==
    LET v == expr(ls) IN
    [ls |-> v.ls, cc |-> [cc EXCEPT !.v = v.e, !.na = @ + 1, !.tostore = @ + 1]]
RECURSIVE fields(_, _, _)
fields(ls, cc, t) ==
    LET c == closelistfield(ls, cc, t)
        f == IF tok(c.ls) = "[" \/ (tok(c.ls) = "NAME" /\ lookahead(c.ls) = "=")
             THEN recfield(c.ls, c.cc, t) ELSE listfield(c.ls, c.cc) IN
    IF tok(ls) = "}" THEN [ls |-> ls, cc |-> cc]
    ELSE IF tok(f.ls) \in {",", ";"} THEN fields(luaX_next(f.ls), f.cc, t)
    ELSE f
constructor(ls) ==
    LET new == Code(ls, "NEWTABLE", 0, 0, 0)
        p == last(FS(new))
        t == Of(new, luaK_exp2nextreg(FS(new), Exp("VRELOCABLE", p)))
        f == fields(checknext(t.ls, "{"), [v |-> Exp("VVOID", 0), na |-> 0, nh |-> 0, tostore |-> 0], t.e)
        z == lastlistfield(checknext(f.ls, "}"), f.cc, t.e) IN
    P(Put(z.ls, [FS(z.ls) EXCEPT !.code[p + 1].b = luaO_int2fb(z.cc.na),
                                 !.code[p + 1].c = luaO_int2fb(z.cc.nh)]), t.e)

funcargs(ls, f) ==
    LET Open(l, x) == P(Put(l, luaK_setreturns(FS(l), x, LUA_MULTRET)), x)
        args == CASE tok(ls) = "(" /\ lookahead(ls) = ")" -> P(luaX_next(luaX_next(ls)), Exp("VVOID", 0))
                  [] tok(ls) = "{" -> constructor(ls)
                  [] tok(ls) = "STRING" -> codestring(luaX_next(ls), seminfo(ls))
                  [] OTHER -> LET x == explist(checknext(ls, "("), 1)
                                  y == IF hasmultret(x.e.k) THEN Open(x.ls, x.e) ELSE x IN
                              P(checknext(y.ls, ")"), y.e)
        fs == FS(args.ls)
        base == f.info
        g == IF hasmultret(args.e.k) \/ args.e.k = "VVOID" THEN fs ELSE luaK_exp2nextreg(fs, args.e).fs
        nparams == IF hasmultret(args.e.k) THEN LUA_MULTRET ELSE g.freereg - (base + 1)
        call == codeABC(Assert_(g, f.k = "VNONRELOC"), "CALL", base, nparams + 1, 2) IN
    P(Put(args.ls, [call EXCEPT !.freereg = base + 1]), Exp("VCALL", last(call)))

primaryexp(ls) ==
    IF tok(ls) = "("
    THEN LET v == expr(luaX_next(ls))
             c == checknext(v.ls, ")") IN
         Of(c, luaK_dischargevars(FS(c), v.e))
    ELSE singlevar(ls)
suffixes(ls, v) ==
    CASE tok(ls) = "." -> LET f == fieldsel(ls, v) IN suffixes(f.ls, f.e)
      [] tok(ls) = "[" ->
           LET u == Of(ls, luaK_exp2anyregup(FS(ls), v))
               key == yindex(u.ls)
               x == Of(key.ls, luaK_indexed(FS(key.ls), u.e, key.e)) IN
           suffixes(x.ls, x.e)
      [] tok(ls) = ":" ->
           LET key == checkname(luaX_next(ls))
               s == Of(key.ls, luaK_self(FS(key.ls), v, key.e))
               f == funcargs(s.ls, s.e) IN
           suffixes(f.ls, f.e)
      [] tok(ls) \in {"(", "STRING", "{"} ->
           LET r == Of(ls, luaK_exp2nextreg(FS(ls), v))
               f == funcargs(r.ls, r.e) IN
           suffixes(f.ls, f.e)
      [] OTHER -> P(ls, v)
suffixedexp(ls) == LET v == primaryexp(ls) IN suffixes(v.ls, v.e)

simpleexp(ls) ==
    LET Lit(e) == P(luaX_next(ls), e) IN
    CASE tok(ls) = "FLT" -> Lit(Const("VKFLT", Flt(seminfo(ls))))
      [] tok(ls) = "INT" -> Lit(Const("VKINT", Int_(seminfo(ls))))
      [] tok(ls) = "STRING" -> codestring(luaX_next(ls), seminfo(ls))
      [] tok(ls) = "nil" -> Lit(Exp("VNIL", 0))
      [] tok(ls) = "true" -> Lit(Exp("VTRUE", 0))
      [] tok(ls) = "false" -> Lit(Exp("VFALSE", 0))
      [] tok(ls) = "..." ->
           LET c == Code(luaX_next(check_condition(ls, FS(ls).is_vararg)), "VARARG", 0, 1, 0) IN
           P(c, Exp("VVARARG", last(FS(c))))
      [] tok(ls) = "{" -> constructor(ls)
      [] tok(ls) = "function" -> body(luaX_next(ls), FALSE)
      [] OTHER -> suffixedexp(ls)

priority(op) ==      \* left and right
    CASE op \in {"+", "-"} -> <<10, 10>>
      [] op \in {"*", "%", "/", "//"} -> <<11, 11>>
      [] op = "&" -> <<6, 6>>
      [] op = "|" -> <<4, 4>>
      [] op = "~" -> <<5, 5>>
      [] op \in {"<<", ">>"} -> <<7, 7>>
      [] op = ".." -> <<9, 8>>
      [] op \in {"==", "<", "<=", "~=", ">", ">="} -> <<3, 3>>
      [] op = "and" -> <<2, 2>>
      [] op = "or" -> <<1, 1>>
      [] OTHER -> <<0, 0>>      \* not a binary operator
UNARY_PRIORITY == 12
getunopr(c) == CASE c = "-" -> "unm" [] c = "~" -> "bnot" [] c \in {"not", "#"} -> c [] OTHER -> ""

subexpr(ls, limit) ==
    LET uop == getunopr(tok(ls))
        u == subexpr(luaX_next(ls), UNARY_PRIORITY)
        v == IF uop # "" THEN Of(u.ls, luaK_prefix(FS(u.ls), uop, u.e)) ELSE simpleexp(ls) IN
    moreops(v.ls, v.e, limit)
\* Takes operators while they bind more than limit.
moreops(ls, v, limit) ==
    LET op == tok(ls)
        i == Of(luaX_next(ls), luaK_infix(FS(ls), op, v))
        v2 == subexpr(i.ls, priority(op)[2])
        r == Of(v2.ls, luaK_posfix(FS(v2.ls), op, i.e, v2.e)) IN
    IF priority(op)[1] > limit THEN moreops(r.ls, r.e, limit) ELSE P(ls, v)

----------------------------------------------------------------------------
\* Statements.

(***************************************************************************)
(* A variable that is assigned while an earlier target of the same         *)
(* statement indexes or is indexed by it: the earlier one uses a copy.     *)
(***************************************************************************)
check_conflict(ls, lhs, v) ==
    LET extra == FS(ls).freereg
        table(x) == x.k = "VINDEXED" /\ x.vt = v.k /\ x.info = v.info
        index(x) == x.k = "VINDEXED" /\ v.k = "VLOCAL" /\ x.idx = v.info
        copied == [i \in DOMAIN lhs |->
                     LET x == IF table(lhs[i]) THEN [lhs[i] EXCEPT !.vt = "VLOCAL", !.info = extra]
                              ELSE lhs[i] IN
                     IF index(lhs[i]) THEN [x EXCEPT !.idx = extra] ELSE x]
        move == codeABC(FS(ls), IF v.k = "VLOCAL" THEN "MOVE" ELSE "GETUPVAL", extra, v.info, 0) IN
    IF \E i \in DOMAIN lhs : table(lhs[i]) \/ index(lhs[i])
    THEN [ls |-> Put(ls, luaK_reserveregs(move, 1)), lhs |-> copied]
    ELSE [ls |-> ls, lhs |-> lhs]
\* The targets after the first, in order.
RECURSIVE targets(_, _)
targets(ls, lhs) ==
    LET c == check_condition(ls, Last(lhs).k \in {"VLOCAL", "VUPVAL", "VINDEXED"})
        v == suffixedexp(luaX_next(c))
        w == IF v.e.k = "VINDEXED" THEN [ls |-> v.ls, lhs |-> lhs] ELSE check_conflict(v.ls, lhs, v.e) IN
    IF tok(ls) = "," THEN targets(w.ls, Append(w.lhs, v.e)) ELSE [ls |-> c, lhs |-> lhs]
assignment(ls0, first) ==
    LET t == targets(ls0, <<first>>)
        nvars == Len(t.lhs)
        x == explist(checknext(t.ls, "="), 1)
        one == luaK_setoneret(FS(x.ls), x.e)
        exact == x.n = nvars
        l == IF exact THEN Put(x.ls, luaK_storevar(one.fs, Last(t.lhs), one.e))
             ELSE adjust_assign(x.ls, nvars, x.n, x.e)
        default(fs, var) == luaK_storevar(fs, var, Exp("VNONRELOC", fs.freereg - 1)) IN
    Put(l, FoldLeft(default, FS(l), Reverse(IF exact THEN Front(t.lhs) ELSE t.lhs)))

cond(ls) ==      \* the list of jumps when it is false is e.f
    LET v == expr(ls) IN
    Of(v.ls, luaK_goiftrue(FS(v.ls), IF v.e.k = "VNIL" THEN [v.e EXCEPT !.k = "VFALSE"] ELSE v.e))

gotostat(ls, p) ==
    LET label == IF tok(ls) = "goto" THEN luaX_next(ls) ELSE ls
        name == IF tok(ls) = "goto" THEN str_checkname(label) ELSE "break"
        l == luaX_next(label)
        g == [l EXCEPT !.gt = Append(@, Labeldesc(l, name, p))] IN
    findlabel(g, Len(g.gt)).ls

RECURSIVE skipnoopstat(_)
skipnoopstat(ls) == IF tok(ls) \in {";", "::"} THEN skipnoopstat(statement(ls)) ELSE ls
labelstat(ls0) ==
    LET name == str_checkname(ls0)
        again == \E i \in Bl(ls0).firstlabel + 1..Len(ls0.label) : ls0.label[i].name = name
        l == checknext(check_condition(skipname(ls0), ~ again), "::")
        here == Put(l, luaK_getlabel(FS(l)))
        n == Len(here.label) + 1
        s == skipnoopstat([here EXCEPT !.label = Append(@, Labeldesc(here, name, pc(FS(here))))])
        z == IF block_follow(s, FALSE) THEN [s EXCEPT !.label[n].nactvar = Bl(s).nactvar] ELSE s IN
    findgotos(z, z.label[n])

whilestat(ls) ==
    LET l == Put(luaX_next(ls), luaK_getlabel(FS(ls)))
        whileinit == pc(FS(ls))
        c == cond(l)
        b == block(checknext(enterblock(c.ls, TRUE), "do"))
        j == luaK_jump(FS(b))
        e == leaveblock(checknext(Put(b, luaK_patchlist(j.fs, j.j, whileinit)), "end")) IN
    Put(e, luaK_patchtohere(FS(e), c.e.f))

repeatstat(ls) ==
    LET l == Put(ls, luaK_getlabel(FS(ls)))
        repeat_init == pc(FS(ls))
        s == checknext(statlist(luaX_next(enterblock(enterblock(l, TRUE), FALSE))), "until")
        c == cond(s)
        bl2 == Bl(c.ls)
        u == IF bl2.upval THEN Put(c.ls, luaK_patchclose(FS(c.ls), c.e.f, bl2.nactvar)) ELSE c.ls
        e == leaveblock(u) IN
    leaveblock(Put(e, luaK_patchlist(FS(e), c.e.f, repeat_init)))

exp1(ls) == LET v == expr(ls) IN Put(v.ls, luaK_exp2nextreg(FS(v.ls), v.e).fs)

forbody(ls, base, nvars, isnum) ==
    LET l == checknext(adjustlocalvars(ls, 3), "do")
        j == IF isnum THEN LET g == codeABC(FS(l), "FORPREP", base, NO_JUMP, 0) IN [fs |-> g, j |-> last(g)]
             ELSE luaK_jump(FS(l))
        s == adjustlocalvars(enterblock(Put(l, j.fs), FALSE), nvars)
        b == leaveblock(block(Put(s, luaK_reserveregs(FS(s), nvars))))
        h == luaK_patchtohere(FS(b), j.j)
        e == IF isnum THEN codeABC(h, "FORLOOP", base, NO_JUMP, 0)
             ELSE codeABC(codeABC(h, "TFORCALL", base, 0, nvars), "TFORLOOP", base + 2, NO_JUMP, 0) IN
    Put(b, luaK_patchlist(e, last(e), j.j + 1))
fornum(ls, varname) ==
    LET base == FS(ls).freereg
        l == FoldLeft(new_localvar, ls, <<"(for index)", "(for limit)", "(for step)", varname>>)
        lim == exp1(checknext(exp1(checknext(l, "=")), ","))
        one == constantK(FS(lim), Int_(1))
        step == IF tok(lim) = "," THEN exp1(luaX_next(lim))
                ELSE Put(lim, luaK_reserveregs(luaK_codek(one.fs, one.fs.freereg, one.k), 1)) IN
    forbody(step, base, 1, TRUE)
RECURSIVE forvars(_)
forvars(ls) == IF tok(ls) = "," THEN forvars(new_localvar(skipname(luaX_next(ls)), str_checkname(luaX_next(ls))))
               ELSE ls
forlist(ls, indexname) ==
    LET base == FS(ls).freereg
        l == forvars(FoldLeft(new_localvar, ls, <<"(for generator)", "(for state)", "(for control)", indexname>>))
        nvars == Len(l.actvar) - Len(ls.actvar) - 3
        x == explist(checknext(l, "in"), 1)
        a == adjust_assign(x.ls, 3, x.n, x.e) IN
    forbody(Put(a, luaK_checkstack(FS(a), 3)), base, nvars, FALSE)
forstat(ls) ==
    LET l == luaX_next(enterblock(ls, TRUE))
        n == skipname(l)
        b == IF tok(n) = "=" THEN fornum(n, str_checkname(l)) ELSE forlist(n, str_checkname(l)) IN
    leaveblock(checknext(b, "end"))

(***************************************************************************)
(* A condition and the block it guards; a block that starts with goto or   *)
(* break is jumped to straight from the condition.                         *)
(***************************************************************************)
test_then_block(ls, escapelist) ==
    LET v == expr(luaX_next(ls))
        l == checknext(v.ls, "then")
        f == luaK_goiffalse(FS(l), v.e)
        g == skipnoopstat(gotostat(enterblock(Put(l, f.fs), FALSE), f.e.t))
        jmp == luaK_jump(FS(g))
        t == luaK_goiftrue(FS(l), v.e)
        jumps == tok(l) \in {"goto", "break"}
        jf == IF jumps THEN jmp.j ELSE t.e.f
        b == leaveblock(statlist(IF jumps THEN Put(g, jmp.fs) ELSE enterblock(Put(l, t.fs), FALSE)))
        over == luaK_jump(FS(b))
        esc == IF tok(b) \in {"else", "elseif"} THEN luaK_concat(over.fs, escapelist, over.j)
               ELSE [fs |-> FS(b), l |-> escapelist] IN
    IF jumps /\ block_follow(g, FALSE) THEN [ls |-> leaveblock(g), l |-> escapelist]
    ELSE [ls |-> Put(b, luaK_patchtohere(esc.fs, jf)), l |-> esc.l]
RECURSIVE elseifs(_)
elseifs(t) == IF tok(t.ls) = "elseif" THEN elseifs(test_then_block(t.ls, t.l)) ELSE t
ifstat(ls) ==
    LET t == elseifs(test_then_block(ls, NO_JUMP))
        e == checknext(IF tok(t.ls) = "else" THEN block(luaX_next(t.ls)) ELSE t.ls, "end") IN
    Put(e, luaK_patchtohere(FS(e), t.l))

localfunc(ls) == body(adjustlocalvars(new_localvar(skipname(ls), str_checkname(ls)), 1), FALSE).ls
RECURSIVE localnames(_)
localnames(ls) ==
    LET l == new_localvar(skipname(ls), str_checkname(ls)) IN
    IF tok(l) = "," THEN localnames(luaX_next(l)) ELSE l
localstat(ls) ==
    LET l == localnames(ls)
        nvars == Len(l.actvar) - Len(ls.actvar)
        x == IF tok(l) = "=" THEN explist(luaX_next(l), 1) ELSE [ls |-> l, e |-> Exp("VVOID", 0), n |-> 0] IN
    adjustlocalvars(adjust_assign(x.ls, nvars, x.n, x.e), nvars)

RECURSIVE funcfields(_, _)
funcfields(ls, v) == IF tok(ls) = "." THEN LET f == fieldsel(ls, v) IN funcfields(f.ls, f.e) ELSE P(ls, v)
funcstat(ls) ==
    LET n == singlevar(luaX_next(ls))
        v == funcfields(n.ls, n.e)
        ismethod == tok(v.ls) = ":"
        w == IF ismethod THEN fieldsel(v.ls, v.e) ELSE v
        b == body(w.ls, ismethod) IN
    Put(b.ls, luaK_storevar(FS(b.ls), w.e, b.e))

exprstat(ls) ==
    LET v == suffixedexp(ls) IN
    IF tok(v.ls) \in {"=", ","} THEN assignment(v.ls, v.e)
    ELSE IF v.e.k # "VCALL" THEN check_condition(luaX_next(v.ls), FALSE)
    ELSE Put(v.ls, [FS(v.ls) EXCEPT !.code[v.e.info + 1].c = 1])

retstat(ls) ==
    LET x == explist(ls, 1)
        m == luaK_setreturns(FS(x.ls), x.e, LUA_MULTRET)
        tail == IF x.e.k = "VCALL" /\ x.n = 1
                THEN [Assert_(m, At(m, x.e.info).a = m.nactvar) EXCEPT !.code[x.e.info + 1].op = "TAILCALL"]
                ELSE m
        one == luaK_exp2anyreg(FS(x.ls), x.e)
        all == luaK_exp2nextreg(FS(x.ls), x.e).fs IN
    IF block_follow(ls, TRUE) \/ tok(ls) = ";" THEN skipif(Put(ls, luaK_ret(FS(ls), 0, 0)), ";")
    ELSE skipif(Put(x.ls, IF hasmultret(x.e.k) THEN luaK_ret(tail, tail.nactvar, LUA_MULTRET)
                          ELSE IF x.n = 1 THEN luaK_ret(one.fs, one.e.info, 1)
                          ELSE luaK_ret(Assert_(all, x.n = all.freereg - all.nactvar), all.nactvar, x.n)),
                ";")

statement(ls) ==
    LET n == luaX_next(ls)
        j == luaK_jump(FS(ls))
        s == CASE tok(ls) = ";" -> n
               [] tok(ls) = "if" -> ifstat(ls)
               [] tok(ls) = "while" -> whilestat(ls)
               [] tok(ls) = "do" -> checknext(block(n), "end")
               [] tok(ls) = "for" -> forstat(ls)
               [] tok(ls) = "repeat" -> repeatstat(ls)
               [] tok(ls) = "function" -> funcstat(ls)
               [] tok(ls) = "local" -> IF tok(n) = "function" THEN localfunc(luaX_next(n)) ELSE localstat(n)
               [] tok(ls) = "::" -> labelstat(n)
               [] tok(ls) = "return" -> retstat(n)
               [] tok(ls) \in {"break", "goto"} -> gotostat(Put(ls, j.fs), j.j)
               [] OTHER -> exprstat(ls)
        fs == FS(s) IN
    Put(s, [Assert_(fs, fs.maxstacksize >= fs.freereg /\ fs.freereg >= fs.nactvar)
            EXCEPT !.freereg = fs.nactvar])

(***************************************************************************)
(* The chunk: f is the prototype of the main function, unless the chunk is *)
(* bad; asserts is whether every lua_assert on the way held.               *)
(***************************************************************************)
luaY_parser(toks) ==
    LET o == open_func([toks |-> toks, p |-> 1, fs |-> <<>>, actvar |-> <<>>, gt |-> <<>>,
                        label |-> <<>>, bad |-> FALSE, asserts |-> TRUE])
        v == newupvalue(Put(o, [FS(o) EXCEPT !.is_vararg = TRUE]), 1, ENV, Exp("VLOCAL", 0)).ls
        c == close_func(check(statlist(v), "EOS")) IN
    [f |-> c.f, bad |-> c.ls.bad,
     asserts |-> c.ls.asserts /\ c.ls.actvar = <<>> /\ c.ls.gt = <<>> /\ c.ls.label = <<>>]

==================================================================================
