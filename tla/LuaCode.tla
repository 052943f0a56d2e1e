--------------------------------- MODULE LuaCode ---------------------------------
(***************************************************************************)
(* The code generator of Lua 5.3.4, lcode.c: what it does with the state   *)
(* of the function being compiled, a FuncState fs, and with the expression *)
(* being compiled, an expdesc e.  An expression that no code was needed    *)
(* for yet is folded, negated or kept as a jump; jumps to one place hang   *)
(* in lists linked through the jumps themselves.                           *)
(*                                                                         *)
(* An instruction is a record: op is the operator or the name of the       *)
(* opcode, the field b holds sBx or Bx where the opcode has one.  Packing  *)
(* it into 32 bits, line numbers and the growth of arrays are left out.    *)
(* A C function that changes what its arguments point to is an operator    *)
(* that gives them back in a record.                                       *)
(***************************************************************************)
EXTENDS LuaNumber

CONSTANTS
    MAXINDEXRK,         \* the last constant an operand can name
    LFIELDS_PER_FLUSH   \* items of a constructor stored by one instruction

NO_JUMP == -1
NO_REG  == 255
MAXREGS == 255
BITRK   == 256          \* the bit that makes an operand a constant
LUA_MULTRET == -1
RKASK(k) == k + BITRK
ISK(x)   == x >= BITRK

Nil == <<"nil", 0>>
Bool(b) == <<"bool", b>>
Str(s)  == <<"str", s>>

I(op, a, b, c) == [op |-> op, a |-> a, b |-> b, c |-> c]

TestModes == {"==", "<", "<=", "TEST", "TESTSET"}      \* testTMode
ArithOps  == {"+", "-", "*", "%", "/", "//", "&", "|", "~", "<<", ">>"}

pc(fs) == Len(fs.code)               \* of the next instruction
last(fs) == pc(fs) - 1               \* of the one just coded
At(fs, p) == fs.code[p + 1]
Bad(fs, b) == [fs EXCEPT !.bad = @ \/ b]        \* luaX_syntaxerror
Assert_(fs, b) == [fs EXCEPT !.asserts = @ /\ b] \* lua_assert

\* An expression of kind k; info is a register, a constant, an upvalue or a pc.
Exp(k, info) == [k |-> k, info |-> info, idx |-> 0, vt |-> "", val |-> Nil,
                 t |-> NO_JUMP, f |-> NO_JUMP]
Const(k, v) == [Exp(k, 0) EXCEPT !.val = v]
Pair(fs, e) == [fs |-> fs, e |-> e]

hasjumps(e) == e.t # e.f
tonumeral(e) == ~ hasjumps(e) /\ e.k \in {"VKINT", "VKFLT"}

----------------------------------------------------------------------------
\* Jumps.

getjump(fs, p) == LET offset == At(fs, p).b IN
                  IF offset = NO_JUMP THEN NO_JUMP ELSE p + 1 + offset
fixjump(fs, p, dest) == [fs EXCEPT !.code[p + 1].b = dest - (p + 1)]

\* The jumps of a list, from its head to its end.
RECURSIVE Jumps(_, _)
Jumps(fs, list) == IF list = NO_JUMP THEN <<>> ELSE <<list>> \o Jumps(fs, getjump(fs, list))

luaK_concat(fs, l1, l2) ==
    IF l2 = NO_JUMP THEN [fs |-> fs, l |-> l1]
    ELSE IF l1 = NO_JUMP THEN [fs |-> fs, l |-> l2]
    ELSE [fs |-> fixjump(fs, Last(Jumps(fs, l1)), l2), l |-> l1]

luaK_getlabel(fs) == [fs EXCEPT !.lasttarget = pc(fs)]

\* The pc of the instruction that decides whether the jump at p is taken.
getjumpcontrol(fs, p) == IF p >= 1 /\ At(fs, p - 1).op \in TestModes THEN p - 1 ELSE p

valued(fs, node) == At(fs, getjumpcontrol(fs, node)).op = "TESTSET"
patchtestreg(fs, node, reg) ==
    LET p == getjumpcontrol(fs, node)
        i == At(fs, p) IN
    IF ~ valued(fs, node) THEN fs
    ELSE IF reg # NO_REG /\ reg # i.b THEN [fs EXCEPT !.code[p + 1].a = reg]
    ELSE [fs EXCEPT !.code[p + 1] = I("TEST", i.b, 0, i.c)]
removevalues(fs, list) == FoldLeft(LAMBDA g, n : patchtestreg(g, n, NO_REG), fs, Jumps(fs, list))

patchlistaux(fs, list, vtarget, reg, dtarget) ==
    FoldLeft(LAMBDA g, n : fixjump(patchtestreg(g, n, reg), n, IF valued(g, n) THEN vtarget ELSE dtarget),
             fs, Jumps(fs, list))
dischargejpc(fs) == [patchlistaux(fs, fs.jpc, pc(fs), NO_REG, pc(fs)) EXCEPT !.jpc = NO_JUMP]

\* Jumps to here wait in jpc until there is an instruction here.
luaK_patchtohere(fs, list) ==
    LET g == luaK_getlabel(fs)
        c == luaK_concat(g, g.jpc, list) IN
    [c.fs EXCEPT !.jpc = c.l]
luaK_patchlist(fs, list, target) ==
    IF target = pc(fs) THEN luaK_patchtohere(fs, list)
    ELSE patchlistaux(fs, list, target, NO_REG, target)
\* The jumps of the list close the upvalues from level on.
luaK_patchclose(fs, list, level) ==
    FoldLeft(LAMBDA g, n : Assert_([g EXCEPT !.code[n + 1].a = level + 1],
                                   At(g, n).a = 0 \/ At(g, n).a >= level + 1),
             fs, Jumps(fs, list))

----------------------------------------------------------------------------
\* Instructions, registers and constants.

luaK_code(fs, i) == LET g == dischargejpc(fs) IN [g EXCEPT !.code = Append(@, i)]
codeABC(fs, op, a, b, c) == luaK_code(fs, I(op, a, b, c))
luaK_codek(fs, reg, k) == codeABC(fs, "LOADK", reg, k, 0)
luaK_ret(fs, first, nret) == codeABC(fs, "RETURN", first, nret + 1, 0)

luaK_jump(fs) ==
    LET j == codeABC([fs EXCEPT !.jpc = NO_JUMP], "JMP", 0, NO_JUMP, 0)
        c == luaK_concat(j, last(j), fs.jpc) IN
    [fs |-> c.fs, j |-> c.l]
condjump(fs, op, a, b, c) == luaK_jump(codeABC(fs, op, a, b, c))

(***************************************************************************)
(* A LOADNIL joins the one before it when nothing jumps in between.        *)
(***************************************************************************)
luaK_nil(fs, from, n) ==
    LET l == from + n - 1
        previous == At(fs, last(fs))
        pfrom == previous.a
        pl == pfrom + previous.b
        first == Min({from, pfrom}) IN
    IF /\ pc(fs) > fs.lasttarget /\ pc(fs) > 0 /\ previous.op = "LOADNIL"
       /\ (pfrom <= from /\ from <= pl + 1) \/ (from <= pfrom /\ pfrom <= l + 1)
    THEN [fs EXCEPT !.code[pc(fs)] = I("LOADNIL", first, Max({l, pl}) - first, 0)]
    ELSE codeABC(fs, "LOADNIL", from, n - 1, 0)
luaK_checkstack(fs, n) ==
    LET newstack == fs.freereg + n IN
    Bad([fs EXCEPT !.maxstacksize = Max({@, newstack})], newstack > fs.maxstacksize /\ newstack >= MAXREGS)
luaK_reserveregs(fs, n) == [luaK_checkstack(fs, n) EXCEPT !.freereg = @ + n]
freereg(fs, reg) == IF ISK(reg) \/ reg < fs.nactvar THEN fs
                    ELSE Assert_([fs EXCEPT !.freereg = @ - 1], reg = fs.freereg - 1)
freeexp(fs, e) == IF e.k = "VNONRELOC" THEN freereg(fs, e.info) ELSE fs
freeexps(fs, e1, e2) ==
    LET r(e) == IF e.k = "VNONRELOC" THEN e.info ELSE -1 IN
    FoldLeft(LAMBDA g, x : IF x = -1 THEN g ELSE freereg(g, x), fs,
             IF r(e1) > r(e2) THEN <<r(e1), r(e2)>> ELSE <<r(e2), r(e1)>>)

(***************************************************************************)
(* The index of constant v in k.  ls->h, which all functions of a chunk    *)
(* share, remembers where a key was last put; an index is used again only  *)
(* if it still leads to a constant equal to v.                             *)
(***************************************************************************)
SameConstant(v, w) == v[1] = w[1] /\ (IF v[1] = "flt" THEN equalnum(v, w) ELSE v = w)
addk(fs, key, v) ==
    LET k == IF key \in DOMAIN fs.h THEN fs.h[key] ELSE Len(fs.k) IN
    IF key \in DOMAIN fs.h /\ k < Len(fs.k) /\ SameConstant(fs.k[k + 1], v)
    THEN [fs |-> fs, k |-> k]
    ELSE [fs |-> [fs EXCEPT !.h = [x \in DOMAIN @ \cup {key} |-> IF x = key THEN Len(fs.k) ELSE @[x]],
                            !.k = Append(@, v)],
          k |-> Len(fs.k)]
\* Keys that cannot meet: an integer's is a pointer, nil's the table, and a
\* whole float is the same key as its integer.
KeyOf(v) == CASE v[1] = "int" -> <<"pointer", v[2]>>
              [] v[1] = "nil" -> <<"table", 0>>
              [] v[1] = "flt" -> <<"number", Real(v[2])>>
              [] OTHER -> v
constantK(fs, v) == addk(fs, KeyOf(v), v)

----------------------------------------------------------------------------
\* Expressions to registers.

luaK_setreturns(fs, e, nresults) ==
    IF e.k = "VCALL" THEN [fs EXCEPT !.code[e.info + 1].c = nresults + 1]
    ELSE IF e.k = "VVARARG"
    THEN luaK_reserveregs([fs EXCEPT !.code[e.info + 1].b = nresults + 1,
                                     !.code[e.info + 1].a = fs.freereg], 1)
    ELSE fs
luaK_setoneret(fs, e) ==
    IF e.k = "VCALL" THEN Pair(Assert_(fs, At(fs, e.info).c = 2), [e EXCEPT !.k = "VNONRELOC", !.info = At(fs, e.info).a])
    ELSE IF e.k = "VVARARG"
    THEN Pair([fs EXCEPT !.code[e.info + 1].b = 2], [e EXCEPT !.k = "VRELOCABLE"])
    ELSE Pair(fs, e)

Reloc(fs, e) == Pair(fs, [e EXCEPT !.k = "VRELOCABLE", !.info = last(fs)])
luaK_dischargevars(fs, e) ==
    CASE e.k = "VLOCAL" -> Pair(fs, [e EXCEPT !.k = "VNONRELOC"])
      [] e.k = "VUPVAL" -> Reloc(codeABC(fs, "GETUPVAL", 0, e.info, 0), e)
      [] e.k = "VINDEXED" ->
           LET g == freereg(fs, e.idx)
               g2 == IF e.vt = "VLOCAL" THEN freereg(g, e.info) ELSE g IN
           Reloc(codeABC(g2, IF e.vt = "VLOCAL" THEN "GETTABLE" ELSE "GETTABUP", 0, e.info, e.idx), e)
      [] e.k \in {"VVARARG", "VCALL"} -> luaK_setoneret(fs, e)
      [] OTHER -> Pair(fs, e)

discharge2reg(fs, e0, reg) ==
    LET d == luaK_dischargevars(fs, e0)
        e == d.e
        K(v) == LET a == constantK(d.fs, v) IN luaK_codek(a.fs, reg, a.k)
        Placed(g) == Pair(g, [e EXCEPT !.k = "VNONRELOC", !.info = reg]) IN
    CASE e.k = "VNIL" -> Placed(luaK_nil(d.fs, reg, 1))
      [] e.k = "VFALSE" -> Placed(codeABC(d.fs, "LOADBOOL", reg, 0, 0))
      [] e.k = "VTRUE" -> Placed(codeABC(d.fs, "LOADBOOL", reg, 1, 0))
      [] e.k = "VK" -> Placed(luaK_codek(d.fs, reg, e.info))
      [] e.k \in {"VKFLT", "VKINT"} -> Placed(K(e.val))
      [] e.k = "VRELOCABLE" -> Placed([d.fs EXCEPT !.code[e.info + 1].a = reg])
      [] e.k = "VNONRELOC" ->
           Placed(IF reg = e.info THEN d.fs ELSE codeABC(d.fs, "MOVE", reg, e.info, 0))
      [] e.k = "VJMP" -> d
discharge2anyreg(fs, e) ==
    IF e.k = "VNONRELOC" THEN Pair(fs, e)
    ELSE LET g == luaK_reserveregs(fs, 1) IN discharge2reg(g, e, g.freereg - 1)

code_loadbool(fs, a, b, jump) == codeABC(luaK_getlabel(fs), "LOADBOOL", a, b, jump)
\* Some jump of the list leaves no value behind.
need_value(fs, list) == \E n \in ToSet(Jumps(fs, list)) : ~ valued(fs, n)

exp2reg(fs, e0, reg) ==
    LET d == discharge2reg(fs, e0, reg)
        c == IF d.e.k = "VJMP" THEN luaK_concat(d.fs, d.e.t, d.e.info) ELSE [fs |-> d.fs, l |-> d.e.t]
        e == [d.e EXCEPT !.t = c.l]
        need == need_value(c.fs, e.t) \/ need_value(c.fs, e.f)
        fj == IF e.k = "VJMP" THEN [fs |-> c.fs, j |-> NO_JUMP] ELSE luaK_jump(c.fs)
        loads == code_loadbool(code_loadbool(fj.fs, reg, 0, 1), reg, 1, 0)
        g == luaK_getlabel(IF need THEN luaK_patchtohere(loads, fj.j) ELSE c.fs)
        p_f == IF need THEN pc(loads) - 2 ELSE NO_JUMP
        p_t == IF need THEN pc(loads) - 1 ELSE NO_JUMP IN
    Pair(IF hasjumps(e)
         THEN patchlistaux(patchlistaux(g, e.f, pc(g), reg, p_f), e.t, pc(g), reg, p_t)
         ELSE c.fs,
         [e EXCEPT !.k = "VNONRELOC", !.info = reg, !.t = NO_JUMP, !.f = NO_JUMP])

luaK_exp2nextreg(fs, e) ==
    LET d == luaK_dischargevars(fs, e)
        g == luaK_reserveregs(freeexp(d.fs, d.e), 1) IN
    exp2reg(g, d.e, g.freereg - 1)
luaK_exp2anyreg(fs, e) ==
    LET d == luaK_dischargevars(fs, e) IN
    IF d.e.k = "VNONRELOC" /\ ~ hasjumps(d.e) THEN d
    ELSE IF d.e.k = "VNONRELOC" /\ d.e.info >= d.fs.nactvar THEN exp2reg(d.fs, d.e, d.e.info)
    ELSE luaK_exp2nextreg(d.fs, d.e)
luaK_exp2anyregup(fs, e) ==
    IF e.k # "VUPVAL" \/ hasjumps(e) THEN luaK_exp2anyreg(fs, e) ELSE Pair(fs, e)
luaK_exp2val(fs, e) == IF hasjumps(e) THEN luaK_exp2anyreg(fs, e) ELSE luaK_dischargevars(fs, e)

\* The operand is e.info: a register, or a constant low enough to be named.
ConstantOf(e) == CASE e.k = "VTRUE" -> Bool(TRUE) [] e.k = "VFALSE" -> Bool(FALSE)
                   [] e.k = "VNIL" -> Nil [] OTHER -> e.val
luaK_exp2RK(fs, e0) ==
    LET v == luaK_exp2val(fs, e0)
        a == IF v.e.k = "VK" THEN [fs |-> v.fs, k |-> v.e.info] ELSE constantK(v.fs, ConstantOf(v.e))
        e == [v.e EXCEPT !.k = "VK", !.info = a.k] IN
    IF v.e.k \notin {"VTRUE", "VFALSE", "VNIL", "VKINT", "VKFLT", "VK"}
    THEN LET r == luaK_exp2anyreg(v.fs, v.e) IN [fs |-> r.fs, e |-> r.e, rk |-> r.e.info]
    ELSE IF a.k <= MAXINDEXRK THEN [fs |-> a.fs, e |-> e, rk |-> RKASK(a.k)]
    ELSE LET r == luaK_exp2anyreg(a.fs, e) IN [fs |-> r.fs, e |-> r.e, rk |-> r.e.info]

luaK_storevar(fs, var, ex) ==
    CASE var.k = "VLOCAL" -> exp2reg(freeexp(fs, ex), ex, var.info).fs
      [] var.k = "VUPVAL" ->
           LET r == luaK_exp2anyreg(fs, ex) IN
           freeexp(codeABC(r.fs, "SETUPVAL", r.e.info, var.info, 0), r.e)
      [] var.k = "VINDEXED" ->
           LET r == luaK_exp2RK(fs, ex) IN
           freeexp(codeABC(r.fs, IF var.vt = "VLOCAL" THEN "SETTABLE" ELSE "SETTABUP",
                           var.info, var.idx, r.rk), r.e)

luaK_self(fs, e0, key) ==
    LET r == luaK_exp2anyreg(fs, e0)
        g == freeexp(r.fs, r.e)
        base == g.freereg
        k == luaK_exp2RK(luaK_reserveregs(g, 2), key) IN
    Pair(freeexp(codeABC(k.fs, "SELF", base, r.e.info, k.rk), k.e),
         [r.e EXCEPT !.k = "VNONRELOC", !.info = base])

luaK_indexed(fs, t, k) ==
    LET r == luaK_exp2RK(fs, k) IN
    Pair(r.fs, [t EXCEPT !.k = "VINDEXED", !.idx = r.rk,
                         !.vt = IF t.k = "VUPVAL" THEN "VUPVAL" ELSE "VLOCAL"])

----------------------------------------------------------------------------
\* Tests.

negatecondition(fs, e) ==
    LET p == getjumpcontrol(fs, e.info) IN
    Assert_([fs EXCEPT !.code[p + 1].a = 1 - @], At(fs, p).op \in TestModes \ {"TESTSET", "TEST"})

\* A jump taken when e is cond (0 or 1).
jumponcond(fs, e, cond) ==
    LET ie == At(fs, e.info)
        d == discharge2anyreg(fs, e) IN
    IF e.k = "VRELOCABLE" /\ ie.op = "not"
    THEN LET j == condjump([fs EXCEPT !.code = Front(@)], "TEST", ie.b, 0, 1 - cond) IN
         [fs |-> j.fs, j |-> j.j, e |-> e]
    ELSE LET j == condjump(freeexp(d.fs, d.e), "TESTSET", NO_REG, d.e.info, cond) IN
         [fs |-> j.fs, j |-> j.j, e |-> d.e]

luaK_goiftrue(fs, e0) ==
    LET d == luaK_dischargevars(fs, e0)
        j == CASE d.e.k = "VJMP" -> [fs |-> negatecondition(d.fs, d.e), j |-> d.e.info, e |-> d.e]
               [] d.e.k \in {"VK", "VKFLT", "VKINT", "VTRUE"} -> [fs |-> d.fs, j |-> NO_JUMP, e |-> d.e]
               [] OTHER -> jumponcond(d.fs, d.e, 0)
        c == luaK_concat(j.fs, j.e.f, j.j) IN
    Pair(luaK_patchtohere(c.fs, j.e.t), [j.e EXCEPT !.f = c.l, !.t = NO_JUMP])
luaK_goiffalse(fs, e0) ==
    LET d == luaK_dischargevars(fs, e0)
        j == CASE d.e.k = "VJMP" -> [fs |-> d.fs, j |-> d.e.info, e |-> d.e]
               [] d.e.k \in {"VNIL", "VFALSE"} -> [fs |-> d.fs, j |-> NO_JUMP, e |-> d.e]
               [] OTHER -> jumponcond(d.fs, d.e, 1)
        c == luaK_concat(j.fs, j.e.t, j.j) IN
    Pair(luaK_patchtohere(c.fs, j.e.f), [j.e EXCEPT !.t = c.l, !.f = NO_JUMP])

codenot(fs, e0) ==
    LET d == luaK_dischargevars(fs, e0)
        r == discharge2anyreg(d.fs, d.e)
        n == CASE d.e.k \in {"VNIL", "VFALSE"} -> Pair(d.fs, [d.e EXCEPT !.k = "VTRUE"])
               [] d.e.k \in {"VK", "VKFLT", "VKINT", "VTRUE"} -> Pair(d.fs, [d.e EXCEPT !.k = "VFALSE"])
               [] d.e.k = "VJMP" -> Pair(negatecondition(d.fs, d.e), d.e)
               [] d.e.k \in {"VRELOCABLE", "VNONRELOC"} ->
                    Reloc(codeABC(freeexp(r.fs, r.e), "not", 0, r.e.info, 0), r.e) IN
    Pair(removevalues(removevalues(n.fs, n.e.t), n.e.f), [n.e EXCEPT !.f = n.e.t, !.t = n.e.f])

----------------------------------------------------------------------------
\* Operators.

validop(op, v1, v2) ==
    IF op \in IntegerOps THEN tointeger(v1) # {} /\ tointeger(v2) # {}
    ELSE op \in {"/", "//", "%"} => Real(v2[2]) # 0

(***************************************************************************)
(* What two numerals give, unless it is NaN or a zero, whose sign a        *)
(* constant could lose; {} when it is left to run time.                    *)
(***************************************************************************)
folded(op, e1, e2) ==
    IF ~ tonumeral(e1) \/ ~ tonumeral(e2) \/ ~ validop(op, e1.val, e2.val) THEN {}
    ELSE {v \in luaO_arith(op, e1.val, e2.val) : v[1] = "flt" => v[2] # NaN /\ Real(v[2]) # 0}
Numeral(v) == Const(IF v[1] = "int" THEN "VKINT" ELSE "VKFLT", v)

codeunexpval(fs, op, e) ==
    LET r == luaK_exp2anyreg(fs, e) IN
    Reloc(codeABC(freeexp(r.fs, r.e), op, 0, r.e.info, 0), r.e)
codebinexpval(fs, op, e1, e2) ==
    LET r2 == luaK_exp2RK(fs, e2)
        r1 == luaK_exp2RK(r2.fs, e1) IN
    Reloc(codeABC(freeexps(r1.fs, r1.e, r2.e), op, 0, r1.rk, r2.rk), r1.e)
codecomp(fs, opr, e1, e2) ==
    LET rk1 == IF e1.k = "VK" THEN RKASK(e1.info) ELSE e1.info
        r2 == luaK_exp2RK(fs, e2)
        g == freeexps(r2.fs, e1, r2.e)
        j == CASE opr = "~=" -> condjump(g, "==", 0, rk1, r2.rk)
               [] opr = ">"  -> condjump(g, "<", 1, r2.rk, rk1)
               [] opr = ">=" -> condjump(g, "<=", 1, r2.rk, rk1)
               [] OTHER      -> condjump(g, opr, 1, rk1, r2.rk) IN
    Pair(j.fs, [e1 EXCEPT !.k = "VJMP", !.info = j.j])

luaK_prefix(fs, op, e) ==
    LET v == folded(op, e, Const("VKINT", Int_(0))) IN
    IF op = "not" THEN codenot(fs, e)
    ELSE IF op # "#" /\ v # {} THEN Pair(fs, Numeral(TheOne(v)))
    ELSE codeunexpval(fs, op, e)

luaK_infix(fs, op, v) ==
    CASE op = "and" -> luaK_goiftrue(fs, v)
      [] op = "or"  -> luaK_goiffalse(fs, v)
      [] op = ".."  -> luaK_exp2nextreg(fs, v)
      [] op \in ArithOps /\ tonumeral(v) -> Pair(fs, v)
      [] OTHER -> LET r == luaK_exp2RK(fs, v) IN Pair(r.fs, r.e)

luaK_posfix(fs, op, e1, e2) ==
    LET d == luaK_dischargevars(fs, e2)
        v == luaK_exp2val(fs, e2) IN
    CASE op = "and" -> LET c == luaK_concat(d.fs, d.e.f, e1.f) IN Pair(c.fs, [d.e EXCEPT !.f = c.l])
      [] op = "or"  -> LET c == luaK_concat(d.fs, d.e.t, e1.t) IN Pair(c.fs, [d.e EXCEPT !.t = c.l])
      [] op = ".." ->
           IF v.e.k = "VRELOCABLE" /\ At(v.fs, v.e.info).op = ".."
           THEN Pair([Assert_(freeexp(v.fs, e1), e1.info = At(v.fs, v.e.info).b - 1) EXCEPT !.code[v.e.info + 1].b = e1.info],
                     [e1 EXCEPT !.k = "VRELOCABLE", !.info = v.e.info])
           ELSE LET n == luaK_exp2nextreg(v.fs, v.e) IN codebinexpval(n.fs, "..", e1, n.e)
      [] op \in ArithOps ->
           LET r == folded(op, e1, e2) IN
           IF r # {} THEN Pair(fs, Numeral(TheOne(r))) ELSE codebinexpval(fs, op, e1, e2)
      [] OTHER -> codecomp(fs, op, e1, e2)

(***************************************************************************)
(* Store the tostore values after base, nelems in all so far.              *)
(***************************************************************************)
luaK_setlist(fs, base, nelems, tostore) ==
    LET c == ((nelems - 1) \div LFIELDS_PER_FLUSH) + 1
        b == IF tostore = LUA_MULTRET THEN 0 ELSE tostore IN
    [codeABC(fs, "SETLIST", base, b, c) EXCEPT !.freereg = base + 1]

==================================================================================
