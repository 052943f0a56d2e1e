----------------------------------- MODULE LuaVM ----------------------------------
(***************************************************************************)
(* The virtual machine of Lua 5.3.4: luaV_execute of lvm.c on the code     *)
(* that LuaParser gives, with the calls, errors and yields of ldo.c, the   *)
(* metamethods of ltm.c, the upvalues of lfunc.c and some functions of     *)
(* lbaselib.c.  A program runs as one coroutine.                           *)
(*                                                                         *)
(* vm is the lua_State with what it reaches: the stack, whose slots keep   *)
(* what was in them, top, the CallInfos ci, and the closures, upvalues and *)
(* tables made so far.  A C function that calls another is an operator     *)
(* that applies another; a long jump out of all of them is the status      *)
(* "error" or "yield", which each of them hands on.  Hooks, the growth of  *)
(* the stack and the text of messages are left out, and so is the limit on *)
(* nested C calls.                                                         *)
(***************************************************************************)
EXTENDS LuaParser, TLC

CONSTANTS StackSize,    \* slots of the stack
          MAXTAGLOOP,   \* the longest chain of __index or __newindex
          StepBits      \* bound: a function returns within 2^StepBits instructions

LUA_MINSTACK == 20
ERRMSG == Str("?")      \* what a message of the interpreter says

Tab(t)  == <<"tab", t>>
Fun(c)  == <<"fun", c>>
CFun(n) == <<"cfun", n>>
ttistable(v) == v[1] = "tab"
ttisfunction(v) == v[1] \in {"fun", "cfun"}
l_isfalse(v) == v \in {Nil, Bool(FALSE)}
cvt2str(v) == v[1] \in {"str", "int"}

running(vm) == vm.status = "run"
CI(vm) == Last(vm.ci)
SetCI(vm, f) == [vm EXCEPT !.ci[Len(vm.ci)] = f]
Goto(vm, n) == [vm EXCEPT !.ci[Len(vm.ci)].pc = @ + n]
Set(vm, i, v) == [vm EXCEPT !.stack[i] = v]
SetTop(vm, i) == [vm EXCEPT !.top = i, !.asserts = @ /\ i <= StackSize]
push(vm, v) == SetTop(Set(vm, vm.top, v), vm.top + 1)
Holds(vm, b) == [vm EXCEPT !.asserts = @ /\ b]         \* lua_assert

\* n slots from one place to another, and n slots cleared.
Move(vm, from, to, n) ==
    [vm EXCEPT !.stack = [i \in DOMAIN @ |-> IF i \in to .. to + n - 1 THEN @[i - to + from] ELSE @[i]]]
Clear(vm, from, n) ==
    [vm EXCEPT !.stack = [i \in DOMAIN @ |-> IF i \in from .. from + n - 1 THEN Nil ELSE @[i]]]

\* luaD_throw with the message on top.
throw(vm, v) == [push(vm, v) EXCEPT !.status = "error"]
luaG_runerror(vm) == throw(vm, ERRMSG)

---------------------------------------------------------------------------------
(* Upvalues and closures.                                                    *)

\* Mutant of luaF_close: one slot too few.
luaF_closeAbove(vm, level) ==
    [vm EXCEPT !.upvals = [u \in DOMAIN @ |->
        IF @[u].open /\ @[u].idx > level THEN [open |-> FALSE, idx |-> 0, val |-> vm.stack[@[u].idx]]
                                         ELSE @[u]]]

luaF_close(vm, level) ==
    [vm EXCEPT !.upvals = [u \in DOMAIN @ |->
        IF @[u].open /\ @[u].idx >= level THEN [open |-> FALSE, idx |-> 0, val |-> vm.stack[@[u].idx]]
                                          ELSE @[u]]]

luaF_findupval(vm, level) ==
    LET open == {u \in DOMAIN vm.upvals : vm.upvals[u].open /\ vm.upvals[u].idx = level}
    IN  IF open # {} THEN [vm |-> vm, u |-> TheOne(open)]
        ELSE [vm |-> [vm EXCEPT !.upvals = Append(@, [open |-> TRUE, idx |-> level, val |-> Nil])],
              u |-> Len(vm.upvals) + 1]

\* Where an upvalue's value is.
Place(vm, u) == IF vm.upvals[u].open THEN <<"stack", vm.upvals[u].idx>> ELSE <<"upval", u>>
GetUpval(vm, u) == IF vm.upvals[u].open THEN vm.stack[vm.upvals[u].idx] ELSE vm.upvals[u].val
SetUpval(vm, u, v) == IF vm.upvals[u].open THEN Set(vm, vm.upvals[u].idx, v)
                                           ELSE [vm EXCEPT !.upvals[u].val = v]

\* The last closure made of a prototype is used again if its upvalues are those needed now.
getcached(vm, p, path, encup, base) ==
    {c \in DOMAIN vm.closures :
        /\ path \in DOMAIN vm.cache /\ vm.cache[path] = c
        /\ \A i \in DOMAIN p.upvalues :
              Place(vm, vm.closures[c].upvals[i]) =
                  IF p.upvalues[i].instack THEN <<"stack", base + p.upvalues[i].idx>>
                                           ELSE Place(vm, encup[p.upvalues[i].idx + 1])}

pushclosure(vm, p, path, encup, base, ra) ==
    LET up(r, uv) ==
            LET f == luaF_findupval(r.vm, base + uv.idx)
            IN  IF uv.instack THEN [vm |-> f.vm, upvals |-> Append(r.upvals, f.u)]
                ELSE [r EXCEPT !.upvals = Append(@, encup[uv.idx + 1])]
        r == FoldLeft(up, [vm |-> vm, upvals |-> <<>>], p.upvalues)
        c == Len(vm.closures) + 1
    IN  Set([r.vm EXCEPT !.closures = Append(@, [p |-> p, path |-> path, upvals |-> r.upvals]),
                         !.cache = (path :> c) @@ @], ra, Fun(c))

---------------------------------------------------------------------------------
(* Tables and their metamethods.                                             *)

rawget(vm, t, key) == LET h == vm.tabs[t[2]].map IN IF key \in DOMAIN h THEN h[key] ELSE Nil
\* A new key makes the table, if it is a metatable, forget what it was found to lack.
rawset(vm, t, key, v) ==
    LET h == vm.tabs[t[2]].map
    IN  [vm EXCEPT !.tabs[t[2]].map = IF v = Nil THEN [x \in DOMAIN h \ {key} |-> h[x]]
                                                 ELSE (key :> v) @@ h]
invalidateTMcache(vm, t) == [vm EXCEPT !.tabs[t[2]].lacks = {}]
NewTable == [map |-> <<>>, mt |-> 0, lacks |-> {}]

luaT_gettmbyobj(vm, o, event) ==
    IF ~ ttistable(o) \/ vm.tabs[o[2]].mt = 0 THEN Nil
    ELSE rawget(vm, Tab(vm.tabs[o[2]].mt), Str(event))

\* A metatable remembers the events it lacks.
fasttm(vm, t, event) ==
    LET mt == vm.tabs[t[2]].mt
    IN  IF mt = 0 \/ event \in vm.tabs[mt].lacks THEN Nil ELSE luaT_gettmbyobj(vm, t, event)
luaT_gettm(vm, t, event) ==
    LET mt == vm.tabs[t[2]].mt
    IN  IF mt # 0 /\ luaT_gettmbyobj(vm, t, event) = Nil
          THEN [vm EXCEPT !.tabs[mt].lacks = @ \cup {event}] ELSE vm

---------------------------------------------------------------------------------
(* Calls.                                                                    *)

RECURSIVE luaD_precall(_, _, _), luaV_execute(_), instructions(_, _)

luaD_call(vm, func, nresults) ==
    LET c == luaD_precall(vm, func, nresults)
    IN  IF c.lua THEN luaV_execute(c.vm) ELSE c.vm

\* nres results from first on go to where the function was, as many as are wanted.
luaD_poscall(vm, first, nres) ==
    LET res  == CI(vm).func
        n    == IF CI(vm).nresults = LUA_MULTRET THEN nres ELSE CI(vm).nresults
        have == Min({n, nres})
        v    == Clear(Move(vm, first, res, have), res + have, n - have)
    IN  SetTop([v EXCEPT !.ci = Front(@)], res + n)

Frame(func, base, top, nresults, lua) ==
    [func |-> func, base |-> base, top |-> top, nresults |-> nresults, lua |-> lua, pc |-> 0,
     fresh |-> FALSE, leq |-> FALSE, ypcall |-> FALSE, extra |-> 0]

adjustresults(vm, nresults) ==
    IF nresults = LUA_MULTRET /\ CI(vm).top < vm.top THEN [vm EXCEPT !.ci[Len(vm.ci)].top = vm.top]
                                                     ELSE vm

\* finishpcall: the results after true, or false and the message.
finishpcall(vm, error) ==
    IF error THEN [vm |-> push(push(vm, Bool(FALSE)), vm.stack[vm.top - 1]), n |-> 2]
             ELSE [vm |-> vm, n |-> vm.top - (CI(vm).func + 1)]

\* pcall(f, ...): the frame can be unwound to, with what is above f's place gone.
luaB_pcall(vm) ==
    LET func == CI(vm).func + 1
        v == Set(Move(SetTop(vm, vm.top + 1), func, func + 1, vm.top - func), func, Bool(TRUE))
        c == luaD_call([v EXCEPT !.ci[Len(v.ci)].ypcall = TRUE, !.ci[Len(v.ci)].extra = func + 1],
                       func + 1, LUA_MULTRET)
    IN  IF vm.top = func THEN [vm |-> luaG_runerror(vm), n |-> 0]
        ELSE IF running(c)
          THEN finishpcall(adjustresults([c EXCEPT !.ci[Len(c.ci)].ypcall = FALSE], LUA_MULTRET), FALSE)
        ELSE [vm |-> c, n |-> 0]

luaB_setmetatable(vm) ==
    LET t  == vm.stack[CI(vm).func + 1]
        mt == vm.stack[CI(vm).func + 2]
    IN  IF vm.top < CI(vm).func + 3 \/ ~ ttistable(t) \/ ~ (mt = Nil \/ ttistable(mt))
          THEN [vm |-> luaG_runerror(vm), n |-> 0]
        ELSE [vm |-> SetTop([vm EXCEPT !.tabs[t[2]].mt = mt[2]], CI(vm).func + 2), n |-> 1]

\* error(v): a message is put before a string.
luaB_error(vm) ==
    LET v == IF vm.top = CI(vm).func + 1 THEN Nil ELSE vm.stack[CI(vm).func + 1]
    IN  [vm |-> throw(SetTop(vm, CI(vm).func + 1), IF v[1] = "str" THEN ERRMSG ELSE v), n |-> 0]

\* lua_yieldk without a continuation: the frame is moved below the values it hands over.
luaB_yield(vm) ==
    LET nresults == vm.top - (CI(vm).func + 1)
        f == [CI(vm) EXCEPT !.extra = CI(vm).func, !.func = vm.top - nresults - 1]
    IN  [vm |-> [SetCI(vm, f) EXCEPT !.status = "yield"], n |-> 0]

\* A function of the host, which notes what it is called with.
emit(vm) ==
    [vm |-> [vm EXCEPT !.out = Append(@, [i \in 1 .. vm.top - (CI(vm).func + 1) |->
                                             vm.stack[CI(vm).func + i]])], n |-> 0]

CFunctions == {"emit", "setmetatable", "error", "pcall", "yield"}
CallC(vm, name) ==
    CASE name = "emit"         -> emit(vm)
      [] name = "setmetatable" -> luaB_setmetatable(vm)
      [] name = "error"        -> luaB_error(vm)
      [] name = "pcall"        -> luaB_pcall(vm)
      [] name = "yield"        -> luaB_yield(vm)

\* The fixed parameters are moved above all arguments; what was there is erased.
adjust_varargs(vm, p, actual) ==
    LET n == Min({p.numparams, actual})
        fixed == vm.top - actual
    IN  SetTop(Clear(Clear(Move(vm, fixed, vm.top, n), fixed, n), vm.top + n, p.numparams - n),
               vm.top + p.numparams)

luaD_precall(vm, func, nresults) ==
    LET v == vm.stack[func]
        tm == luaT_gettmbyobj(vm, v, "__call")
        called == [vm EXCEPT !.ci = Append(@, Frame(func, func + 1, vm.top + LUA_MINSTACK, nresults, FALSE))]
        r == CallC(called, v[2])
        p == vm.closures[v[2]].p
        actual == vm.top - func - 1
        base == IF p.is_vararg THEN vm.top ELSE func + 1
        ready == IF p.is_vararg THEN adjust_varargs(vm, p, actual)
                 ELSE Clear(vm, vm.top, p.numparams - actual)
        top == base + p.maxstacksize
    IN  CASE v[1] = "cfun" ->
               [lua |-> FALSE,
                vm |-> IF running(r.vm) THEN luaD_poscall(r.vm, r.vm.top - r.n, r.n) ELSE r.vm]
          [] v[1] = "fun" ->
               [lua |-> TRUE,
                vm |-> SetTop([ready EXCEPT !.ci = Append(@, Frame(func, base, top, nresults, TRUE))], top)]
          [] OTHER ->      \* tryfuncTM
               IF ~ ttisfunction(tm) THEN [lua |-> FALSE, vm |-> luaG_runerror(vm)]
               ELSE luaD_precall(Set(Move(SetTop(vm, vm.top + 1), func, func + 1, vm.top - func), func, tm),
                                 func, nresults)

\* luaT_callTM: args after tm on the stack; a result goes to res.
luaT_callTM(vm, tm, args, res, hasres) ==
    LET func == vm.top
        c == luaD_call(FoldLeft(push, vm, <<tm>> \o args), func, IF hasres THEN 1 ELSE 0)
    IN  IF running(c) /\ hasres THEN SetTop(Set(c, res, c.stack[c.top - 1]), c.top - 1) ELSE c

luaT_eventname(op) ==
    CASE op = "+" -> "__add"    [] op = "-" -> "__sub"     [] op = "*" -> "__mul"   [] op = "%" -> "__mod"
      [] op = "/" -> "__div"    [] op = "//" -> "__idiv"   [] op = "&" -> "__band"  [] op = "|" -> "__bor"
      [] op = "~" -> "__bxor"   [] op = "<<" -> "__shl"    [] op = ">>" -> "__shr"  [] op = "unm" -> "__unm"
      [] op = "bnot" -> "__bnot" [] op = ".." -> "__concat" [] op = "<" -> "__lt"   [] op = "<=" -> "__le"
BinTM(vm, p1, p2, op) == LET tm == luaT_gettmbyobj(vm, p1, luaT_eventname(op))
                         IN  IF tm # Nil THEN tm ELSE luaT_gettmbyobj(vm, p2, luaT_eventname(op))
luaT_trybinTM(vm, p1, p2, res, op) ==
    LET tm == BinTM(vm, p1, p2, op)
    IN  IF tm = Nil THEN luaG_runerror(vm) ELSE luaT_callTM(vm, tm, <<p1, p2>>, res, TRUE)

---------------------------------------------------------------------------------
(* What may call a metamethod.                                               *)

\* luaV_finishget with the access before it: t[key], or that of t's __index, to ra.
RECURSIVE get(_, _, _, _, _)
get(vm, t, key, ra, loop) ==
    LET raw == rawget(vm, t, key)
        tm  == IF ttistable(t) THEN fasttm(vm, t, "__index") ELSE Nil
        v   == IF ttistable(t) THEN luaT_gettm(vm, t, "__index") ELSE vm
    IN  IF ttistable(t) /\ raw # Nil  THEN Set(vm, ra, raw)
        ELSE IF loop = MAXTAGLOOP     THEN luaG_runerror(vm)
        ELSE IF tm # Nil              THEN IF ttisfunction(tm) THEN luaT_callTM(v, tm, <<t, key>>, ra, TRUE)
                                           ELSE get(v, tm, key, ra, loop + 1)
        ELSE IF ttistable(t)          THEN Set(v, ra, Nil)
        ELSE luaG_runerror(vm)
gettable(vm, t, key, ra) == get(vm, t, key, ra, 0)

\* luaV_finishset: where t has no such key, __newindex decides.
RECURSIVE set(_, _, _, _, _)
set(vm, t, key, val, loop) ==
    LET tm == IF ttistable(t) THEN fasttm(vm, t, "__newindex") ELSE Nil
        v  == IF ttistable(t) THEN luaT_gettm(vm, t, "__newindex") ELSE vm
    IN  IF ttistable(t) /\ rawget(vm, t, key) # Nil THEN rawset(vm, t, key, val)
        ELSE IF loop = MAXTAGLOOP     THEN luaG_runerror(vm)
        ELSE IF tm # Nil              THEN IF ttisfunction(tm)
                                           THEN luaT_callTM(v, tm, <<t, key, val>>, 0, FALSE)
                                           ELSE set(v, tm, key, val, loop + 1)
        ELSE IF ttistable(t) /\ key # Nil THEN invalidateTMcache(rawset(v, t, key, val), t)
        ELSE luaG_runerror(vm)
settable(vm, t, key, val) == set(vm, t, key, val, 0)

luaH_getn(vm, t) ==
    Max({n \in 0 .. Cardinality(DOMAIN vm.tabs[t[2]].map) : \A i \in 1 .. n : rawget(vm, t, Int_(i)) # Nil})
luaV_objlen(vm, ra, rb) ==
    IF rb[1] = "str" THEN Set(vm, ra, Int_(Len(rb[2])))
    ELSE IF ~ ttistable(rb) THEN luaG_runerror(vm)
    ELSE IF fasttm(vm, rb, "__len") = Nil THEN Set(luaT_gettm(vm, rb, "__len"), ra, Int_(luaH_getn(vm, rb)))
    ELSE luaT_callTM(vm, fasttm(vm, rb, "__len"), <<rb, rb>>, ra, TRUE)

arith(vm, op, l, r, ra) ==
    LET v == IF ttisnumber(l) /\ ttisnumber(r) THEN luaO_arith(op, l, r) ELSE {}
        zero == op \in {"//", "%"} /\ l[1] = "int" /\ r = Int_(0)
    IN  IF zero THEN luaG_runerror(vm)
        ELSE IF v # {} THEN Set(vm, ra, TheOne(v))
        ELSE luaT_trybinTM(vm, l, r, ra, op)

\* The result of a comparison by tm, and by none.
Tested(vm, tm, l, r) ==
    LET c == luaT_callTM(vm, tm, <<l, r>>, vm.top, TRUE)
    IN  [vm |-> c, res |-> running(c) /\ ~ l_isfalse(c.stack[c.top])]
Known(vm, b) == [vm |-> vm, res |-> b]

luaV_equalobj(vm, l, r) ==
    LET tm == IF fasttm(vm, l, "__eq") # Nil THEN fasttm(vm, l, "__eq") ELSE fasttm(vm, r, "__eq")
        v == IF fasttm(vm, l, "__eq") # Nil THEN vm ELSE luaT_gettm(luaT_gettm(vm, l, "__eq"), r, "__eq")
    IN  IF ttisnumber(l) /\ ttisnumber(r) THEN Known(vm, equalnum(l, r))
        ELSE IF ~ ttistable(l) \/ ~ ttistable(r) \/ l = r THEN Known(vm, l = r)
        ELSE IF tm = Nil THEN Known(v, FALSE) ELSE Tested(v, tm, l, r)

luaT_callorderTM(vm, l, r, op) ==
    IF BinTM(vm, l, r, op) = Nil THEN Known(luaG_runerror(vm), FALSE)
    ELSE Tested(vm, BinTM(vm, l, r, op), l, r)
luaV_lessthan(vm, l, r) ==
    IF ttisnumber(l) /\ ttisnumber(r) THEN Known(vm, LTnum(l, r)) ELSE luaT_callorderTM(vm, l, r, "<")

\* Without __le, not r < l; the frame says so, in case __lt yields.
luaV_lessequal(vm, l, r) ==
    LET Leq(v, b) == [v EXCEPT !.ci[Len(vm.ci)].leq = b]
        lt == luaT_callorderTM(Leq(vm, TRUE), r, l, "<")
    IN  IF ttisnumber(l) /\ ttisnumber(r) THEN Known(vm, LEnum(l, r))
        ELSE IF BinTM(vm, l, r, "<=") # Nil THEN luaT_callorderTM(vm, l, r, "<=")
        ELSE IF running(lt.vm) THEN Known(Leq(lt.vm, FALSE), ~ lt.res) ELSE lt

\* The total values below the top are joined, from the last on.
RECURSIVE luaV_concat(_, _)
luaV_concat(vm, total) ==
    LET At_(i) == vm.stack[vm.top - i]
        strings == Max({n \in 0 .. total : \A i \in 1 .. n : cvt2str(At_(i))})
        text(v) == IF v[1] = "int" THEN ToString(v[2]) ELSE v[2]
        joined == FoldLeft(LAMBDA s, i : text(At_(i)) \o s, "", [i \in 1 .. strings |-> i])
        n == IF strings < 2 THEN 2 ELSE strings
        v == IF strings < 2 THEN luaT_trybinTM(vm, At_(2), At_(1), vm.top - 2, "..")
             ELSE Set(vm, vm.top - n, Str(joined))
    IN  IF total = 1 THEN vm
        ELSE IF running(v) THEN luaV_concat(SetTop(v, v.top - (n - 1)), total - (n - 1)) ELSE v

---------------------------------------------------------------------------------
(* luaV_execute.                                                             *)

\* A jump instruction i, which may close upvalues.
dojump(vm, i, e) ==
    Goto(IF i.a # 0 THEN luaF_close(vm, CI(vm).base + i.a - 1) ELSE vm, i.b + e)

Cl(vm) == vm.closures[vm.stack[CI(vm).func][2]]
\* The test has come out as res: the jump that follows is taken or skipped.
Tests(vm, res, a) ==
    IF res # (a = 1) THEN Goto(vm, 1) ELSE dojump(vm, Cl(vm).p.code[CI(vm).pc + 1], 1)
Compared(r, a) == IF running(r.vm) THEN Tests(r.vm, r.res, a) ELSE r.vm

forprepAny(vm, ra) ==
    LET init == vm.stack[ra]
        plimit == vm.stack[ra + 1]
        pstep == vm.stack[ra + 2]
        f == forprep(init[2], plimit, pstep[2])
        fstep == tonumber(pstep)
    IN  IF \E v \in {init, plimit, pstep} : ~ ttisnumber(v) THEN luaG_runerror(vm)
        ELSE IF init[1] = "int" /\ pstep[1] = "int"
          THEN Set(Set(vm, ra, Int_(f.idx)), ra + 1, Int_(f.limit))
        ELSE Set(Set(Set(vm, ra, Flt(luai_numadd(tonumber(init), luai_numunm(fstep)))),
                     ra + 1, Flt(tonumber(plimit))), ra + 2, Flt(fstep))
\* The next index, or none.
forstep(vm, ra) ==
    LET at(i) == vm.stack[ra + i][2]
        f == forloop([idx |-> at(0), limit |-> at(1), step |-> at(2)])
        idx == luai_numadd(at(0), at(2))
    IN  IF vm.stack[ra][1] = "int" THEN IF f.runs THEN {Int_(f.f.idx)} ELSE {}
        ELSE IF IF luai_numlt(0, at(2)) THEN luai_numle(idx, at(1)) ELSE luai_numle(at(1), idx)
          THEN {Flt(idx)} ELSE {}

\* The frame of the function called takes the place of its caller's.
tailcall(vm, sizep) ==
    LET n == CI(vm)
        o == vm.ci[Len(vm.ci) - 1]
        closed == IF sizep > 0 THEN luaF_close(vm, o.base) ELSE vm
        lim == n.base + vm.closures[vm.stack[n.func][2]].p.numparams
        top == o.func + (n.top - n.func)
        f == [o EXCEPT !.base = o.func + (n.base - n.func), !.top = top, !.pc = 0]
    IN  SetTop([Move(closed, n.func, o.func, lim - n.func) EXCEPT !.ci = Append(Front(Front(@)), f)], top)

\* The instruction i of the prototype p; ra is where its A points.
R(vm, x) == vm.stack[CI(vm).base + x]
RK(vm, p, x) == IF ISK(x) THEN p.k[x - BITRK + 1] ELSE R(vm, x)
Upvalue(vm, u) == Cl(vm).upvals[u + 1]
Ctop(vm) == IF running(vm) THEN SetTop(vm, CI(vm).top) ELSE vm

loads(vm, p, i, ra) ==
    CASE i.op = "MOVE"     -> Set(vm, ra, R(vm, i.b))
      [] i.op = "LOADK"    -> Set(vm, ra, p.k[i.b + 1])
      [] i.op = "LOADBOOL" -> Goto(Set(vm, ra, Bool(i.b = 1)), i.c)
      [] i.op = "LOADNIL"  -> Clear(vm, ra, i.b + 1)
      [] i.op = "GETUPVAL" -> Set(vm, ra, GetUpval(vm, Upvalue(vm, i.b)))
      [] i.op = "SETUPVAL" -> SetUpval(vm, Upvalue(vm, i.b), R(vm, i.a))

accesses(vm, p, i, ra) ==
    CASE i.op = "GETTABUP" -> gettable(vm, GetUpval(vm, Upvalue(vm, i.b)), RK(vm, p, i.c), ra)
      [] i.op = "GETTABLE" -> gettable(vm, R(vm, i.b), RK(vm, p, i.c), ra)
      [] i.op = "SETTABUP" -> settable(vm, GetUpval(vm, Upvalue(vm, i.a)), RK(vm, p, i.b), RK(vm, p, i.c))
      [] i.op = "SETTABLE" -> settable(vm, R(vm, i.a), RK(vm, p, i.b), RK(vm, p, i.c))
      [] i.op = "NEWTABLE" -> Set([vm EXCEPT !.tabs = Append(@, NewTable)], ra, Tab(Len(vm.tabs) + 1))
      [] i.op = "SELF"     -> gettable(Set(vm, ra + 1, R(vm, i.b)), R(vm, i.b), RK(vm, p, i.c), ra)

computes(vm, p, i, ra) ==
    LET cat == luaV_concat(SetTop(vm, CI(vm).base + i.c + 1), i.c - i.b + 1)
    IN  CASE i.op \in ArithOps       -> arith(vm, i.op, RK(vm, p, i.b), RK(vm, p, i.c), ra)
          [] i.op \in {"unm", "bnot"} -> arith(vm, i.op, R(vm, i.b), R(vm, i.b), ra)
          [] i.op = "not"            -> Set(vm, ra, Bool(l_isfalse(R(vm, i.b))))
          [] i.op = "#"              -> luaV_objlen(vm, ra, R(vm, i.b))
          [] i.op = ".."             -> IF running(cat) THEN Ctop(Set(cat, ra, R(cat, i.b))) ELSE cat

branches(vm, p, i, ra) ==
    CASE i.op = "JMP"     -> dojump(vm, i, 0)
      [] i.op = "=="      -> Compared(luaV_equalobj(vm, RK(vm, p, i.b), RK(vm, p, i.c)), i.a)
      [] i.op = "<"       -> Compared(luaV_lessthan(vm, RK(vm, p, i.b), RK(vm, p, i.c)), i.a)
      [] i.op = "<="      -> Compared(luaV_lessequal(vm, RK(vm, p, i.b), RK(vm, p, i.c)), i.a)
      [] i.op = "TEST"    -> Tests(vm, ~ l_isfalse(R(vm, i.a)), i.c)
      [] i.op = "TESTSET" -> IF l_isfalse(R(vm, i.b)) = (i.c = 1) THEN Goto(vm, 1)
                             ELSE Tests(Set(vm, ra, R(vm, i.b)), i.c = 1, i.c)

calls(vm, p, i, ra) ==
    LET call == luaD_precall(IF i.b # 0 THEN SetTop(vm, ra + i.b) ELSE vm, ra, i.c - 1)
        done == luaD_poscall(IF Len(p.p) > 0 THEN luaF_close(vm, CI(vm).base) ELSE vm, ra,
                             IF i.b # 0 THEN i.b - 1 ELSE vm.top - ra)
    IN  CASE i.op = "CALL"     -> IF call.lua \/ i.c = 0 THEN call.vm ELSE Ctop(call.vm)
          [] i.op = "TAILCALL" -> IF call.lua THEN tailcall(call.vm, Len(p.p)) ELSE call.vm
          [] i.op = "RETURN"   ->
               IF CI(vm).fresh THEN [done EXCEPT !.back = TRUE]
               ELSE Holds(IF CI(vm).nresults # LUA_MULTRET THEN Ctop(done) ELSE done,
                          CI(done).lua /\ Cl(done).p.code[CI(done).pc].op = "CALL")

loops(vm, i, ra) ==
    LET f == forprepAny(vm, ra)
        cb == ra + 3
        iter == luaD_call(SetTop(Move(vm, ra, cb, 3), cb + 3), cb, i.c)
    IN  CASE i.op = "FORPREP"  -> IF running(f) THEN Goto(f, i.b) ELSE f
          [] i.op = "FORLOOP"  ->
               IF forstep(vm, ra) = {} THEN vm
               ELSE LET idx == TheOne(forstep(vm, ra)) IN Goto(Set(Set(vm, ra, idx), ra + 3, idx), i.b)
          [] i.op = "TFORCALL" -> Ctop(iter)
          [] i.op = "TFORLOOP" -> IF R(vm, i.a + 1) = Nil THEN vm ELSE Goto(Set(vm, ra, R(vm, i.a + 1)), i.b)

makes(vm, p, i, ra) ==
    LET base == CI(vm).base
        path == Append(Cl(vm).path, i.b)
        cached == getcached(vm, p.p[i.b + 1], path, Cl(vm).upvals, base)
        items == IF i.b = 0 THEN vm.top - ra - 1 ELSE i.b
        store(v, n) == rawset(v, R(vm, i.a), Int_((i.c - 1) * LFIELDS_PER_FLUSH + n), vm.stack[ra + n])
        nvarargs == Max({base - CI(vm).func - p.numparams - 1, 0})
        b == IF i.b = 0 THEN nvarargs ELSE i.b - 1
        n == Min({b, nvarargs})
        v == IF i.b = 0 THEN SetTop(vm, ra + nvarargs) ELSE vm
    IN  CASE i.op = "SETLIST" -> Ctop(FoldLeft(store, vm, [k \in 1 .. items |-> k]))
          [] i.op = "CLOSURE" ->
               IF cached # {} THEN Set(vm, ra, Fun(TheOne(cached)))
               ELSE pushclosure(vm, p.p[i.b + 1], path, Cl(vm).upvals, base, ra)
          [] i.op = "VARARG"  -> Clear(Move(v, base - nvarargs, ra, n), ra + n, b - n)

instruction(vm0) ==
    LET p  == Cl(vm0).p
        i  == p.code[CI(vm0).pc + 1]
        vm == Holds(Goto(vm0, 1), CI(vm0).base <= vm0.top)
        ra == CI(vm).base + i.a
    IN  CASE i.op \in {"MOVE", "LOADK", "LOADBOOL", "LOADNIL", "GETUPVAL", "SETUPVAL"} -> loads(vm, p, i, ra)
          [] i.op \in {"GETTABUP", "GETTABLE", "SETTABUP", "SETTABLE", "NEWTABLE", "SELF"} -> accesses(vm, p, i, ra)
          [] i.op \in ArithOps \cup {"unm", "bnot", "not", "#", ".."} -> computes(vm, p, i, ra)
          [] i.op \in {"JMP", "==", "<", "<=", "TEST", "TESTSET"} -> branches(vm, p, i, ra)
          [] i.op \in {"CALL", "TAILCALL", "RETURN"} -> calls(vm, p, i, ra)
          [] i.op \in {"FORPREP", "FORLOOP", "TFORCALL", "TFORLOOP"} -> loops(vm, i, ra)
          [] i.op \in {"SETLIST", "CLOSURE", "VARARG"} -> makes(vm, p, i, ra)

\* At most 2^n instructions, until the function that began them returns.
instructions(vm, n) ==
    IF vm.back \/ ~ running(vm) THEN vm
    ELSE IF n = 0 THEN instruction(vm)
    ELSE instructions(instructions(vm, n - 1), n - 1)
luaV_execute(vm) ==
    LET v == instructions([vm EXCEPT !.ci[Len(vm.ci)].fresh = TRUE], StepBits)
    IN  [v EXCEPT !.back = FALSE, !.status = IF v.back \/ ~ running(v) THEN @ ELSE "endless"]

---------------------------------------------------------------------------------
(* Coroutines: what an error or a yield has interrupted.                     *)

\* The rest of the instruction that was calling.
luaV_finishOp(vm) ==
    LET inst == Cl(vm).p.code[CI(vm).pc]
        next == Cl(vm).p.code[CI(vm).pc + 1]
        base == CI(vm).base
        res == l_isfalse(vm.stack[vm.top - 1]) = CI(vm).leq
        top == vm.top - 1
        total == top - 1 - (base + inst.b)
        moved == Set(vm, top - 2, vm.stack[top])
        cat == IF total > 1 THEN luaV_concat(SetTop(moved, top - 1), total) ELSE SetTop(moved, top - 1)
    IN  CASE inst.op \in ArithOps \cup {"unm", "bnot", "#", "GETTABUP", "GETTABLE", "SELF"} ->
               SetTop(Set(vm, base + inst.a, vm.stack[top]), top)
          [] inst.op \in {"<=", "<", "=="} ->
               Goto(Holds(SetTop([vm EXCEPT !.ci[Len(vm.ci)].leq = FALSE], top),
                          next.op = "JMP" /\ (CI(vm).leq => inst.op = "<=")),
                    IF res = (inst.a = 1) THEN 0 ELSE 1)
          [] inst.op = ".." ->
               IF running(cat) THEN SetTop(Set(cat, base + inst.a, cat.stack[cat.top - 1]), CI(cat).top)
                               ELSE cat
          [] inst.op = "TFORCALL" -> Holds(SetTop(vm, CI(vm).top), next.op = "TFORLOOP")
          [] inst.op = "CALL" -> IF inst.c - 1 >= 0 THEN SetTop(vm, CI(vm).top) ELSE vm
          [] inst.op \in {"TAILCALL", "SETTABUP", "SETTABLE"} -> vm
          [] OTHER -> Holds(vm, FALSE)

\* A C function goes on with its continuation; only pcall has one.
finishCcall(vm, error) ==
    LET v == adjustresults(Holds([vm EXCEPT !.ci[Len(vm.ci)].ypcall = FALSE], CI(vm).ypcall),
                           CI(vm).nresults)
        k == finishpcall(v, error)
    IN  luaD_poscall(k.vm, k.vm.top - k.n, k.n)

RECURSIVE unroll(_)
unroll(vm) ==
    LET f == luaV_finishOp(vm)
    IN  IF ~ running(vm) \/ vm.ci = <<>> THEN vm
        ELSE IF ~ CI(vm).lua THEN unroll(finishCcall(vm, FALSE))
        ELSE unroll(IF running(f) THEN luaV_execute(f) ELSE f)

\* An error ends the calls above the last pcall, and is its result; without one, the coroutine.
RECURSIVE recover(_)
recover(vm) ==
    LET pcalls == {j \in DOMAIN vm.ci : vm.ci[j].ypcall}
        ci == vm.ci[Max(pcalls)]
        closed == luaF_close(vm, ci.extra)
        msg == SetTop(Set(closed, ci.extra, vm.stack[vm.top - 1]), ci.extra + 1)
    IN  IF vm.status # "error" THEN vm
        ELSE IF pcalls = {} THEN [vm EXCEPT !.status = "dead"]
        ELSE recover(unroll(finishCcall([msg EXCEPT !.ci = SubSeq(@, 1, Max(pcalls)), !.status = "run"], TRUE)))

\* The host resumes a coroutine that has yielded with the values it was handed.
RECURSIVE resumeall(_, _)
resumeall(vm, n) ==
    LET ci == CI(vm)
        back == [SetCI(vm, [ci EXCEPT !.func = ci.extra]) EXCEPT !.status = "run"]
    IN  IF vm.status # "yield" \/ n = 0 THEN vm
        ELSE resumeall(recover(unroll(luaD_poscall(back, vm.top - (vm.top - (ci.func + 1)),
                                                   vm.top - (ci.func + 1)))), n - 1)

\* The state with the main function f of a chunk called: _ENV is table 1, which has CFunctions.
loaded(f) ==
    [stack |-> [i \in 0 .. StackSize |-> IF i = 0 THEN Fun(1) ELSE Nil], top |-> 1, ci |-> <<>>,
     closures |-> <<[p |-> f, path |-> <<>>, upvals |-> <<1>>]>>, cache |-> <<>>,
     upvals |-> <<[open |-> FALSE, idx |-> 0, val |-> Tab(1)]>>,
     tabs |-> <<[NewTable EXCEPT !.map = [k \in {Str(n) : n \in CFunctions} |-> CFun(k[2])]]>>,
     out |-> <<>>, status |-> "run", back |-> FALSE, asserts |-> TRUE]

\* What the program of these tokens emits and how it ends, resumed at most n times.
lua_resume(f, n) == resumeall(recover(luaD_call(loaded(f), 0, LUA_MULTRET)), n)
=================================================================================
