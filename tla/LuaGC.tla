---------------------------------- MODULE LuaGC ---------------------------------
(***************************************************************************)
(* lgc.c with the upvalues of lfunc.c: Lua's incremental collector beside  *)
(* a program that goes on between its steps.  It paints what it reaches:   *)
(* white objects are not reached, gray ones are to be traversed, black     *)
(* ones are done.  When no gray one is left, one atomic step settles       *)
(* threads, weak tables and finalizers and exchanges the two whites; what  *)
(* has the old white then is swept, a few objects at a time.               *)
(*                                                                         *)
(* A table is a set of entries <<key, value>>, the key an object or Plain, *)
(* a key that is no object; a userdata has one value, a coroutine one      *)
(* stack slot, a closure one upvalue, which is the slot of a coroutine     *)
(* until that is closed.  MAIN, the main thread, is the root: its slots    *)
(* are what the program holds.  Metatables, prototypes and strings are     *)
(* left out, and how much work a step does: it may come at any time.       *)
(***************************************************************************)
EXTENDS Integers, Sequences, SequencesExt, FiniteSetsExt, Null

CONSTANTS GcObjs,     \* the addresses objects may have
          MAIN,       \* the main thread
          Plain,      \* a key that is not collected
          GcPrograms, \* the sets of kinds of object, of those below, a program may use
          SweepMax,   \* GCSWEEPMAX
          MaxGcOps    \* bound: the program's operations

Tables == {"strong", "weakvalue", "ephemeron", "allweak"}

ASSUME LuaGCAssumption ==
    /\ MAIN \notin GcObjs /\ Plain \notin GcObjs \cup {MAIN} /\ NULL \notin GcObjs \cup {MAIN}
    /\ \A p \in GcPrograms : p \subseteq Tables \cup {"udata", "thread", "closure"}
    /\ SweepMax \in Nat \ {0} /\ MaxGcOps \in Nat

VARIABLES
    gc,          \* global_State: the objects' fields and the collector's
    gc_ops,      \* history: the program's operations so far
    gc_kinds,    \* the kinds of object the program makes
    gc_doomed    \* history: the objects nothing led to when the cycle began, nor since

gcVars == <<gc, gc_ops, gc_kinds, gc_doomed>>

Everything == GcObjs \cup {MAIN}

emptyHeap ==
    [kind |-> [o \in Everything |-> IF o = MAIN THEN "thread" ELSE "none"],
     mark |-> [o \in Everything |-> "white0"],
     entries |-> [o \in Everything |-> {}],
     upval |-> [o \in GcObjs |-> NULL],   \* of a closure: the thread it is a slot of
     upvals |-> [o \in GcObjs |-> NULL],  \* of a thread: [open, value, touched]
     allgc |-> <<>>, finobj |-> <<>>, tobefnz |-> <<>>,
     gray |-> <<>>, grayagain |-> <<>>,
     weak |-> <<>>, allweak |-> <<>>, ephemeron |-> <<>>, twups |-> <<>>,
     white |-> "white0", state |-> "pause", sweepgc |-> NULL]

\* What a program may have come to: a userdata u with a finalizer, whose value is a weak table
\* w, whose entry has x, or u, or u for the value of x; held is on the stack.
finalizedHeap(u, w, x, kind, entry, held) ==
    [emptyHeap EXCEPT !.kind[u] = "udata", !.kind[x] = "udata", !.kind[w] = kind,
                      !.finobj = <<u>>, !.allgc = <<w, x>>,
                      !.entries[u] = {<<Plain, w>>}, !.entries[w] = {entry},
                      !.entries[MAIN] = {<<Plain, o>> : o \in held}]

\* A program with both starts there (which counts as two of its operations).
heaps(kinds) ==
    IF ~ ("udata" \in kinds /\ kinds \cap (Tables \ {"strong"}) # {}) THEN {emptyHeap}
    ELSE UNION {{finalizedHeap(p[1], p[2], p[3], kind, entry, held) :
                     kind \in kinds \ {"udata"}, held \in SUBSET {p[1], p[2], p[3]},
                     entry \in {<<Plain, p[3]>>, <<Plain, p[1]>>, <<p[3], p[1]>>, <<p[3], p[3]>>}} :
                p \in {p \in GcObjs \X GcObjs \X GcObjs : IsInjective(p)}}

GcInit ==
    /\ gc_kinds \in GcPrograms /\ gc \in heaps(gc_kinds)
    /\ gc_ops = (IF gc = emptyHeap THEN 0 ELSE 2) /\ gc_doomed = {}

iswhite(h, o) == h.mark[o] \in {"white0", "white1"}
otherwhite(h) == IF h.white = "white0" THEN "white1" ELSE "white0"
keepinvariant(h) == h.state \in {"propagate", "atomic", "insideatomic"}
issweepphase(h) == h.state \in {"swpallgc", "swpfinobj", "swptobefnz", "swpend"}
makewhite(h, o) == [h EXCEPT !.mark[o] = h.white]

ValuesOf(h, o) == {e[2] : e \in h.entries[o]}
KeysOf(h, o) == {e[1] : e \in h.entries[o]} \ {Plain}

\* The value of the upvalue that is thread th's slot, as a set.
upvalue(h, th) == IF h.upvals[th].open THEN ValuesOf(h, th) ELSE h.upvals[th].value

---------------------------------------------------------------------------------
(* Marking.                                                                  *)

\* markobject of all of S: what a userdata has is marked with it, other objects wait in gray.
RECURSIVE marked(_, _)
marked(h, S) ==
    LET mark(o, g) ==
            IF ~ iswhite(g, o) THEN g
            ELSE IF g.kind[o] = "udata" THEN marked([g EXCEPT !.mark[o] = "black"], ValuesOf(g, o))
            ELSE [g EXCEPT !.mark[o] = "gray", !.gray = <<o>> \o @]
    IN  FoldSet(mark, h, S)

linkweakvalue(h, t) ==
    IF h.state = "propagate" THEN [h EXCEPT !.grayagain = <<t>> \o @]
    ELSE IF \E v \in ValuesOf(h, t) : iswhite(h, v) THEN [h EXCEPT !.weak = <<t>> \o @]
    ELSE h

\* Weak values: the keys are marked.  The table stays gray.
traverseweakvalue(h, t) ==
    linkweakvalue(marked(h, KeysOf(h, t)), t)

\* A key of an entry not marked yet.
iscleared(h, e) == e[1] # Plain /\ iswhite(h, e[1])

\* One entry of an ephemeron table: the value of a marked key is marked, which may mark the
\* key of an entry met before.
ephemeronEntry(r, e) ==
    IF iscleared(r.h, e)
      THEN [r EXCEPT !.hasclears = TRUE, !.hasww = @ \/ iswhite(r.h, e[2])]
      ELSE [r EXCEPT !.h = marked(@, {e[2]})]

\* Weak keys: the table is visited again while entries have neither end marked.
linkephemeron(r, t) ==
    IF r.h.state = "propagate" THEN [r.h EXCEPT !.grayagain = <<t>> \o @]
    ELSE IF r.hasww            THEN [r.h EXCEPT !.ephemeron = <<t>> \o @]
    ELSE IF r.hasclears        THEN [r.h EXCEPT !.allweak = <<t>> \o @]
    ELSE r.h
traverseephemeron(h, t) ==
    linkephemeron(FoldSeq(LAMBDA e, r : ephemeronEntry(r, e),
                          [h |-> h, hasclears |-> FALSE, hasww |-> FALSE],
                          SetToSeq(h.entries[t])), t)

\* A closure's upvalue is marked by its thread, unless that dies: touched says so.
traverseLclosure(h, c) ==
    LET th == h.upval[c]
    IN  IF h.upvals[th].open /\ h.state # "insideatomic"
          THEN [h EXCEPT !.upvals[th].touched = TRUE]
          ELSE marked(h, upvalue(h, th))

\* A thread is never black: it is traversed again in the atomic step.
linktwups(h, th) ==
    IF /\ h.state = "insideatomic" /\ th # MAIN /\ ~ Contains(h.twups, th)
       /\ h.upvals[th] # NULL /\ h.upvals[th].open
      THEN [h EXCEPT !.twups = <<th>> \o @] ELSE h
traversethread(h, th) ==
    linktwups(marked([h EXCEPT !.grayagain = <<th>> \o @], ValuesOf(h, th)), th)

black(h, o) == [h EXCEPT !.mark[o] = "black"]
traversed(h, o) ==
    CASE h.kind[o] = "strong"    -> marked(black(h, o), KeysOf(h, o) \cup ValuesOf(h, o))
      [] h.kind[o] = "weakvalue" -> traverseweakvalue(h, o)
      [] h.kind[o] = "ephemeron" -> traverseephemeron(h, o)
      [] h.kind[o] = "allweak"   -> [h EXCEPT !.allweak = <<o>> \o @]
      [] h.kind[o] = "closure"   -> traverseLclosure(black(h, o), o)
      [] h.kind[o] = "thread"    -> traversethread(h, o)

propagatemark(h) ==
    traversed([h EXCEPT !.gray = Tail(@)], Head(h.gray))

RECURSIVE propagateall(_)
propagateall(h) == IF h.gray = <<>> THEN h ELSE propagateall(propagatemark(h))

\* restartcollection: the roots.
restartcollection(h) ==
    marked([h EXCEPT !.gray = <<>>, !.grayagain = <<>>, !.weak = <<>>, !.allweak = <<>>,
                     !.ephemeron = <<>>],
           {MAIN} \cup Range(h.tobefnz))

\* remarkupvals: of the threads not marked, the upvalues some marked closure has.
remarkupvals(h) ==
    LET stays(th) == ~ iswhite(h, th) /\ h.upvals[th] # NULL /\ h.upvals[th].open
        one(th, g) ==
            IF stays(th) \/ g.upvals[th] = NULL \/ ~ g.upvals[th].open \/ ~ g.upvals[th].touched
              THEN g
              ELSE [marked(g, upvalue(g, th)) EXCEPT !.upvals[th].touched = FALSE]
    IN  [FoldSet(one, h, Range(h.twups)) EXCEPT !.twups = SelectSeq(h.twups, stays)]

\* Ephemeron tables over and over, until none marks anything.
RECURSIVE convergeephemerons(_)
convergeephemerons(h) ==
    LET next(r, g) == IF g.mark = r.h.mark THEN [r EXCEPT !.h = g]
                      ELSE [h |-> propagateall(g), changed |-> TRUE]
        one(r, t) == next(r, traverseephemeron(r.h, t))
        again(r) == IF r.changed THEN convergeephemerons(r.h) ELSE r.h
    IN  again(FoldLeft(one, [h |-> [h EXCEPT !.ephemeron = <<>>], changed |-> FALSE], h.ephemeron))

clearkeys(h, l) ==
    [h EXCEPT !.entries = [o \in Everything |->
        IF Contains(l, o) THEN {e \in @[o] : ~ iscleared(h, e)} ELSE @[o]]]
clearvalues(h, l) ==
    [h EXCEPT !.entries = [o \in Everything |->
        IF Contains(l, o) THEN {e \in @[o] : ~ iswhite(h, e[2])} ELSE @[o]]]

\* separatetobefnz: those with a finalizer that nothing has reached.
separatetobefnz(h) ==
    LET dead(o) == iswhite(h, o)
        live(o) == ~ iswhite(h, o)
    IN  [h EXCEPT !.tobefnz = @ \o SelectSeq(h.finobj, dead), !.finobj = SelectSeq(@, live)]

clearlists(h, weak, allweak) == clearvalues(clearvalues(h, weak), allweak)

\* What is strongly accessible: from the running thread, the upvalues of threads not marked,
\* and what was touched since it was traversed.
markstrong(h) == propagateall(remarkupvals(marked([h EXCEPT !.state = "insideatomic"], {MAIN})))
markagain(h, grayagain) == convergeephemerons(propagateall([h EXCEPT !.gray = grayagain]))

\* What the finalizers will see.
markbeingfnz(h) == convergeephemerons(propagateall(marked(h, Range(h.tobefnz))))

\* The second round of clearing: keys, and values of the tables that have risen since a.
clearrisen(h, a) ==
    LET new(l, old) == SubSeq(l, 1, Len(l) - Len(old))
    IN  clearlists(clearkeys(clearkeys(h, h.ephemeron), h.allweak),
                   new(h.weak, a.weak), new(h.allweak, a.allweak))

flipwhite(h) == [h EXCEPT !.white = otherwhite(h)]
clearstrong(h) == clearlists(h, h.weak, h.allweak)
\* Mutant of finish: weak tables are cleared before what the finalizers will see is marked.
finishClearing(a) == flipwhite(markbeingfnz(clearrisen(separatetobefnz(a), a)))
finish(a) == flipwhite(clearrisen(markbeingfnz(separatetobefnz(a)), a))

atomic(h) == finish(clearstrong(markagain(markstrong(h), h.grayagain)))

---------------------------------------------------------------------------------
(* Sweeping.                                                                 *)

\* luaC_upvdeccount: a closed upvalue that no closure has is gone.
upvdeccount(h, th) ==
    IF th = NULL \/ h.upvals[th] = NULL \/ h.upvals[th].open \/ \E c \in GcObjs : h.upval[c] = th
      THEN h ELSE [h EXCEPT !.upvals[th] = NULL]

upvalbarrier(h, th) ==
    IF keepinvariant(h) /\ h.upvals[th] # NULL THEN marked(h, h.upvals[th].value) ELSE h

\* luaF_close: the slot's value moves into the upvalue.
gcClose(h, th) ==
    IF h.upvals[th] = NULL \/ ~ h.upvals[th].open THEN h
    ELSE upvalbarrier(upvdeccount([h EXCEPT !.upvals[th] =
                          [open |-> FALSE, value |-> ValuesOf(h, th), touched |-> FALSE]], th), th)

freeobj(h, o) ==
    LET none == [(IF h.kind[o] = "thread" THEN gcClose(h, o) ELSE h) EXCEPT
                    !.kind[o] = "none", !.mark[o] = "white0", !.entries[o] = {},
                    !.upval[o] = NULL]
        without(l) == SelectSeq(l, LAMBDA x : x # o)
    IN  upvdeccount([none EXCEPT !.allgc = without(@), !.finobj = without(@),
                                 !.tobefnz = without(@)], h.upval[o])

\* What a pointer to a list's head or to an object's next points to.
after(h, p) ==
    LET list == CASE p \in {"allgc", "finobj", "tobefnz"} -> <<p>> \o h[p]
                  [] Contains(h.allgc, p)   -> h.allgc
                  [] Contains(h.finobj, p)  -> h.finobj
                  [] Contains(h.tobefnz, p) -> h.tobefnz
        i == SelectInSeq(list, LAMBDA x : x = p)
    IN  IF i = Len(list) THEN NULL ELSE list[i + 1]

\* sweeplist, at most count objects on: [h, p] with where to go on, or NULL.
RECURSIVE sweeplist(_, _, _)
sweeplist(h, p, count) ==
    LET from(curr) ==
            IF curr = NULL THEN [h |-> h, p |-> NULL]
            ELSE IF count = 0 THEN [h |-> h, p |-> p]
            ELSE IF h.mark[curr] = otherwhite(h) THEN sweeplist(freeobj(h, curr), p, count - 1)
            ELSE sweeplist(makewhite(h, curr), curr, count - 1)
    IN  from(after(h, p))

RECURSIVE sweeptolive(_, _)
sweeptolive(h, p) ==
    LET further(s) == IF s.p = p THEN sweeptolive(s.h, p) ELSE s
    IN  further(sweeplist(h, p, 1))

swept(s, state) == [s.h EXCEPT !.sweepgc = s.p, !.state = state]

\* entersweep: the pointer goes inside the list, past the objects made from now on.
entersweep(h) == swept(sweeplist([h EXCEPT !.state = "swpallgc"], "allgc", 1), "swpallgc")

sweepstep(h, next, list) ==
    LET to(s) == IF s.p # NULL THEN swept(s, h.state)
                               ELSE [s.h EXCEPT !.state = next, !.sweepgc = list]
    IN  to(IF h.sweepgc = NULL THEN [h |-> h, p |-> NULL] ELSE sweeplist(h, h.sweepgc, SweepMax))

nowatomic(h) == IF h.gray = <<>> THEN [h EXCEPT !.state = "atomic"] ELSE h

singlestep(h) ==
    CASE h.state = "pause"      -> [restartcollection(h) EXCEPT !.state = "propagate"]
      [] h.state = "propagate"  -> nowatomic(propagatemark(h))
      [] h.state = "atomic"     -> entersweep(atomic(propagateall(h)))
      [] h.state = "swpallgc"   -> sweepstep(h, "swpfinobj", "finobj")
      [] h.state = "swpfinobj"  -> sweepstep(h, "swptobefnz", "tobefnz")
      [] h.state = "swptobefnz" -> sweepstep(h, "swpend", NULL)
      [] h.state = "swpend"     -> [makewhite(h, MAIN) EXCEPT !.state = "callfin"]
      [] h.state = "callfin"    -> [h EXCEPT !.state = "pause"]

\* luaC_fullgc of an emergency, which calls no finalizers: the steps of what is under way,
\* swept without an exchange of whites if it still marks, and of a whole cycle.
RECURSIVE runcycles(_, _)
runcycles(h, n) ==
    IF h.state # "pause" THEN runcycles(singlestep(h), n)
    ELSE IF n > 0        THEN runcycles([restartcollection(h) EXCEPT !.state = "propagate"], n - 1)
    ELSE h
fullgc(h) == runcycles(IF keepinvariant(h) THEN entersweep(h) ELSE h, 1)

---------------------------------------------------------------------------------
(* What leads where.                                                         *)

\* What the program can come to from S, through weak references too.
RECURSIVE ReachedBy(_, _)
ReachedBy(h, S) ==
    LET leads(o) == KeysOf(h, o) \cup ValuesOf(h, o)
                     \cup (IF h.kind[o] = "closure" THEN upvalue(h, h.upval[o]) ELSE {})
        more == S \cup UNION {leads(o) : o \in S}
    IN  IF more = S THEN S ELSE ReachedBy(h, more)

\* What S keeps alive: not by a weak value, nor by a weak key or its value.
RECURSIVE KeptBy(_, _)
KeptBy(h, S) ==
    LET leads(o) ==
            CASE h.kind[o] = "strong"    -> KeysOf(h, o) \cup ValuesOf(h, o)
              [] h.kind[o] = "weakvalue" -> KeysOf(h, o)
              [] h.kind[o] = "ephemeron" ->
                    {e[2] : e \in {e \in h.entries[o] : e[1] \in S \cup {Plain}}}
              [] h.kind[o] = "closure"   -> upvalue(h, h.upval[o])
              [] h.kind[o] \in {"udata", "thread"} -> ValuesOf(h, o)
              [] OTHER -> {}
        more == S \cup UNION {leads(o) : o \in S}
    IN  IF more = S THEN S ELSE KeptBy(h, more)

Roots(h) == {MAIN} \cup Range(h.tobefnz) \cup Range(h.finobj)
\* What remarkupvals may keep: a new upvalue is taken for one a closure has.
Touched(h) == UNION {upvalue(h, th) : th \in {t \in GcObjs :
                  h.upvals[t] # NULL /\ h.upvals[t].open /\ h.upvals[t].touched}}
Exist(h) == {o \in GcObjs : h.kind[o] # "none"}

---------------------------------------------------------------------------------
(* The program.  It works with what is on its stack.                         *)

Held == ValuesOf(gc, MAIN)
gcPush(h, o) == [h EXCEPT !.entries[MAIN] = @ \cup {<<Plain, o>>}]

operates(h) ==
    /\ gc_ops < MaxGcOps /\ gc_ops' = gc_ops + 1 /\ UNCHANGED gc_kinds
    /\ gc' = h
    /\ gc_doomed' = gc_doomed \ KeptBy(h, Roots(h))

\* The first free address, which is as good as any other.
malloc(o) ==
    LET free(x) == gc.kind[x] = "none" /\ gc.upvals[x] = NULL
    IN  free(o) /\ o = SelectSeq(SetToSeq(GcObjs), free)[1]

\* luaC_newobj.
newobj(o, kind) ==
    LET h == gcPush([gc EXCEPT !.kind[o] = kind, !.mark[o] = gc.white, !.allgc = <<o>> \o @], o)
    IN  /\ malloc(o)
        /\ kind # "closure" /\ operates(h)

\* luaF_findupval, for a new closure over the slot of th.
newclosure(o, th) ==
    LET uv == [open |-> TRUE, value |-> {}, touched |-> TRUE]
        h  == gcPush([gc EXCEPT !.kind[o] = "closure", !.mark[o] = gc.white,
                              !.allgc = <<o>> \o @, !.upval[o] = th], o)
    IN  /\ "closure" \in gc_kinds /\ malloc(o)
        /\ th \in Held /\ gc.kind[th] = "thread"
        /\ gc.upvals[th] # NULL => gc.upvals[th].open
        /\ operates(IF gc.upvals[th] # NULL THEN h
                    ELSE [h EXCEPT !.upvals[th] = uv,
                            !.twups = IF Contains(@, th) THEN @ ELSE <<th>> \o @])

gcPop(o) == o \in Held /\ operates([gc EXCEPT !.entries[MAIN] = @ \ {<<Plain, o>>}])

\* Mutant of barrierback: a black table stays black.
barrierbackNone(h, t, v) == h

\* luaC_barrierback: the black table is to be traversed again, in the atomic step.
barrierback(h, t, v) ==
    IF h.mark[t] = "black" /\ v # Plain /\ iswhite(h, v)
      THEN [h EXCEPT !.mark[t] = "gray", !.grayagain = <<t>> \o @] ELSE h

\* luaC_barrier: the white object is marked, or in a sweep phase the black one swept.
barrier(h, o, v) ==
    IF h.mark[o] # "black" \/ ~ iswhite(h, v) THEN h
    ELSE IF keepinvariant(h) THEN marked(h, {v}) ELSE makewhite(h, o)

\* t[k] = v and t[k] = nil.
gcSet(t, k, v) ==
    LET h == [gc EXCEPT !.entries[t] = {e \in @ : e[1] # k} \cup {<<k, v>>}]
    IN  /\ t \in Held /\ gc.kind[t] \in Tables /\ v \in Held /\ k \in Held \cup {Plain}
        /\ operates(barrierback(barrierback(h, t, k), t, v))
gcUnset(t, e) ==
    /\ t \in Held /\ gc.kind[t] \in Tables /\ e \in gc.entries[t]
    /\ operates([gc EXCEPT !.entries[t] = @ \ {e}])

\* next: any entry's key and value.
gcGet(t, e) ==
    /\ t \in Held /\ gc.kind[t] \in Tables /\ e \in gc.entries[t]
    /\ operates(IF e[1] = Plain THEN gcPush(gc, e[2]) ELSE gcPush(gcPush(gc, e[1]), e[2]))

setuservalue(u, v) ==
    /\ u \in Held /\ gc.kind[u] = "udata" /\ v \in Held
    /\ operates(barrier([gc EXCEPT !.entries[u] = {<<Plain, v>>}], u, v))

\* The coroutine stores in its slot (a closure with it open does the same); no barrier.
setslot(th, v) ==
    /\ th \in Held /\ gc.kind[th] = "thread" /\ v \in Held
    /\ operates([gc EXCEPT !.entries[th] = {<<Plain, v>>}])

\* Through a closure whose upvalue is closed: luaC_upvalbarrier.
setupval(c, v) ==
    LET th == gc.upval[c]
        h  == [gc EXCEPT !.upvals[th].value = {v}]
    IN  /\ c \in Held /\ gc.kind[c] = "closure" /\ ~ gc.upvals[th].open /\ v \in Held
        /\ operates(IF keepinvariant(h) THEN marked(h, {v}) ELSE h)
getupval(c) ==
    /\ c \in Held /\ gc.kind[c] = "closure"
    /\ \E v \in upvalue(gc, gc.upval[c]) : operates(gcPush(gc, v))

\* The coroutine's block ends.
closeupval(th) ==
    /\ th \in Held /\ gc.kind[th] = "thread" /\ gc.upvals[th] # NULL /\ gc.upvals[th].open
    /\ operates(gcClose(gc, th))

\* luaC_checkfinalizer: a metatable with __gc.  Sweeping must not stand on the object moved.
checkfinalizer(o) ==
    LET g == IF issweepphase(gc) THEN makewhite(gc, o) ELSE gc
        s == IF issweepphase(g) /\ g.sweepgc = o THEN sweeptolive(g, o)
                                                 ELSE [h |-> g, p |-> g.sweepgc]
    IN  /\ o \in Held /\ gc.kind[o] \in {"strong", "udata"} /\ Contains(gc.allgc, o)
        /\ operates([s.h EXCEPT !.sweepgc = s.p, !.finobj = <<o>> \o @,
                                !.allgc = SelectSeq(@, LAMBDA x : x # o)])

\* GCTM: the first of tobefnz is given to its finalizer, back among all the others.
finalizes ==
    LET o == Head(gc.tobefnz)
        g == [gc EXCEPT !.tobefnz = Tail(@), !.allgc = <<o>> \o @]
    IN  /\ gc.tobefnz # <<>>
        /\ operates(gcPush(IF issweepphase(gc) THEN makewhite(g, o) ELSE g, o))

\* luaC_step.
gcStep ==
    /\ gc' = singlestep(gc)
    /\ gc_doomed' = IF gc.state = "pause" THEN Exist(gc) \ KeptBy(gc, Roots(gc) \cup Touched(gc))
                    ELSE IF gc.state = "callfin" THEN {} ELSE gc_doomed \cap Exist(gc')
    /\ UNCHANGED <<gc_ops, gc_kinds>>

emergency ==
    /\ operates(fullgc(gc))

GcNext ==
    \/ gcStep \/ emergency \/ finalizes
    \/ \E o \in GcObjs : \/ \E kind \in gc_kinds : newobj(o, kind)
                         \/ \E th \in GcObjs : newclosure(o, th)
                         \/ gcPop(o) \/ getupval(o) \/ closeupval(o) \/ checkfinalizer(o)
                         \/ \E v \in GcObjs : \/ setuservalue(o, v) \/ setslot(o, v)
                                              \/ setupval(o, v)
                                              \/ \E k \in GcObjs \cup {Plain} : gcSet(o, k, v)
                         \/ \E e \in gc.entries[o] : gcGet(o, e) \/ gcUnset(o, e)

---------------------------------------------------------------------------------
\* Whatever the program can come to, by weak references, closed upvalues of coroutines that
\* are gone and objects waiting for their finalizer too, is there: nothing it may use has
\* been collected, wherever its operations fell between the collector's steps.
NothingLost ==
    LET all == ReachedBy(gc, {MAIN} \cup Range(gc.tobefnz) \cup Range(gc.finobj))
    IN  all \subseteq Exist(gc) \cup {MAIN} /\ Range(gc.twups) \subseteq Exist(gc)

\* Every object is in one list, once, over the moves of checkfinalizer and of finalizers in
\* the middle of a sweep: none escapes the sweeps, and none is swept twice.
ListedOnce ==
    LET all == gc.allgc \o gc.finobj \o gc.tobefnz
    IN  IsInjective(all) /\ Range(all) = Exist(gc)

\* A cycle collects all that was garbage when it began and has remained so, in cycles,
\* as a weak key whose only other reference is its own value, or a coroutine with a closure
\* over its own slot (unless that is so new that its upvalue has never been looked at).
GarbageGone == gc.state = "callfin" => gc_doomed = {}

LuaCollects == NothingLost /\ ListedOnce /\ GarbageGone
=================================================================================
