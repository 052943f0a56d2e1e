---------------------------------- MODULE LuaDump -----------------------------------
(***************************************************************************)
(* Precompiled chunks of Lua 5.3.4: ldump.c writes a function to a writer, *)
(* lundump.c reads it back, and ldo.c decides by its first byte whether a  *)
(* chunk is one.                                                           *)
(*                                                                         *)
(* A chunk is a sequence of cells, <<"byte", y>> and the like: one for     *)
(* each value that is written at once, and one for the characters of a     *)
(* string.  A function is a prototype of LuaParser with what that leaves   *)
(* out: source, linedefined, lastlinedefined, lineinfo and locvars.  A     *)
(* TString pointer is Nil or Str(s).                                       *)
(***************************************************************************)
EXTENDS LuaParser

CONSTANT LUAI_MAXSHORTLEN     \* the longest string that is interned

byte(y) == <<"byte", y % 256>>
SIGNATURE == byte(27)         \* LUA_SIGNATURE[0]
AsByte(b) == IF b THEN 1 ELSE 0

---------------------------------------------------------------------------------
(* Writing.                                                                  *)

DumpString(s) ==
    LET size == Len(s[2]) + 1 IN
    IF s = Nil THEN <<byte(0)>>
    ELSE (IF size < 255 THEN <<byte(size)>> ELSE <<byte(255), <<"size", size>> >>)
           \o IF size = 1 THEN <<>> ELSE << <<"block", s[2]>> >>

\* DumpVector: n, and n cells of a kind.
DumpVector(kind, v) == << <<"int", Len(v)>> >> \o [i \in DOMAIN v |-> <<kind, v[i]>>]

ttype(o) == CASE o[1] = "nil" -> 0 [] o[1] = "bool" -> 1 [] o[1] = "flt" -> 3 [] o[1] = "int" -> 19
              [] o[1] = "str" -> IF Len(o[2]) <= LUAI_MAXSHORTLEN THEN 4 ELSE 20
DumpConstants(f) ==
    << <<"int", Len(f.k)>> >>
    \o FlattenSeq([i \in DOMAIN f.k |-> LET o == f.k[i] IN
         <<byte(ttype(o))>> \o CASE o[1] = "nil"  -> <<>>
                                 [] o[1] = "bool" -> <<byte(AsByte(o[2]))>>
                                 [] o[1] = "flt"  -> << <<"number", o[2]>> >>
                                 [] o[1] = "int"  -> << <<"integer", o[2]>> >>
                                 [] o[1] = "str"  -> DumpString(o)])

DumpUpvalues(f) ==
    << <<"int", Len(f.upvalues)>> >>
    \o FlattenSeq([i \in DOMAIN f.upvalues |->
         <<byte(AsByte(f.upvalues[i].instack)), byte(f.upvalues[i].idx)>>])

DumpDebug(f, strip) ==
    LET kept(v) == IF strip THEN <<>> ELSE v
        named(us) == FlattenSeq([i \in DOMAIN us |-> DumpString(us[i].name)])
        vars(vs) == FlattenSeq([i \in DOMAIN vs |-> DumpString(vs[i].varname)
                                  \o << <<"int", vs[i].startpc>>, <<"int", vs[i].endpc>> >>])
    IN  DumpVector("line", kept(f.lineinfo))
        \o << <<"int", Len(kept(f.locvars))>> >> \o vars(kept(f.locvars))
        \o << <<"int", Len(kept(f.upvalues))>> >> \o named(kept(f.upvalues))

RECURSIVE DumpFunction(_, _, _)
DumpProtos(f, strip) ==
    << <<"int", Len(f.p)>> >>
    \o FlattenSeq([i \in DOMAIN f.p |-> DumpFunction(f.p[i], f.source, strip)])
DumpFunction(f, psource, strip) ==
    DumpString(IF strip \/ f.source = psource THEN Nil ELSE f.source)
    \o << <<"int", f.linedefined>>, <<"int", f.lastlinedefined>>, byte(f.numparams),
          byte(AsByte(f.is_vararg)), byte(f.maxstacksize)>>
    \o DumpVector("instruction", f.code) \o DumpConstants(f) \o DumpUpvalues(f)
    \o DumpProtos(f, strip) \o DumpDebug(f, strip)

\* The version, LUAC_DATA, the sizes of the types and two numbers; with what is said of a chunk
\* where one of them is another.
Header == << <<"block", "Lua">>, byte(83), byte(0), <<"block", "LUAC_DATA">>, byte(4), byte(8), byte(4),
             byte(8), byte(8), <<"integer", 22136>>, <<"number", 3705>> >>
Mismatch == <<"not a", "version", "format", "corrupted", "int size", "size_t size", "Instruction size",
              "lua_Integer size", "lua_Number size", "endianness", "float format">>

\* To a writer that takes so many cells, and then fails.
luaU_dump(f, strip, room) ==
    LET all == <<SIGNATURE>> \o Header \o <<byte(Len(f.upvalues))>> \o DumpFunction(f, Nil, strip)
    IN  [status |-> IF Len(all) <= room THEN 0 ELSE 1, chunk |-> SubSeq(all, 1, Min({room, Len(all)}))]

---------------------------------------------------------------------------------
(* Reading.  S is where in the chunk z, and why nothing is read any more.    *)

Got(S, v) == [S |-> S, v |-> v]
error(S, why) == Got([S EXCEPT !.why = IF @ = "" THEN why ELSE @], 0)

\* LoadBlock of a value of this kind.
LoadVar(S, kind) ==
    IF S.why # "" THEN error(S, "")
    ELSE IF S.at > Len(S.z) THEN error(S, "truncated")
    ELSE IF S.z[S.at][1] # kind THEN error(S, "garbled")
    ELSE Got([S EXCEPT !.at = @ + 1], S.z[S.at][2])
LoadByte(S) == LoadVar(S, "byte")
LoadInt(S) == LoadVar(S, "int")

LoadString(S) ==
    LET first == LoadByte(S)
        size  == IF first.v = 255 THEN LoadVar(first.S, "size") ELSE first
        chars == LoadVar(size.S, "block")
    IN  IF size.v = 0 THEN Got(size.S, Nil)
        ELSE IF size.v = 1 THEN Got(size.S, Str(""))
        ELSE IF chars.S.why # "" THEN Got(chars.S, Nil)
        ELSE IF Len(chars.v) # size.v - 1 THEN error(chars.S, "garbled")
        ELSE Got(chars.S, Str(chars.v))

\* So many items as the next int says, each loaded by Load.
LoadVector(S, Load(_)) ==
    LET n == LoadInt(S)
        next(r, i) == LET x == Load(r.S) IN Got(x.S, Append(r.v, x.v))
    IN  FoldLeft(next, Got(n.S, <<>>), [i \in 1 .. n.v |-> i])

LoadConstant(S) ==
    LET t == LoadByte(S)
        as(kind, x) == Got(x.S, <<kind, x.v>>)
    IN  CASE t.v = 0  -> Got(t.S, Nil)
          [] t.v = 1  -> LET b == LoadByte(t.S) IN Got(b.S, Bool(b.v # 0))
          [] t.v = 3  -> as("flt", LoadVar(t.S, "number"))
          [] t.v = 19 -> as("int", LoadVar(t.S, "integer"))
          [] t.v \in {4, 20} -> LoadString(t.S)
          [] OTHER    -> error(t.S, "garbled")
LoadUpvalue(S) ==
    LET instack == LoadByte(S)
        idx     == LoadByte(instack.S)
    IN  Got(idx.S, [name |-> Nil, instack |-> instack.v # 0, idx |-> idx.v])
LoadLocvar(S) ==
    LET name  == LoadString(S)
        start == LoadInt(name.S)
        end   == LoadInt(start.S)
    IN  Got(end.S, [varname |-> name.v, startpc |-> start.v, endpc |-> end.v])
LoadInstruction(S) == LoadVar(S, "instruction")
LoadLine(S) == LoadVar(S, "line")

RECURSIVE LoadFunction(_, _)
LoadFunction(S, psource) ==
    LET source  == LoadString(S)
        named   == IF source.v = Nil THEN psource ELSE source.v
        line    == LoadInt(source.S)
        lastline == LoadInt(line.S)
        nparams == LoadByte(lastline.S)
        vararg  == LoadByte(nparams.S)
        size    == LoadByte(vararg.S)
        code    == LoadVector(size.S, LoadInstruction)
        k       == LoadVector(code.S, LoadConstant)
        ups     == LoadVector(k.S, LoadUpvalue)
        p       == LoadVector(ups.S, LAMBDA T : LoadFunction(T, named))
        lines   == LoadVector(p.S, LoadLine)
        locvars == LoadVector(lines.S, LoadLocvar)
        names   == LoadVector(locvars.S, LoadString)
    IN  Got(names.S,
            [source |-> named, linedefined |-> line.v, lastlinedefined |-> lastline.v,
             numparams |-> nparams.v, is_vararg |-> vararg.v # 0, maxstacksize |-> size.v,
             code |-> code.v, k |-> k.v, p |-> p.v, lineinfo |-> lines.v, locvars |-> locvars.v,
             upvalues |-> [i \in DOMAIN ups.v |->
                             IF i \in DOMAIN names.v THEN [ups.v[i] EXCEPT !.name = names.v[i]]
                             ELSE ups.v[i]]])

\* checkliteral and checksize, one after the other.
checkHeader(S) ==
    FoldLeft(LAMBDA T, i : LET x == LoadVar(T, Header[i][1]) IN
                           IF x.S.why = "" /\ x.v # Header[i][2] THEN error(x.S, Mismatch[i]).S ELSE x.S,
             S, [i \in DOMAIN Header |-> i])

luaU_undump(S) ==
    LET n == LoadByte(checkHeader(S))
        f == LoadFunction(n.S, Nil)
    IN  [why |-> f.S.why, p |-> f.v, nupvalues |-> n.v]

---------------------------------------------------------------------------------
(* lua_load of a binary chunk in one of the modes: a closure whose upvalues  *)
(* are new, the first of them the globals.                                   *)

f_parser(chunk, mode) ==
    IF mode \notin {"b", "bt"} THEN [why |-> "mode", p |-> Nil, nupvalues |-> 0]
    ELSE luaU_undump([z |-> chunk, at |-> 2, why |-> ""])
lua_load(chunk, mode) ==
    LET c == f_parser(chunk, mode)
    IN  [why |-> c.why, p |-> c.p,
         upvals |-> [i \in 1 .. c.nupvalues |-> IF i = 1 THEN "globals" ELSE "nil"]]

---------------------------------------------------------------------------------
\* What strip leaves of a function, as lua.h says of lua_dump: no debug information.
RECURSIVE Stripped(_)
Stripped(f) ==
    [f EXCEPT !.source = Nil, !.lineinfo = <<>>, !.locvars = <<>>,
              !.upvalues = [i \in DOMAIN @ |-> [@[i] EXCEPT !.name = Nil]],
              !.p = [i \in DOMAIN @ |-> Stripped(@[i])]]

\* A prototype of LuaParser with some debug information; a child may come from another chunk.
RECURSIVE Sourced(_, _, _)
Sourced(f, source, others) ==
    [code |-> f.code, k |-> f.k, numparams |-> f.numparams, is_vararg |-> f.is_vararg,
     maxstacksize |-> f.maxstacksize, source |-> source, linedefined |-> 0,
     lastlinedefined |-> Len(f.code), lineinfo |-> [i \in DOMAIN f.code |-> i],
     locvars |-> [i \in 1 .. f.numparams |-> [varname |-> Str("p"), startpc |-> 0, endpc |-> Len(f.code)]],
     upvalues |-> [i \in DOMAIN f.upvalues |-> [f.upvalues[i] EXCEPT !.name = Str(@)]],
     p |-> [i \in DOMAIN f.p |-> Sourced(f.p[i], others, source)]]

\* What is dumped is loaded again as it was, without what strip takes from it.
LoadsBack(f, strip) ==
    LET c == lua_load(luaU_dump(f, strip, 1000000).chunk, "b")
    IN  c.why = "" /\ c.p = (IF strip THEN Stripped(f) ELSE f) /\ Len(c.upvals) = Len(f.upvalues)

\* A chunk that a writer cut short is refused, and so is one of another version or machine.
RefusesOthers(f, strip) ==
    LET whole == luaU_dump(f, strip, 1000000).chunk
    IN  /\ luaU_dump(f, strip, Len(whole) - 1).status # 0
        /\ \A n \in 1 .. Len(whole) - 1 : lua_load(SubSeq(whole, 1, n), "bt").why = "truncated"
        /\ \A i \in DOMAIN Header :
             LET other == IF Header[i][1] = "block" THEN <<"block", "other">> ELSE <<Header[i][1], 1>>
             IN  lua_load([whole EXCEPT ![i + 1] = other], "bt").why = Mismatch[i]
        /\ lua_load(whole, "t").why = "mode"
=================================================================================
