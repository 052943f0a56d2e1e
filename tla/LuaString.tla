--------------------------------- MODULE LuaString -----------------------------------
(***************************************************************************)
(* The string table of Lua 5.3.4, lstring.c: a short string is an object   *)
(* only once, so that two of them are compared by their addresses, and a   *)
(* cache gives C strings their object again.  The table owns nothing: the  *)
(* collector frees strings while the program runs, and one it has found    *)
(* dead but not freed yet may be asked for again.                          *)
(*                                                                         *)
(* An object is at <<text, n>>: the n-th with that text at a time.  Of the *)
(* two whites, "white" is the current one and "dead" the other.  A chain   *)
(* of the table is a sequence of objects.  The cache has one row, as with  *)
(* STRCACHE_N = 1.                                                         *)
(***************************************************************************)
EXTENDS Integers, Sequences, SequencesExt, FiniteSets, FiniteSetsExt

CONSTANTS StrTexts,      \* what is in the strings: [hash, long] and a name
          STRCACHE_M,    \* length of a row of the cache
          MINSTRTABSIZE, \* chains of the table at first: one of these numbers
          MaxLong        \* bound: equal long strings there are at a time

ASSUME StringAssumption ==
    /\ \A text \in StrTexts : text.hash \in Nat /\ text.long \in BOOLEAN
    /\ STRCACHE_M \in Nat \ {0} /\ MINSTRTABSIZE \subseteq Nat \ {0} /\ MaxLong \in Nat \ {0}

VARIABLES
    st_mark,    \* the objects there are, and their marks
    st_hash,    \* the chains of the table
    st_nuse,    \* how many strings the table counts
    st_cache,   \* strcache
    st_held,    \* the objects the program holds
    st_sweep    \* the objects still to be swept; {} while the collector marks

stringVars == <<st_mark, st_hash, st_nuse, st_cache, st_held, st_sweep>>

Text(o) == o[1]
Strings == DOMAIN st_mark
memerrmsg == <<[name |-> "memerrmsg", hash |-> 0, long |-> FALSE], 1>>
isdead(o) == st_mark[o] = "dead"
tbsize == Len(st_hash)

\* The chain of an object in a table of so many.
lmod(o, n) == (Text(o).hash % n) + 1

(***************************************************************************)
(* luaS_resize: each chain of the old table is emptied, and its strings    *)
(* put one by one at the head of their new chains; chains that come later  *)
(* in the walk meet those again.                                           *)
(***************************************************************************)
relinked(hash, chain, newsize) ==
    LET f[k \in 0 .. Len(chain)] ==
            IF k = 0 THEN hash ELSE [f[k - 1] EXCEPT ![lmod(chain[k], newsize)] = <<chain[k]>> \o @]
    IN  f[Len(chain)]
rehashed(hash, n, newsize) ==
    LET f[i \in 0 .. n] ==
            IF i = 0 THEN hash ELSE relinked([f[i - 1] EXCEPT ![i] = <<>>], f[i - 1][i], newsize)
    IN  f[n]
luaS_resize(tb, newsize) ==
    LET most  == IF newsize < Len(tb) THEN Len(tb) ELSE newsize
        grown == [i \in 1 .. most |-> IF i <= Len(tb) THEN tb[i] ELSE <<>>]
    IN  [i \in 1 .. newsize |-> rehashed(grown, Len(tb), newsize)[i]]

\* createstrobj, of the current white, at a free address.
createstrobj(text) ==
    LET n == CHOOSE k \in 1 .. MaxLong + 1 : <<text, k>> \notin Strings /\ \A j \in 1 .. k - 1 : <<text, j>> \in Strings
    IN  [o    |-> <<text, n>>,
         mark |-> [x \in Strings \union {<<text, n>>} |-> IF x = <<text, n>> THEN "white" ELSE st_mark[x]]]

\* Mutant of resurrected: a string that is found is taken as it is.
resurrectedNot(o) == st_mark

\* The string found in its chain lives on.
resurrected(o) == IF isdead(o) THEN [st_mark EXCEPT ![o] = "white"] ELSE st_mark

\* internshrstr: the object with this text, the marks, and what has become of the table.
internshrstr(text) ==
    LET new   == createstrobj(text)
        list  == st_hash[lmod(new.o, tbsize)]
        equal == {k \in DOMAIN list : Text(list[k]) = text}
        found == list[Min(equal)]
        wide  == IF st_nuse >= tbsize THEN luaS_resize(st_hash, tbsize * 2) ELSE st_hash
    IN  IF equal # {}
          THEN [o |-> found, mark |-> resurrected(found), hash |-> st_hash, nuse |-> st_nuse]
          ELSE [o |-> new.o, mark |-> new.mark, nuse |-> st_nuse + 1,
                hash |-> [wide EXCEPT ![lmod(new.o, Len(wide))] = <<new.o>> \o @]]
luaS_newlstr(text) ==
    IF ~ text.long THEN internshrstr(text)
    ELSE LET new == createstrobj(text)
         IN  [o |-> new.o, mark |-> new.mark, hash |-> st_hash, nuse |-> st_nuse]

---------------------------------------------------------------------------------
(* The program.                                                              *)

\* It gets the string r that luaS_newlstr gives.
gets(r) == /\ st_mark' = r.mark /\ st_hash' = r.hash /\ st_nuse' = r.nuse
           /\ st_held' = st_held \union {r.o}
           /\ UNCHANGED st_sweep

newlstr(text) == /\ <<text, MaxLong>> \notin Strings \/ ~ text.long
                 /\ gets(luaS_newlstr(text))
                 /\ UNCHANGED st_cache

\* luaS_new: one that is in the cache, or a new one, which pushes the last one out.
luaS_new(text) ==
    LET hits == {j \in DOMAIN st_cache : Text(st_cache[j]) = text}
        r    == luaS_newlstr(text)
    IN  IF hits # {}
          THEN /\ st_held' = st_held \union {st_cache[Min(hits)]}
               /\ UNCHANGED <<st_mark, st_hash, st_nuse, st_cache, st_sweep>>
          ELSE /\ gets(r)
               /\ st_cache' = <<r.o>> \o Front(st_cache)

drops(o) == /\ st_held' = st_held \ {o}
            /\ UNCHANGED <<st_mark, st_hash, st_nuse, st_cache, st_sweep>>

---------------------------------------------------------------------------------
(* The collector.                                                            *)

\* reallymarkobject of a string the program holds, and may drop before the end of the marking.
marks(o) == /\ st_sweep = {} /\ st_mark[o] # "black"
            /\ st_mark' = [st_mark EXCEPT ![o] = "black"]
            /\ UNCHANGED <<st_hash, st_nuse, st_cache, st_held, st_sweep>>

\* Entries that will be collected are replaced by something fixed.
luaS_clearcache(mark) ==
    [j \in DOMAIN st_cache |-> IF mark[st_cache[j]] = "white" THEN memerrmsg ELSE st_cache[j]]

\* The end of atomic: what is held is marked, the cache cleared and the white flipped.
atomicStrings ==
    LET mark == [o \in Strings |-> IF o \in st_held THEN "black" ELSE st_mark[o]]
    IN  /\ st_sweep = {}
        /\ st_sweep' = Strings \ {memerrmsg}
        /\ st_cache' = luaS_clearcache(mark)
        /\ st_mark' = [o \in Strings |-> IF mark[o] = "white" THEN "dead" ELSE mark[o]]
        /\ UNCHANGED <<st_hash, st_nuse, st_held>>

luaS_remove(o) ==
    LET list == st_hash[lmod(o, tbsize)]
    IN  [st_hash EXCEPT ![lmod(o, tbsize)] = RemoveAt(list, Min({k \in DOMAIN list : list[k] = o}))]

checkSizes(hash, nuse) ==
    IF nuse < Len(hash) \div 4 THEN luaS_resize(hash, Len(hash) \div 2) ELSE hash

\* sweeplist meets o, wherever that is in allgc: it is freed, or white again.  After the last
\* one comes checkSizes.
sweep(o) ==
    LET removed == isdead(o) /\ ~ Text(o).long
        hash    == IF removed THEN luaS_remove(o) ELSE st_hash
        nuse    == IF removed THEN st_nuse - 1 ELSE st_nuse
    IN  /\ st_mark' = IF isdead(o) THEN [x \in Strings \ {o} |-> st_mark[x]]
                      ELSE [st_mark EXCEPT ![o] = "white"]
        /\ st_nuse' = nuse
        /\ st_hash' = IF st_sweep = {o} THEN checkSizes(hash, nuse) ELSE hash
        /\ st_sweep' = st_sweep \ {o}
        /\ UNCHANGED <<st_cache, st_held>>

---------------------------------------------------------------------------------
\* luaS_init: memerrmsg is there, and never collected.
StringInit ==
    /\ st_mark = [o \in {memerrmsg} |-> "black"]
    /\ \E n \in MINSTRTABSIZE : st_hash = [i \in 1 .. n |-> IF i = 1 THEN <<memerrmsg>> ELSE <<>>]
    /\ st_nuse = 1
    /\ st_cache = [j \in 1 .. STRCACHE_M |-> memerrmsg]
    /\ st_held = {}
    /\ st_sweep = {}

StringNext ==
    \/ \E text \in StrTexts : newlstr(text)
    \/ \E text \in StrTexts : ~ text.long /\ luaS_new(text)
    \/ \E o \in st_held : drops(o)
    \/ \E o \in st_held : marks(o)
    \/ atomicStrings
    \/ \E o \in st_sweep : sweep(o)

StringSpec == StringInit /\ [][StringNext]_stringVars

---------------------------------------------------------------------------------
\* luaV_equalobj: short strings by their addresses, long ones by what is in them.
eqstr(a, b) == a = b \/ (Text(a).long /\ Text(a) = Text(b))

\* What the program or the cache may use is there and will not be freed, and two strings it
\* holds are equal for the machine exactly if their texts are; a short string is once in its
\* chain and nowhere else, and counted.
StringsInterned ==
    /\ st_held \subseteq Strings
    /\ \A o \in st_held : ~ isdead(o)
    /\ \A a \in st_held, b \in st_held : eqstr(a, b) <=> Text(a) = Text(b)
    /\ \A j \in DOMAIN st_cache : st_cache[j] \in Strings /\ ~ isdead(st_cache[j])
    /\ \A i \in 1 .. tbsize :
         LET here == {o \in Strings : ~ Text(o).long /\ lmod(o, tbsize) = i}
         IN  Range(st_hash[i]) = here /\ Len(st_hash[i]) = Cardinality(here)
    /\ st_nuse = Cardinality({o \in Strings : ~ Text(o).long})
=================================================================================
