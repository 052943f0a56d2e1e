--------------------------------- MODULE LuaTable -------------------------------
(***************************************************************************)
(* ltable.c: a Lua table is an array part for the keys 1 to its size and a *)
(* hash part of nodes chained by relative links, in which a colliding key  *)
(* that is not in its main position makes way for one that is (Brent's     *)
(* variation).  A node whose value is nil keeps its key, and its place in  *)
(* the chain, until the key's main position is wanted or the table is      *)
(* rehashed.                                                               *)
(*                                                                         *)
(* The keys are integers: those that are no array index stand for the      *)
(* others, which are hashed the same way or by another modulus.  A         *)
(* traversal by next goes on while fields that exist are assigned to, as   *)
(* the manual allows.                                                      *)
(***************************************************************************)
EXTENDS Integers, Sequences, SequencesExt, FiniteSetsExt, Null

CONSTANTS TabKeys,     \* the keys
          TabSizes     \* the sizes lua_createtable is given, of either part

ASSUME LuaTableAssumption == TabKeys \subseteq Int /\ TabSizes \subseteq Nat

VARIABLES
    lt_t,        \* the table: [array, node, lastfree]
    lt_vals,     \* history: key -> its value, nil or not
    lt_key,      \* the key of the traversal under way; nil before the first
    lt_walk,     \* "none", "walking", or how the last one ended: "done", "invalid"
    lt_seen,     \* history: the keys the traversal has met, each as often as it was met
    lt_due       \* history: the keys that have not been nil since it began

tableVars == <<lt_t, lt_vals, lt_key, lt_walk, lt_seen, lt_due>>

Nil == 0    \* of values; the others are 1

---------------------------------------------------------------------------------
(* Search.                                                                   *)

sizenode(t) == Cardinality(DOMAIN t.node)
isdummy(t) == DOMAIN t.node = {}

\* hashint: the key modulo the size, a power of two.
mainposition(t, key) == key % sizenode(t)

arrayindex(key) == IF key > 0 THEN key ELSE 0

\* The node of key on the chain from n on, NULL if none has it.
RECURSIVE onChain(_, _, _)
onChain(t, n, key) ==
    IF t.node[n].key = key THEN n
    ELSE IF t.node[n].next = 0 THEN NULL
    ELSE onChain(t, n + t.node[n].next, key)

nodeOf(t, key) == IF isdummy(t) THEN NULL ELSE onChain(t, mainposition(t, key), key)

getint(t, key) ==
    IF key \in DOMAIN t.array THEN t.array[key]
    ELSE LET n == nodeOf(t, key) IN IF n = NULL THEN Nil ELSE t.node[n].val

---------------------------------------------------------------------------------
(* Sizes.                                                                    *)

RECURSIVE ceillog2(_)
ceillog2(n) == IF n <= 1 THEN 0 ELSE 1 + ceillog2((n + 1) \div 2)

\* numusearray, numusehash and the key to come: of the keys that are array indices, those
\* in each slice (2^(i-1), 2^i].
counted(keys) ==
    [i \in 0 .. 31 |-> Cardinality({k \in keys : arrayindex(k) # 0 /\ ceillog2(k) = i})]

\* computesizes: the largest power of two more than half of whose slots would be in use.
optimalSize(nums, pna) ==
    LET a(i)    == FoldSet(LAMBDA j, s : s + nums[j], 0, 0 .. i)
        fits(i) == pna > (2 ^ i) \div 2 /\ nums[i] > 0 /\ a(i) > (2 ^ i) \div 2
        all     == {i \in 0 .. ceillog2(pna) + 1 : fits(i)}
    IN  IF all = {} THEN 0 ELSE 2 ^ Max(all)

setnodevector(t, size) ==
    LET free == [key |-> NULL, val |-> Nil, next |-> 0]
        n    == IF size = 0 THEN 0 ELSE 2 ^ ceillog2(size)
    IN  [t EXCEPT !.node = [i \in 0 .. n - 1 |-> free], !.lastfree = n]

setarrayvector(t, size) ==
    [t EXCEPT !.array = [i \in 1 .. size |-> IF i \in DOMAIN @ THEN @[i] ELSE Nil]]

emptyTable == setnodevector([array |-> <<>>, node |-> <<>>, lastfree |-> 0], 0)

---------------------------------------------------------------------------------
(* Insertion.                                                                *)

\* getfreepos: lastfree goes down past the nodes that have, or have had, a key.
freepos(t) ==
    LET unused == {i \in 0 .. t.lastfree - 1 : t.node[i].key = NULL}
    IN  IF unused = {} THEN NULL ELSE Max(unused)

\* The node before mp on the chain of its key.
previous(t, mp) == CHOOSE p \in DOMAIN t.node :
    p + t.node[p].next = mp /\ t.node[p].next # 0

\* Mutant of movedTo: the node's own link is copied as it is, though links are relative.
movedToAsIs(t, mp, f) ==
    LET p == previous(t, mp)
    IN  [t EXCEPT !.node[p].next = f - p, !.node[f] = t.node[mp],
                  !.node[mp] = [@ EXCEPT !.next = 0, !.val = Nil]]

\* The colliding node of mp moves to the free one f, and the one before it is linked there.
movedTo(t, mp, f) ==
    LET p  == previous(t, mp)
        nx == t.node[mp].next
    IN  [t EXCEPT !.node[p].next = f - p,
                  !.node[f] = [t.node[mp] EXCEPT !.next = IF nx = 0 THEN 0 ELSE nx + mp - f],
                  !.node[mp] = [@ EXCEPT !.next = 0, !.val = Nil]]

\* The new node f comes second on the chain of mp.
chained(t, mp, f) ==
    LET nx == t.node[mp].next
    IN  [t EXCEPT !.node[f].next = IF nx = 0 THEN 0 ELSE mp + nx - f, !.node[mp].next = f - mp]

RECURSIVE put(_, _, _)

\* luaH_resize: what the array part loses goes to the hash part first, then the old nodes,
\* from the last to the first.
luaH_resize(t, nasize, nhsize) ==
    LET bigger == IF nasize > Len(t.array) THEN setarrayvector(t, nasize) ELSE t
        hash   == setnodevector(bigger, nhsize)
        kept   == setarrayvector(hash, nasize)
        lost   == {i \in DOMAIN t.array : i > nasize /\ t.array[i] # Nil}
        vanished == FoldLeft(LAMBDA u, i : put(u, i, t.array[i]), kept, SetToSortSeq(lost, <))
        last   == sizenode(t) - 1
    IN  FoldLeft(LAMBDA u, j : LET old == t.node[last - j]
                               IN  IF old.val = Nil THEN u ELSE put(u, old.key, old.val),
                 vanished, [j \in 1 .. last + 1 |-> j - 1])

rehash(t, key) ==
    LET keys  == {k \in DOMAIN t.array : t.array[k] # Nil} \cup {key}
                   \cup {t.node[n].key : n \in {n \in DOMAIN t.node : t.node[n].val # Nil}}
        nums  == counted(keys)
        asize == optimalSize(nums, FoldSet(LAMBDA i, s : s + nums[i], 0, 0 .. 31))
    IN  luaH_resize(t, asize, Cardinality({k \in keys : arrayindex(k) \notin 1 .. asize}))

\* luaH_newkey, and the value stored in the place it returns.
newkey(t, key, v) ==
    LET mp   == mainposition(t, key)
        f    == freepos(t)
        here(u, n) == [u EXCEPT !.node[n].key = key, !.node[n].val = v]
        down(u) == [u EXCEPT !.lastfree = f]
    IN  IF ~ isdummy(t) /\ t.node[mp].val = Nil THEN here(t, mp)
        ELSE IF isdummy(t) \/ f = NULL THEN put(rehash(t, key), key, v)
        ELSE IF mainposition(t, t.node[mp].key) # mp THEN here(down(movedTo(t, mp, f)), mp)
        ELSE here(down(chained(t, mp, f)), f)

\* luaH_set.
put(t, key, v) ==
    IF key \in DOMAIN t.array THEN [t EXCEPT !.array[key] = v]
    ELSE LET n == nodeOf(t, key)
         IN  IF n # NULL THEN [t EXCEPT !.node[n].val = v] ELSE newkey(t, key, v)

---------------------------------------------------------------------------------
(* The border.                                                               *)

RECURSIVE between(_, _, _)
\* Binary search: i is present (or 0), j is not.
between(t, i, j) ==
    IF j - i <= 1 THEN i
    ELSE LET m == (i + j) \div 2
         IN  IF getint(t, m) = Nil THEN between(t, i, m) ELSE between(t, m, j)

RECURSIVE unbound(_, _, _)
unbound(t, i, j) == IF getint(t, j) # Nil THEN unbound(t, j, j * 2) ELSE between(t, i, j)

getn(t) ==
    LET j == Len(t.array)
    IN  IF j > 0 /\ t.array[j] = Nil THEN between(t, 0, j)
        ELSE IF isdummy(t) THEN j
        ELSE unbound(t, j, j + 1)

---------------------------------------------------------------------------------
(* Operations.                                                               *)

TableInit ==
    /\ \E na, nh \in TabSizes : lt_t = luaH_resize(emptyTable, na, nh)
    /\ lt_vals = [k \in TabKeys |-> Nil]
    /\ lt_key = NULL /\ lt_walk = "none" /\ lt_seen = <<>> /\ lt_due = {}

\* t[k] = v.  During a traversal only of fields that exist.
tableSet(k, v) ==
    /\ lt_walk # "invalid"
    /\ lt_walk = "walking" => lt_vals[k] # Nil
    /\ lt_t' = put(lt_t, k, v)
    /\ lt_vals' = [lt_vals EXCEPT ![k] = v]
    /\ lt_due' = IF v = Nil THEN lt_due \ {k} ELSE lt_due
    /\ lt_walk' = IF lt_walk = "done" THEN "none" ELSE lt_walk
    /\ lt_seen' = IF lt_walk = "walking" THEN lt_seen ELSE <<>>
    /\ UNCHANGED lt_key

walk ==
    /\ lt_walk # "walking"
    /\ lt_walk' = "walking" /\ lt_key' = NULL /\ lt_seen' = <<>>
    /\ lt_due' = {k \in TabKeys : lt_vals[k] # Nil}
    /\ UNCHANGED <<lt_t, lt_vals>>

\* findindex: the elements before the key's successor, those of the array part first; or
\* NULL, where the key is nowhere.
findindex(t, key) ==
    IF key = NULL THEN 0
    ELSE IF key \in DOMAIN t.array THEN key
    ELSE LET n == nodeOf(t, key) IN IF n = NULL THEN NULL ELSE n + 1 + Len(t.array)

\* luaH_next.
next(t, i) ==
    LET val(j)  == IF j < Len(t.array) THEN t.array[j + 1] ELSE t.node[j - Len(t.array)].val
        more    == {j \in i .. Len(t.array) + sizenode(t) - 1 : val(j) # Nil}
    IN  IF more = {} THEN NULL
        ELSE IF Min(more) < Len(t.array) THEN Min(more) + 1
        ELSE t.node[Min(more) - Len(t.array)].key

tableNext ==
    LET i == findindex(lt_t, lt_key)
        k == next(lt_t, i)
    IN  /\ lt_walk = "walking"
        /\ IF i = NULL THEN lt_walk' = "invalid" /\ UNCHANGED <<lt_key, lt_seen, lt_due>>
           ELSE IF k # NULL
             THEN lt_key' = k /\ lt_seen' = Append(lt_seen, k) /\ UNCHANGED <<lt_walk, lt_due>>
             ELSE /\ lt_walk' = "done" /\ lt_due' = lt_due \ Range(lt_seen)
                  /\ lt_key' = NULL /\ UNCHANGED lt_seen
        /\ UNCHANGED <<lt_t, lt_vals>>

TableNext == walk \/ tableNext \/ \E k \in TabKeys, v \in {Nil, 1} : tableSet(k, v)

---------------------------------------------------------------------------------
\* Whatever was assigned and wherever collisions and rehashes have moved it, every key has
\* the value last assigned to it.
KeysFound == \A k \in TabKeys : getint(lt_t, k) = lt_vals[k]

\* The length is a border: the last element before a nil.
BorderFound ==
    LET n == getn(lt_t)
    IN  (n = 0 \/ getint(lt_t, n) # Nil) /\ getint(lt_t, n + 1) = Nil

\* A traversal during which existing fields are assigned to, or cleared, never loses its
\* place, meets no key twice, and meets every key that has kept a value.
WalkMeetsAll ==
    /\ lt_walk # "invalid"
    /\ IsInjective(lt_seen)
    /\ lt_walk = "done" => lt_due = {}

TablesFind == KeysFound /\ BorderFound /\ WalkMeetsAll
=================================================================================
