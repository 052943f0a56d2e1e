----------------------------------- MODULE Ref ----------------------------------
(***************************************************************************)
(* kit/Ref.cpp and kit/RefPool.cpp: reference counts, the tree of children *)
(* that a frame's update() walks, and the pool that gives up one reference *)
(* of every pooled object when it is cleared.  Root is the object the      *)
(* frame loop updates (Gear), which is never deleted.                      *)
(*                                                                         *)
(* A release may delete, and a deletion releases the children in its turn: *)
(* r_work is what the loops under way still have to release, and no call   *)
(* begins before it is done.                                               *)
(*                                                                         *)
(* update is virtual: what an object's own update does is any sequence of  *)
(* calls on live objects, while the walk stands where it stands.  Reading  *)
(* past the end of children_ or in a deleted object is undefined: nothing  *)
(* happens after it here.                                                  *)
(***************************************************************************)
EXTENDS Integers, Sequences, SequencesExt, FiniteSets, Null

CONSTANTS Root, Objs,    \* the objects
          MaxHolds,      \* bound: the references users keep to an object
          MaxKids,       \* bound: the children of an object
          MaxPool        \* bound: the entries of the pool

ASSUME RefAssumption ==
    /\ Root \notin Objs /\ NULL \notin Objs \cup {Root}
    /\ IsFiniteSet(Objs)
    /\ MaxHolds \in Nat \ {0} /\ MaxKids \in Nat /\ MaxPool \in Nat

VARIABLES
    r_refs,        \* object -> reference_count_; 0: no such object
    r_children,    \* object -> children_
    r_parent,      \* object -> parent_
    r_pool,        \* ref_vec_ of the current pool
    r_work,        \* the objects still to be released, the next one first
    r_holds,       \* history: object -> the references users keep
    r_walk,        \* the calls of Ref::update under way: [obj, i, cnt], innermost last
    r_bad,         \* history: update has gone out of its vector, or into a deleted object
    r_taken        \* history: a child was taken from a list being walked, or its owner died

tree == <<r_refs, r_children, r_parent>>
refVars == <<tree, r_pool, r_work, r_holds, r_walk, r_bad, r_taken>>

All == Objs \cup {Root}

RefInit ==
    /\ r_refs = [o \in All |-> IF o = Root THEN 1 ELSE 0]
    /\ r_children = [o \in All |-> <<>>] /\ r_parent = [o \in All |-> NULL]
    /\ r_pool = <<>> /\ r_work = <<>> /\ r_holds = [o \in All |-> IF o = Root THEN 1 ELSE 0]
    /\ r_walk = <<>> /\ r_bad = FALSE /\ r_taken = FALSE

\* The program may call a method of o.
alive(o) == r_refs[o] > 0 /\ r_work = <<>> /\ ~ r_bad

Walked == {r_walk[k].obj : k \in DOMAIN r_walk}

\* clearChildren sets the children's parent_ to null, whoever set it last.
orphan(o) == [c \in All |-> IF Contains(r_children[o], c) THEN NULL ELSE r_parent[c]]

\* release, of an object that somebody else keeps ...
release ==
    /\ r_work # <<>> /\ r_refs[Head(r_work)] # 1
    /\ r_refs' = [r_refs EXCEPT ![Head(r_work)] = @ - 1]
    /\ r_work' = Tail(r_work)
    /\ UNCHANGED <<r_children, r_parent, r_pool, r_holds, r_walk, r_bad, r_taken>>

\* ... or nobody: ~Ref releases the children before the loop it is called from goes on.
releaseDeletes ==
    /\ r_work # <<>> /\ r_refs[Head(r_work)] = 1
    /\ LET o == Head(r_work)
       IN  /\ r_refs' = [r_refs EXCEPT ![o] = 0]
           /\ r_children' = [r_children EXCEPT ![o] = <<>>]
           /\ r_parent' = orphan(o)
           /\ r_work' = r_children[o] \o Tail(r_work)
           /\ r_taken' = (r_taken \/ o \in Walked)
    /\ UNCHANGED <<r_pool, r_holds, r_walk, r_bad>>

---------------------------------------------------------------------------------
(* Calls of users, from inside update and from outside.                      *)

\* KIT_CREATE_FUNC: into the pool, or with the caller's reference.
refCreate(o, inpool) ==
    /\ ~ r_bad /\ r_work = <<>> /\ r_refs[o] = 0 /\ ~ Contains(r_pool, o) /\ Len(r_pool) < MaxPool
    /\ r_refs' = [r_refs EXCEPT ![o] = 1]
    /\ r_parent' = [r_parent EXCEPT ![o] = NULL]
    /\ IF inpool THEN r_pool' = Append(r_pool, o) /\ UNCHANGED r_holds
                 ELSE r_holds' = [r_holds EXCEPT ![o] = 1] /\ UNCHANGED r_pool
    /\ UNCHANGED <<r_children, r_work, r_walk, r_bad, r_taken>>

refRetain(o) ==
    /\ alive(o) /\ r_holds[o] < MaxHolds
    /\ r_refs' = [r_refs EXCEPT ![o] = @ + 1]
    /\ r_holds' = [r_holds EXCEPT ![o] = @ + 1]
    /\ UNCHANGED <<r_children, r_parent, r_pool, r_work, r_walk, r_bad, r_taken>>

refRelease(o) ==
    /\ alive(o) /\ o # Root /\ r_holds[o] > 0
    /\ r_work' = <<o>>
    /\ r_holds' = [r_holds EXCEPT ![o] = @ - 1]
    /\ UNCHANGED <<tree, r_pool, r_walk, r_bad, r_taken>>

\* The objects below o.  (Users keep the children a tree: update of a cycle never ends.)
Below(o) ==
    LET kids(S) == UNION {Range(r_children[x]) : x \in S}
        below[n \in 0 .. Cardinality(All)] ==
            IF n = 0 THEN {o} ELSE below[n - 1] \cup kids(below[n - 1])
    IN  below[Cardinality(All)]

\* addChild: the last one to add a child is its parent, though others keep it too.
addChild(p, c) ==
    /\ alive(p) /\ alive(c) /\ c # Root /\ p \notin Below(c) /\ Len(r_children[p]) < MaxKids
    /\ r_refs' = [r_refs EXCEPT ![c] = @ + 1]
    /\ r_parent' = [r_parent EXCEPT ![c] = p]
    /\ r_children' = [r_children EXCEPT ![p] = Append(@, c)]
    /\ UNCHANGED <<r_pool, r_work, r_holds, r_walk, r_bad, r_taken>>

\* Mutant of without: the child stays listed.
withoutNot(p, c) == r_children[p]

\* delChild's erase of the first entry.
without(p, c) == RemoveFirst(r_children[p], c)

delChild(p, c) ==
    /\ alive(p) /\ Contains(r_children[p], c)
    /\ r_children' = [r_children EXCEPT ![p] = without(p, c)]
    /\ r_parent' = [r_parent EXCEPT ![c] = NULL]
    /\ r_work' = <<c>>
    /\ r_taken' = (r_taken \/ p \in Walked)
    /\ UNCHANGED <<r_refs, r_pool, r_holds, r_walk, r_bad>>

removeFromParent(c) ==
    /\ alive(c) /\ r_parent[c] # NULL
    /\ delChild(r_parent[c], c)

clearChildren(p) ==
    /\ alive(p) /\ r_children[p] # <<>>
    /\ r_children' = [r_children EXCEPT ![p] = <<>>] /\ r_parent' = orphan(p)
    /\ r_work' = r_children[p]
    /\ r_taken' = (r_taken \/ p \in Walked)
    /\ UNCHANGED <<r_refs, r_pool, r_holds, r_walk, r_bad>>

---------------------------------------------------------------------------------
(* The frame.                                                                *)

\* RefPool::clear, at the end of a frame that has time left: the vector is swapped out.
poolClear ==
    /\ r_walk = <<>> /\ r_pool # <<>> /\ r_work = <<>> /\ ~ r_bad
    /\ r_work' = r_pool /\ r_pool' = <<>>
    /\ UNCHANGED <<tree, r_holds, r_walk, r_bad, r_taken>>

call(o) == [obj |-> o, i |-> 0, cnt |-> Len(r_children[o])]

\* Gear::logic.
updateRoot ==
    /\ r_walk = <<>> /\ r_work = <<>> /\ ~ r_bad
    /\ r_walk' = <<call(Root)>> /\ r_taken' = FALSE
    /\ UNCHANGED <<tree, r_pool, r_work, r_holds, r_bad>>

\* Mutant of next: the count is not the one at the beginning, and one too high.
nextPast(w) == w.i <= w.cnt
next(w) == w.i # w.cnt

\* The loop of the innermost update: the next child's update, ...
updateChild ==
    /\ r_walk # <<>> /\ r_work = <<>> /\ ~ r_bad
    /\ LET w == Last(r_walk)
       IN  /\ next(w)
           /\ r_bad' = (r_refs[w.obj] = 0 \/ w.i >= Len(r_children[w.obj]))
           /\ r_walk' = IF r_bad' THEN r_walk
                        ELSE Append([r_walk EXCEPT ![Len(r_walk)].i = @ + 1],
                                    call(r_children[w.obj][w.i + 1]))
    /\ UNCHANGED <<tree, r_pool, r_work, r_holds, r_taken>>

\* ... or the end of it.
updateReturns ==
    /\ r_walk # <<>> /\ r_work = <<>> /\ ~ r_bad
    /\ ~ next(Last(r_walk))
    /\ r_walk' = Front(r_walk)
    /\ UNCHANGED <<tree, r_pool, r_work, r_holds, r_bad, r_taken>>

RefNext ==
    \/ \E o \in Objs : \/ \E inpool \in BOOLEAN : refCreate(o, inpool)
                       \/ refRetain(o) \/ refRelease(o) \/ removeFromParent(o)
    \/ \E p \in All : clearChildren(p) \/ \E c \in Objs : addChild(p, c) \/ delChild(p, c)
    \/ release \/ releaseDeletes \/ poolClear
    \/ updateRoot \/ updateChild \/ updateReturns

RefSpec == RefInit /\ [][RefNext]_refVars

---------------------------------------------------------------------------------
\* Where the lists of children name o: whose list and the index.
Listed(o) ==
    {place \in All \X (1 .. MaxKids) :
        place[2] \in DOMAIN r_children[place[1]] /\ r_children[place[1]][place[2]] = o}

Entries(list, o) == {k \in DOMAIN list : list[k] = o}

\* Every reference is somebody's: a user's, a parent's list's or the pool's, or is about to be
\* released.  So no object dies that one of them still names, however the calls and the pool
\* interleave.
RefsBalanced ==
    \A o \in All :
        r_refs[o] = r_holds[o] + Cardinality(Listed(o)) + Cardinality(Entries(r_pool, o))
                               + Cardinality(Entries(r_work, o))

\* parent_ keeps no reference: it never names a deleted object, nor one that does not list
\* the child, although a child may be in two lists and parent_ follows the last.
ParentLists ==
    \A o \in All : r_refs[o] > 0 /\ r_parent[o] # NULL =>
        r_refs[r_parent[o]] > 0 /\ Contains(r_children[r_parent[o]], o)

\* The tree of objects is one: counts, lists and parents.
TreeKept == RefsBalanced /\ ParentLists

\* The walk of a frame's updates stays inside the vectors and the living as long as no
\* update takes a child from a list that is being walked: updates may add children there,
\* and take them elsewhere.
WalkSafe == r_taken \/ ~ r_bad
=================================================================================
