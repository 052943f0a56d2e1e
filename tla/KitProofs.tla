-------------------------------- MODULE KitProofs --------------------------------
(***************************************************************************)
(* Gear's frame loop and kit/Emitter.h: after a late frame, or a sleep     *)
(* that took too long, short frames pay what is owed and the RefPool is    *)
(* cleared again, for every frame length and every bound; an emission      *)
(* calls whom it should; two threads share a ring of any length;           *)
(* references are counted, and the tree of objects walked, as they should; *)
(* and MinQueue and Array keep the orders they promise.                    *)
(***************************************************************************)
EXTENDS Gear, Emitter, SyncQueue, Ref, Collections, TLAPS, FiniteSetTheorems,
        FunctionTheorems, SequenceTheorems, WellFoundedInduction

---------------------------------------------------------------------------------
(* The frame loop.                                                           *)

Lag == g_now - g_due
Over(x) == IF x > 0 THEN x ELSE 0

GearTypes ==
    /\ g_begin \in Nat /\ g_now \in Nat /\ g_due \in Int /\ g_due >= - FrameMsec
    /\ g_wait \in Nat /\ g_debt \in Nat /\ g_unclear \in Nat

\* What is still to be paid before a short frame clears the pool: the frame ended late, so
\* wait_time_ is by how much, ...
LateOwed ==
    /\ Lag > FrameMsec /\ g_wait = Lag - FrameMsec
    /\ g_unclear * (FrameMsec - Short) + g_wait + 2 * FrameMsec - Short <= g_debt + 2 * FrameMsec

\* ... or it did not, and each frame pays with what is left of it, or with how far it is
\* ahead, ...
WaitOwed ==
    /\ Lag <= FrameMsec /\ g_wait <= FrameMsec
    /\ g_unclear * (FrameMsec - Short) + Over(Lag) + g_wait <= g_debt + 2 * FrameMsec

\* ... or it has slept.
NoneOwed == g_wait = 0 /\ g_unclear = 0 /\ g_debt >= Lag - FrameMsec

GearInv ==
    /\ GearTypes
    /\ Unwrapped => g_begin = g_due % U32 /\ (LateOwed \/ WaitOwed \/ NoneOwed)

LEMMA GearConstants ==
    /\ FrameMsec \in Nat \ {0} /\ U32 \in Int /\ U32 > 4 * FrameMsec
    /\ Short \in 0 .. FrameMsec - 1 /\ Durations \subseteq Nat /\ Oversleep \subseteq Nat
  BY GearAssumption

\* begine_time_ of the next frame, while neither time has passed 2^32.
LEMMA NextBegin ==
    ASSUME NEW u \in Nat, NEW f \in Nat, u > 4 * f, NEW d \in Int, d >= - f, d + f < u
    PROVE  ((d % u) + f) % u = d + f /\ d + f = (d + f) % u
<1>1. CASE d >= 0
  <2>1. d % u = d
    BY <1>1
  <2> QED
    BY <1>1, <2>1
<1>2. CASE d < 0
  <2>1. d % u = d + u
    BY <1>2
  <2>2. (d + u + f) % u = d + f
    BY <1>2
  <2>3. d + f = (d + f) % u
    BY <1>2
  <2> QED
    BY <2>1, <2>2, <2>3
<1> QED
    BY <1>1, <1>2

\* What timing and paid make of B and E, the times they compare.
LEMMA Paid ==
    ASSUME NEW B \in Nat, NEW E \in Nat, g_wait \in Nat, NEW r, r = paid(timing(B, E))
    PROVE  /\ r.spare \in Nat /\ r.wait \in Nat
           /\ \/ E - B > FrameMsec /\ r.spare = 0 /\ r.wait = E - B - FrameMsec
              \/ /\ E > B /\ E - B <= FrameMsec
                 /\ \/ r.spare = 0 /\ g_wait >= FrameMsec - (E - B)
                                   /\ r.wait = g_wait - (FrameMsec - (E - B))
                    \/ r.spare = FrameMsec - (E - B) /\ r.wait = 0 /\ r.spare > 0
              \/ /\ E <= B
                 /\ \/ r.spare = 0 /\ g_wait >= B - E /\ r.wait = g_wait - (B - E)
                    \/ r.spare = B - E /\ r.wait = 0 /\ r.spare > 0
<1>0. FrameMsec \in Nat \ {0}
    BY GearConstants
<1>1. CASE E > B /\ E - B > FrameMsec
  <2>1. timing(B, E) = [spare |-> 0, wait |-> E - B - FrameMsec]
    BY <1>0, <1>1 DEF timing
  <2>2. E - B - FrameMsec \in Nat
    BY <1>0, <1>1
  <2>3. paid(timing(B, E)) = [spare |-> 0, wait |-> E - B - FrameMsec]
    BY <2>1, <2>2 DEF paid
  <2> QED
    BY <1>1, <2>2, <2>3
<1>2. CASE E > B /\ E - B <= FrameMsec
  <2>1. timing(B, E) = [spare |-> FrameMsec - (E - B), wait |-> g_wait]
    BY <1>0, <1>2 DEF timing
  <2>2. FrameMsec - (E - B) \in Nat
    BY <1>0, <1>2
  <2>3. paid(timing(B, E)) = IF g_wait >= FrameMsec - (E - B)
                               THEN [spare |-> 0, wait |-> g_wait - (FrameMsec - (E - B))]
                               ELSE [spare |-> FrameMsec - (E - B), wait |-> 0]
    BY <2>1, <2>2 DEF paid
  <2> QED
    BY <1>2, <2>2, <2>3
<1>3. CASE E <= B
  <2>1. timing(B, E) = [spare |-> B - E, wait |-> g_wait]
    BY <1>0, <1>3 DEF timing
  <2>2. B - E \in Nat
    BY <1>3
  <2>3. paid(timing(B, E)) = IF g_wait >= B - E
                               THEN [spare |-> 0, wait |-> g_wait - (B - E)]
                               ELSE [spare |-> B - E, wait |-> 0]
    BY <2>1, <2>2 DEF paid
  <2> QED
    BY <1>3, <2>2, <2>3
<1> QED
    BY <1>0, <1>1, <1>2, <1>3

LEMMA GearInitial == GearInit => GearInv
<1> SUFFICES ASSUME GearInit PROVE GearInv
    OBVIOUS
<1>1. /\ g_now \in Nat /\ g_begin = (g_now - FrameMsec) % U32 /\ g_due = g_now - FrameMsec
      /\ g_wait = 0 /\ g_debt = 0 /\ g_unclear = 0 /\ FrameMsec \in Nat \ {0}
      /\ U32 \in Int /\ U32 > 4 * FrameMsec
    BY GearConstants, GearAssumption DEF GearInit
<1>2. g_begin \in Nat
    BY <1>1
<1>3. GearTypes
    BY <1>1, <1>2 DEF GearTypes
<1>4. NoneOwed
    BY <1>1 DEF NoneOwed, Lag
<1> QED
    BY <1>1, <1>3, <1>4 DEF GearInv

LEMMA GearStep ==
    ASSUME GearInv, NEW duration \in Durations, NEW over \in Oversleep, mainLoop(duration, over)
    PROVE  GearInv'
<1> DEFINE begin == (g_begin + FrameMsec) % U32
           end   == g_now + duration
           r     == paid(timing(begin, end % U32))
<1>1. /\ FrameMsec \in Nat \ {0} /\ U32 \in Nat /\ U32 > 4 * FrameMsec
      /\ Short \in 0 .. FrameMsec - 1 /\ duration \in Nat /\ over \in Nat
    BY GearConstants
<1>2. /\ g_begin \in Nat /\ g_now \in Nat /\ g_due \in Int /\ g_due >= - FrameMsec
      /\ g_wait \in Nat /\ g_debt \in Nat /\ g_unclear \in Nat
    BY DEF GearInv, GearTypes
<1>3. begin \in Nat /\ end \in Nat /\ end % U32 \in Nat
    BY <1>1, <1>2
<1>4. /\ r.spare = 0 => over = 0
      /\ g_begin' = begin /\ g_due' = g_due + FrameMsec /\ g_wait' = r.wait
      /\ g_now' = end + r.spare + over
      /\ IF duration > Short \/ r.spare > 0
           THEN g_debt' = Over(g_now' - (g_due' + FrameMsec)) /\ g_unclear' = 0
           ELSE g_debt' = g_debt /\ g_unclear' = g_unclear + 1
    BY DEF mainLoop, Over
<1>0. PICK spare, wait : spare = r.spare /\ wait = r.wait
    OBVIOUS
<1>5. PICK B \in Nat, E \in Nat :
         B = begin /\ E = end % U32 /\ spare = r.spare /\ wait = r.wait
    BY <1>0, <1>3
<1>6. /\ spare \in Nat /\ wait \in Nat
      /\ \/ E - B > FrameMsec /\ spare = 0 /\ wait = E - B - FrameMsec
         \/ /\ E > B /\ E - B <= FrameMsec
            /\ \/ spare = 0 /\ g_wait >= FrameMsec - (E - B) /\ wait = g_wait - (FrameMsec - (E - B))
               \/ spare = FrameMsec - (E - B) /\ wait = 0 /\ spare > 0
         \/ /\ E <= B
            /\ \/ spare = 0 /\ g_wait >= B - E /\ wait = g_wait - (B - E)
               \/ spare = B - E /\ wait = 0 /\ spare > 0
  <2>1. PICK q : q = paid(timing(B, E)) /\ spare = q.spare /\ wait = q.wait
    BY <1>5
  <2>2. /\ q.spare \in Nat /\ q.wait \in Nat
        /\ \/ E - B > FrameMsec /\ q.spare = 0 /\ q.wait = E - B - FrameMsec
           \/ /\ E > B /\ E - B <= FrameMsec
              /\ \/ /\ q.spare = 0 /\ g_wait >= FrameMsec - (E - B)
                    /\ q.wait = g_wait - (FrameMsec - (E - B))
                 \/ q.spare = FrameMsec - (E - B) /\ q.wait = 0 /\ q.spare > 0
           \/ /\ E <= B
              /\ \/ q.spare = 0 /\ g_wait >= B - E /\ q.wait = g_wait - (B - E)
                 \/ q.spare = B - E /\ q.wait = 0 /\ q.spare > 0
    BY <1>2, <2>1, Paid
  <2> QED
    BY <2>1, <2>2
<1> HIDE DEF begin, r
<1>7. /\ spare = 0 => over = 0
      /\ g_begin' = B /\ g_due' = g_due + FrameMsec /\ g_wait' = wait
      /\ g_now' = g_now + duration + spare + over
      /\ IF duration > Short \/ spare > 0
           THEN g_debt' = Over(g_now' - (g_due' + FrameMsec)) /\ g_unclear' = 0
           ELSE g_debt' = g_debt /\ g_unclear' = g_unclear + 1
    BY <1>4, <1>5
<1>8. GearTypes'
  <2>1. /\ g_begin' \in Nat /\ g_now' \in Nat /\ g_due' \in Int /\ g_due' >= - FrameMsec
        /\ g_wait' \in Nat
    BY <1>1, <1>2, <1>6, <1>7
  <2>2. g_unclear' \in Nat
    BY <1>2, <1>7
  <2>3. g_debt' \in Nat
    <3>1. \A x \in Int : Over(x) \in Nat
      BY DEF Over
    <3>2. g_now' - (g_due' + FrameMsec) \in Int
      BY <1>1, <2>1
    <3> QED
      BY <1>2, <1>7, <3>1, <3>2
  <2> QED
    BY <2>1, <2>2, <2>3 DEF GearTypes
<1>9. ASSUME Unwrapped'
      PROVE  g_begin' = g_due' % U32 /\ (LateOwed \/ WaitOwed \/ NoneOwed)'
  <2>1. g_now' < U32 /\ g_due' < U32
    BY <1>9 DEF Unwrapped
  <2>2. g_begin = g_due % U32 /\ (LateOwed \/ WaitOwed \/ NoneOwed)
    <3>1. g_now < U32 /\ g_due < U32
      BY <1>1, <1>2, <1>6, <1>7, <2>1
    <3> QED
      BY <3>1 DEF GearInv, Unwrapped
  <2>3. B = g_due + FrameMsec /\ g_begin' = g_due' % U32
    BY <1>1, <1>2, <1>5, <1>7, <2>1, <2>2, NextBegin DEF begin
  <2>4. E = g_now + duration
    <3>1. end \in 0 .. U32 - 1
      BY <1>1, <1>2, <1>6, <1>7, <2>1
    <3> QED
      BY <1>1, <1>5, <3>1
  <2>5. PICK m \in Int : m = g_unclear * (FrameMsec - Short)
    BY <1>1, <1>2
  <2>6. /\ (g_unclear + 1) * (FrameMsec - Short) = m + FrameMsec - Short
        /\ 0 * (FrameMsec - Short) = 0
    BY <1>1, <1>2, <2>5
  <2>x. PICK l \in Int : l = Lag
    BY <1>2 DEF Lag
  <2>y. E - B = l - FrameMsec + duration /\ Lag' = E - B + spare + over
    BY <1>1, <1>2, <1>6, <1>7, <2>3, <2>4, <2>x DEF Lag
  <2>7. CASE spare > 0
    <3>1. g_unclear' = 0 /\ wait = 0 /\ g_debt' = Over(g_now' - (g_due' + FrameMsec))
      BY <1>1, <1>6, <1>7, <2>7
    <3>2. g_debt' >= Lag' - FrameMsec
      <4>1. \A x \in Int : Over(x) >= x
        BY DEF Over
      <4>2. g_now' \in Int /\ g_due' \in Int /\ g_now' - (g_due' + FrameMsec) \in Int
        BY <1>1, <1>2, <1>6, <1>7
      <4>3. Lag' - FrameMsec = g_now' - (g_due' + FrameMsec)
        BY <1>1, <4>2 DEF Lag
      <4> QED
        BY <3>1, <4>1, <4>2, <4>3
    <3> QED
      BY <1>7, <2>3, <3>1, <3>2 DEF NoneOwed
  <2>8. CASE spare = 0 /\ E - B > FrameMsec
    <3>1. wait = E - B - FrameMsec /\ over = 0 /\ Lag' = E - B /\ g_wait' = Lag' - FrameMsec
      BY <1>1, <1>6, <1>7, <2>y, <2>8
    <3>2. CASE duration > Short
      <4>1. g_unclear' = 0 /\ g_debt' = Lag' - FrameMsec
        <5>1. /\ g_unclear' = 0 /\ g_debt' = Over(g_now' - (g_due' + FrameMsec))
              /\ g_now' \in Int /\ g_due' \in Int
          BY <1>1, <1>2, <1>6, <1>7, <3>2
        <5>2. g_now' - (g_due' + FrameMsec) = Lag' - FrameMsec
          BY <1>1, <5>1 DEF Lag
        <5>3. \A x \in Int : x > 0 => Over(x) = x
          BY DEF Over
        <5>4. Lag' - FrameMsec \in Int /\ Lag' - FrameMsec > 0
          BY <1>1, <2>8, <3>1
        <5> QED
          BY <5>1, <5>2, <5>3, <5>4
      <4>2. g_unclear' * (FrameMsec - Short) = 0
        BY <2>6, <4>1
      <4>3. LateOwed'
        BY <1>1, <2>8, <3>1, <4>1, <4>2 DEF LateOwed
      <4> QED
        BY <2>3, <4>3
    <3>3. CASE ~ duration > Short
      <4>1. g_unclear' = g_unclear + 1 /\ g_debt' = g_debt
        BY <1>7, <2>8, <3>3
      <4>2. g_unclear' * (FrameMsec - Short) = m + FrameMsec - Short
        BY <2>6, <4>1
      <4>3. duration <= Short
        BY <1>1, <3>3
      <4>4. CASE LateOwed
        <5>1. l > FrameMsec /\ g_wait = l - FrameMsec /\ m + g_wait + 2 * FrameMsec - Short <= g_debt + 2 * FrameMsec
          BY <2>5, <2>x, <4>4 DEF LateOwed
        <5> QED
          BY <1>1, <1>2, <2>3, <2>y, <2>8, <3>1, <4>1, <4>2, <4>3, <5>1 DEF LateOwed
      <4>5. CASE WaitOwed
        BY <1>1, <1>2, <2>x, <2>y, <2>8, <4>3, <4>5 DEF WaitOwed
      <4>6. CASE NoneOwed
        <5>1. g_wait = 0 /\ m = 0 /\ g_debt >= l - FrameMsec
          BY <2>5, <2>6, <2>x, <4>6 DEF NoneOwed
        <5> QED
          BY <1>1, <1>2, <2>3, <2>y, <2>8, <3>1, <4>1, <4>2, <4>3, <5>1 DEF LateOwed
      <4> QED
        BY <2>2, <4>4, <4>5, <4>6
    <3> QED
      BY <3>2, <3>3
  <2>9. CASE spare = 0 /\ E - B <= FrameMsec
    <3>0. \A x \in Int : Over(x) \in Nat /\ (x >= 0 => Over(x) = x) /\ (x <= 0 => Over(x) = 0)
      BY DEF Over
    <3>1. /\ over = 0 /\ Lag' = E - B /\ g_wait' = wait /\ Lag' \in Int /\ Lag' <= FrameMsec
          /\ \/ Lag' > 0 /\ wait = g_wait - (FrameMsec - Lag')
             \/ Lag' <= 0 /\ wait = g_wait + Lag'
      BY <1>1, <1>2, <1>6, <1>7, <2>y, <2>9
    <3> DEFINE Less == /\ wait <= FrameMsec
                       /\ duration <= Short =>
                             m + FrameMsec - Short + Over(Lag') + wait <= g_debt + 2 * FrameMsec
    <3>2. ASSUME LateOwed PROVE Less
      <4>1. /\ l > FrameMsec /\ g_wait = l - FrameMsec
            /\ m + g_wait + 2 * FrameMsec - Short <= g_debt + 2 * FrameMsec
        BY <2>5, <2>x, <3>2 DEF LateOwed
      <4>2. /\ Lag' > 0 /\ wait = g_wait - (FrameMsec - Lag') /\ wait <= FrameMsec
            /\ m + FrameMsec - Short + Lag' + wait <= g_debt + 2 * FrameMsec
        BY <1>1, <1>2, <2>y, <3>1, <4>1
      <4> QED
        BY <1>1, <3>0, <3>1, <4>2
    <3>3. ASSUME WaitOwed PROVE Less
      <4>1. /\ l <= FrameMsec /\ g_wait <= FrameMsec
            /\ m + Over(l) + g_wait <= g_debt + 2 * FrameMsec
        BY <2>5, <2>x, <3>3 DEF WaitOwed
      <4>2. Over(l) >= l /\ Over(l) \in Nat /\ Over(Lag') \in Nat
        BY <3>0, <3>1
      <4>3. wait <= g_wait
        BY <1>1, <1>2, <3>1
      <4>4. ASSUME duration <= Short
            PROVE  FrameMsec - Short + Over(Lag') + wait <= Over(l) + g_wait
        BY <1>1, <1>2, <1>6, <2>y, <3>0, <3>1, <4>2, <4>4
      <4> QED
        BY <1>1, <1>2, <1>6, <4>1, <4>2, <4>3, <4>4
    <3>4. ASSUME NoneOwed PROVE Less
      <4>1. g_wait = 0 /\ m = 0
        BY <2>5, <2>6, <3>4 DEF NoneOwed
      <4>2. wait = 0 /\ Over(Lag') \in Nat /\ Over(Lag') <= FrameMsec
        BY <1>1, <1>6, <3>0, <3>1, <4>1
      <4> QED
        BY <1>1, <1>2, <4>1, <4>2
    <3>5. Less
      BY <2>2, <3>2, <3>3, <3>4
    <3> HIDE DEF Less
    <3>6. CASE duration > Short
      <4>1. /\ g_unclear' = 0 /\ g_debt' = Over(g_now' - (g_due' + FrameMsec))
            /\ g_now' \in Int /\ g_due' \in Int
        BY <1>1, <1>2, <1>6, <1>7, <3>6
      <4>2. g_now' - (g_due' + FrameMsec) \in Int
        BY <1>1, <4>1
      <4>3. g_debt' \in Nat
        BY <3>0, <4>1, <4>2
      <4>4. g_unclear' * (FrameMsec - Short) = 0
        BY <2>6, <4>1
      <4>5. Over(Lag') <= FrameMsec /\ Over(Lag') \in Nat
        BY <1>1, <3>0, <3>1
      <4>6. WaitOwed'
        BY <1>1, <1>6, <3>1, <3>5, <4>3, <4>4, <4>5 DEF WaitOwed, Less
      <4> QED
        BY <2>3, <4>6
    <3>7. CASE ~ duration > Short
      <4>1. g_unclear' = g_unclear + 1 /\ g_debt' = g_debt
        BY <1>7, <2>9, <3>7
      <4>2. g_unclear' * (FrameMsec - Short) = m + FrameMsec - Short
        BY <2>6, <4>1
      <4>3. duration <= Short
        BY <1>1, <3>7
      <4>4. WaitOwed'
        BY <3>1, <3>5, <4>1, <4>2, <4>3 DEF WaitOwed, Less
      <4> QED
        BY <2>3, <4>4
    <3> QED
      BY <3>6, <3>7
  <2> QED
    BY <1>1, <1>6, <2>7, <2>8, <2>9
<1> QED
    BY <1>8, <1>9 DEF GearInv

\* Nothing of what is owed is lost or counted twice, so a bad frame, whatever it took, and
\* a sleep, however long, keep the pool from being cleared for no more short frames than
\* pay for them.
THEOREM GearClears == GearSpec => []PoolClearedAgain
<1>1. GearSpec => []GearInv
  <2>1. GearInv /\ [GearNext]_gearVars => GearInv'
    <3>1. GearInv /\ GearNext => GearInv'
      BY GearStep DEF GearNext
    <3>2. GearInv /\ UNCHANGED gearVars => GearInv'
      BY DEF gearVars, GearInv, GearTypes, Unwrapped, LateOwed, WaitOwed, NoneOwed, Lag
    <3> QED
      BY <3>1, <3>2
  <2> QED
    BY <2>1, GearInitial, PTL DEF GearSpec
<1>2. GearInv => PoolClearedAgain
  <2> SUFFICES ASSUME GearInv, Unwrapped
               PROVE  g_unclear * (FrameMsec - Short) <= g_debt + 2 * FrameMsec
      BY DEF PoolClearedAgain
  <2>1. /\ FrameMsec \in Nat \ {0} /\ Short \in 0 .. FrameMsec - 1
        /\ g_wait \in Nat /\ g_debt \in Nat /\ g_unclear \in Nat /\ Lag \in Int
    BY GearConstants DEF GearInv, GearTypes, Lag
  <2>2. PICK m \in Int : m = g_unclear * (FrameMsec - Short)
    BY <2>1
  <2>3. CASE LateOwed
    BY <2>1, <2>2, <2>3 DEF LateOwed
  <2>4. CASE WaitOwed
    <3>1. Over(Lag) \in Nat
      BY <2>1 DEF Over
    <3>2. m + Over(Lag) + g_wait <= g_debt + 2 * FrameMsec
      BY <2>2, <2>4 DEF WaitOwed
    <3> QED
      BY <2>1, <2>2, <3>1, <3>2
  <2>5. CASE NoneOwed
    <3>1. g_unclear * (FrameMsec - Short) = 0
      BY <2>1, <2>5 DEF NoneOwed
    <3> QED
      BY <2>1, <3>1
  <2> QED
    BY <2>3, <2>4, <2>5 DEF GearInv
<1> QED
    BY <1>1, <1>2, PTL

---------------------------------------------------------------------------------
(* An emission.                                                              *)

Item == [id : Handlers, once : BOOLEAN, deleted : BOOLEAN]

Call == [i : Nat, tail : Nat, len : Nat, running : BOOLEAN, moved : BOOLEAN,
         start : SUBSET Handlers, called : Seq(Handlers), offed : SUBSET Handlers]

\* V is the vector, the first n of its items are the handlers', the rest are left over from
\* swaps: each id once, and each item as it was registered.
Items(V, n) ==
    /\ V \in Seq(Item) /\ n \in 0 .. Len(V)
    /\ \A k \in 1 .. Len(V) : V[k].id \in 1 .. e_id /\ (V[k].once <=> V[k].id \in e_once)
    /\ \A j, k \in 1 .. n : V[j].id = V[k].id => j = k

\* id has an item among those from m to n, and not a deleted one.
Alive(V, m, n, id) == \E k \in m .. n : V[k].id = id /\ ~ V[k].deleted

\* run is the id whose handler is running, or 0.
Registered(V, n, run) ==
    \A id \in 1 .. e_id :
        Alive(V, 1, n, id) <=> id \notin e_off /\ (id \in e_once => e_fired[id] = 0 \/ id = run)

Called(c, id) == \E k \in 1 .. Len(c.called) : c.called[k] = id

\* How far an emission has come: whom it has called, and who is still to come.
Progress(V, c) ==
    /\ c.i \in 0 .. c.tail /\ c.tail \in 0 .. Len(V) /\ c.len = Len(V) /\ ~ c.moved
    /\ \A k \in 1 .. Len(c.called) : c.called[k] \in c.start
    /\ \A j, k \in 1 .. Len(c.called) : c.called[j] = c.called[k] => j = k
    /\ \A k \in c.i + 1 .. c.tail :
          /\ V[k].id \in c.start \/ V[k].deleted
          /\ Called(c, V[k].id) => c.running /\ k = c.i + 1
    /\ \A id \in c.start : id \in c.offed \/ Called(c, id) \/ Alive(V, c.i + 1, c.tail, id)

\* The item whose handler runs.
Running(V, c) ==
    /\ c.i < c.tail /\ Called(c, V[c.i + 1].id) /\ e_fired[V[c.i + 1].id] # 0

EmitterTypes ==
    /\ e_id \in 0 .. MaxHandlers /\ e_fired \in [Handlers -> Nat]
    /\ e_once \subseteq 1 .. e_id /\ e_off \subseteq 1 .. e_id
    /\ \A id \in Handlers : id > e_id => e_fired[id] = 0

Quiet == e_calls = <<>> /\ Items(e_vec, Len(e_vec)) /\ Registered(e_vec, Len(e_vec), 0)

Emitting(c) ==
    /\ e_calls = <<c>> /\ Items(e_vec, c.tail) /\ Progress(e_vec, c)
    /\ IF c.running
         THEN Running(e_vec, c) /\ Registered(e_vec, c.tail, e_vec[c.i + 1].id)
         ELSE Registered(e_vec, c.tail, 0)

Still == EmitterTypes /\ (Quiet \/ \E c \in Call : Emitting(c))

\* While no handler registers or emits.
EmitterInv == ~ e_inside => Still

LEMMA One ==
    ASSUME NEW c \in Call, e_calls = <<c>>
    PROVE  /\ Last(e_calls) = c /\ Front(e_calls) = <<>> /\ e_calls # <<>> /\ Len(e_calls) = 1
           /\ \A d : [e_calls EXCEPT ![Len(e_calls)] = d] = <<d>>
           /\ \A id : [k \in DOMAIN e_calls |-> [e_calls[k] EXCEPT !.offed = @ \cup {id}]]
                         = <<[c EXCEPT !.offed = @ \cup {id}]>>
  BY DEF Last, Front

\* The item at i + 1 is replaced by the one at t, which is left over.
LEMMA Swapped ==
    ASSUME NEW V \in Seq(Item), NEW i \in Nat, NEW t \in 0 .. Len(V), i < t, NEW V2,
           V2 = swapped(V, i + 1, t)
    PROVE  /\ V2 \in Seq(Item) /\ Len(V2) = Len(V) /\ i + 1 \in 1 .. Len(V)
           /\ \A k \in 1 .. Len(V) : V2[k] = IF k = i + 1 THEN V[t] ELSE V[k]
<1>1. i + 1 \in 1 .. Len(V) /\ t \in 1 .. Len(V) /\ Len(V) \in Nat
    OBVIOUS
<1>2. PICK x \in Item, m \in 1 .. Len(V) : x = V[t] /\ m = i + 1
    BY <1>1
<1>3. V2 = [V EXCEPT ![m] = x]
    BY <1>2 DEF swapped
<1>4. V2 \in Seq(Item) /\ Len(V2) = Len(V) /\ \A k \in 1 .. Len(V) : V2[k] = IF k = m THEN x ELSE V[k]
    BY <1>3
<1> QED
    BY <1>1, <1>2, <1>4

LEMMA Dropped ==
    ASSUME NEW V, NEW i \in Nat, NEW t \in Nat, i < t, Items(V, t), NEW V2,
           V2 = swapped(V, i + 1, t)
    PROVE  /\ Items(V2, t - 1) /\ Len(V2) = Len(V) /\ t - 1 \in i .. t
           /\ \A k \in i + 1 .. t - 1 : \E m \in i + 1 .. t : m # i + 1 /\ V2[k] = V[m]
           /\ \A n \in 1 .. i + 1 : \A id :
                 Alive(V2, n, t - 1, id) <=> Alive(V, n, t, id) /\ id # V[i + 1].id
<1>1. /\ V \in Seq(Item) /\ t \in 0 .. Len(V) /\ Len(V) \in Nat
      /\ \A k \in 1 .. Len(V) : V[k].id \in 1 .. e_id /\ (V[k].once <=> V[k].id \in e_once)
      /\ \A j, k \in 1 .. t : V[j].id = V[k].id => j = k
    BY DEF Items
<1>2. /\ V2 \in Seq(Item) /\ Len(V2) = Len(V) /\ i + 1 \in 1 .. Len(V)
      /\ \A k \in 1 .. Len(V) : V2[k] = IF k = i + 1 THEN V[t] ELSE V[k]
    BY <1>1, Swapped
<1>3. /\ t \in 1 .. Len(V) /\ t - 1 \in 0 .. Len(V) /\ t - 1 \in i .. t /\ i + 1 \in 1 .. t
      /\ \A k \in 1 .. t : k \in 1 .. Len(V)
    BY ONLY i \in Nat, t \in Nat, i < t, <1>1
\* The item at k of the new list was at from(k) of the old.
<1> DEFINE from(k) == IF k = i + 1 THEN t ELSE k
<1>4. ASSUME NEW k \in 1 .. t - 1
      PROVE  /\ k \in 1 .. Len(V) /\ from(k) \in 1 .. t /\ from(k) # i + 1
             /\ V2[k] = V[from(k)] /\ \A n \in 1 .. i + 1 : k >= n => from(k) >= n
  <2>1. k \in 1 .. Len(V) /\ from(k) \in 1 .. t /\ from(k) # i + 1
    BY ONLY i \in Nat, t \in Nat, i < t, k \in 1 .. t - 1, <1>3
  <2>2. \A n \in 1 .. i + 1 : k >= n => from(k) >= n
    BY ONLY i \in Nat, t \in Nat, i < t, k \in 1 .. t - 1
  <2> QED
    BY <1>2, <2>1, <2>2
<1>5. ASSUME NEW m \in 1 .. t, m # i + 1
      PROVE  \E k \in 1 .. t - 1 : V2[k] = V[m] /\ \A n \in 1 .. i + 1 : m >= n => k >= n
  <2>1. CASE m = t
    <3>1. i + 1 \in 1 .. t - 1 /\ V2[i + 1] = V[m]
      BY <1>2, <1>3, <1>5, <2>1
    <3> QED
      BY <3>1
  <2>2. CASE m # t
    <3>1. m \in 1 .. t - 1 /\ V2[m] = V[m]
      BY <1>2, <1>3, <1>5, <2>2
    <3> QED
      BY <3>1
  <2> QED
    BY <2>1, <2>2
<1>6. Items(V2, t - 1)
  <2>1. \A k \in 1 .. Len(V2) : V2[k].id \in 1 .. e_id /\ (V2[k].once <=> V2[k].id \in e_once)
    BY <1>1, <1>2, <1>3
  <2>2. ASSUME NEW j \in 1 .. t - 1, NEW k \in 1 .. t - 1, V2[j].id = V2[k].id
        PROVE  j = k
    <3>1. from(j) = from(k)
      BY <1>1, <1>4, <2>2
    <3> QED
      BY <3>1, <1>3
  <2> QED
    BY <1>2, <1>3, <2>1, <2>2 DEF Items
<1>7. ASSUME NEW k \in i + 1 .. t - 1
      PROVE  \E m \in i + 1 .. t : m # i + 1 /\ V2[k] = V[m]
  <2>1. k \in 1 .. t - 1 /\ i + 1 \in 1 .. i + 1 /\ k >= i + 1
    BY ONLY i \in Nat, t \in Nat, k \in i + 1 .. t - 1
  <2>2. from(k) \in 1 .. t /\ from(k) >= i + 1 /\ from(k) # i + 1 /\ V2[k] = V[from(k)]
    BY <1>4, <2>1
  <2>3. from(k) \in i + 1 .. t
    BY ONLY i \in Nat, t \in Nat, <2>2
  <2> HIDE DEF from
  <2> QED
    BY <2>2, <2>3
<1>8. ASSUME NEW n \in 1 .. i + 1, NEW id
      PROVE  Alive(V2, n, t - 1, id) <=> Alive(V, n, t, id) /\ id # V[i + 1].id
  <2>0. \A k : k \in n .. t <=> k \in 1 .. t /\ k >= n
    BY ONLY i \in Nat, t \in Nat, n \in 1 .. i + 1
  <2>00. \A k : k \in n .. t - 1 <=> k \in 1 .. t - 1 /\ k >= n
    BY ONLY i \in Nat, t \in Nat, n \in 1 .. i + 1
  <2>1. ASSUME NEW k \in n .. t - 1, V2[k].id = id, ~ V2[k].deleted
        PROVE  Alive(V, n, t, id) /\ id # V[i + 1].id
    <3>1. /\ from(k) \in 1 .. t /\ from(k) >= n /\ from(k) # i + 1 /\ V2[k] = V[from(k)]
      BY <1>4, <2>00
    <3> HIDE DEF from
    <3>2. from(k) \in n .. t
      BY <2>0, <3>1
    <3>3. V[from(k)].id # V[i + 1].id
      BY <1>1, <1>3, <3>1
    <3> QED
      BY <2>1, <3>1, <3>2, <3>3 DEF Alive
  <2>2. ASSUME NEW m \in n .. t, V[m].id = id, ~ V[m].deleted, id # V[i + 1].id
        PROVE  Alive(V2, n, t - 1, id)
    <3>1. m \in 1 .. t /\ m >= n /\ m # i + 1
      BY <2>0, <2>2
    <3>2. PICK k \in 1 .. t - 1 : V2[k] = V[m] /\ \A l \in 1 .. i + 1 : m >= l => k >= l
      BY <1>5, <3>1
    <3>3. k \in n .. t - 1
      BY <2>00, <3>1, <3>2
    <3> QED
      BY <2>2, <3>2, <3>3 DEF Alive
  <2> QED
    BY <2>1, <2>2 DEF Alive
<1> QED
    BY <1>2, <1>3, <1>6, <1>7, <1>8

LEMMA TypesKept ==
    ASSUME EmitterTypes, UNCHANGED <<e_id, e_fired, e_once, e_off>>
    PROVE  EmitterTypes'
  BY DEF EmitterTypes

LEMMA ItemsKept ==
    ASSUME NEW V, NEW n, Items(V, n), e_vec' = V, UNCHANGED <<e_id, e_once>>
    PROVE  Items(e_vec, n)'
  BY DEF Items

LEMMA RegisteredKept ==
    ASSUME NEW V, NEW n, NEW run, Registered(V, n, run), e_vec' = V,
           UNCHANGED <<e_id, e_fired, e_once, e_off>>
    PROVE  Registered(e_vec, n, run)'
  BY DEF Registered

\* An emission goes on without the item it was at, which has been turned off or has run
\* for the first and last time.
Without(V, c, V2, d) ==
    /\ V2 = swapped(V, c.i + 1, c.tail)
    /\ d = [c EXCEPT !.tail = c.tail - 1, !.running = FALSE]

LEMMA Drops ==
    ASSUME NEW V, NEW c \in Call, Items(V, c.tail), Progress(V, c), c.i < c.tail,
           V[c.i + 1].deleted \/ Called(c, V[c.i + 1].id),
           NEW V2, NEW d, Without(V, c, V2, d)
    PROVE  d \in Call /\ Items(V2, d.tail) /\ Progress(V2, d)
<1> DEFINE x == V[c.i + 1].id
<1>1. /\ c.i \in Nat /\ c.tail \in Nat /\ c.i < c.tail
      /\ d.i = c.i /\ d.tail = c.tail - 1 /\ d.len = c.len /\ d.moved = c.moved
      /\ d.running = FALSE /\ d.called = c.called /\ d.start = c.start /\ d.offed = c.offed
    BY DEF Call, Without
<1>2. d \in Call
  <2>1. c.tail - 1 \in Nat
    BY ONLY <1>1
  <2> QED
    BY <2>1 DEF Call, Without
<1>3. /\ Items(V2, c.tail - 1) /\ Len(V2) = Len(V) /\ c.tail - 1 \in c.i .. c.tail
      /\ \A k \in c.i + 1 .. c.tail - 1 : \E m \in c.i + 1 .. c.tail : m # c.i + 1 /\ V2[k] = V[m]
      /\ \A id : Alive(V2, c.i + 1, c.tail - 1, id) <=> Alive(V, c.i + 1, c.tail, id) /\ id # x
  <2>1. c.i + 1 \in 1 .. c.i + 1
    BY <1>1
  <2> QED
    BY <1>1, <2>1, Dropped DEF Without
<1>4. \A id : Called(d, id) <=> Called(c, id)
    BY <1>1 DEF Called
<1>5. /\ c.tail \in 0 .. Len(V) /\ c.len = Len(V) /\ ~ c.moved
      /\ \A k \in 1 .. Len(c.called) : c.called[k] \in c.start
      /\ \A j, k \in 1 .. Len(c.called) : c.called[j] = c.called[k] => j = k
      /\ \A k \in c.i + 1 .. c.tail :
            /\ V[k].id \in c.start \/ V[k].deleted
            /\ Called(c, V[k].id) => c.running /\ k = c.i + 1
      /\ \A id \in c.start : id \in c.offed \/ Called(c, id) \/ Alive(V, c.i + 1, c.tail, id)
    BY DEF Progress
<1>6. /\ d.i \in 0 .. d.tail /\ d.tail \in 0 .. Len(V2) /\ d.len = Len(V2) /\ ~ d.moved
      /\ d.running \in BOOLEAN
  <2>1. ~ d.moved
    BY <1>5 DEF Call, Without
  <2>2. d.i \in 0 .. d.tail /\ d.tail \in 0 .. Len(V2) /\ d.len = Len(V2)
    BY <1>1, <1>3, <1>5
  <2> QED
    BY <1>1, <2>1, <2>2
<1>7. ASSUME NEW k \in d.i + 1 .. d.tail
      PROVE  /\ V2[k].id \in d.start \/ V2[k].deleted
             /\ Called(d, V2[k].id) => d.running /\ k = d.i + 1
  <2>1. PICK m \in c.i + 1 .. c.tail : m # c.i + 1 /\ V2[k] = V[m]
    BY <1>1, <1>3
  <2> QED
    BY <1>1, <1>4, <1>5, <2>1
<1>8. ASSUME NEW id \in d.start
      PROVE  id \in d.offed \/ Called(d, id) \/ Alive(V2, d.i + 1, d.tail, id)
  <2>1. CASE id # x
    BY <1>1, <1>3, <1>4, <1>5, <2>1
  <2>2. CASE id = x /\ Called(c, x)
    BY <1>4, <2>2
  <2>3. CASE id = x /\ V[c.i + 1].deleted
    <3>1. ~ Alive(V, c.i + 1, c.tail, id)
      <4>1. \A k \in c.i + 1 .. c.tail : k \in 1 .. c.tail /\ c.i + 1 \in 1 .. c.tail
        BY <1>1
      <4>2. \A k \in c.i + 1 .. c.tail : V[k].id = x => k = c.i + 1
        BY <4>1 DEF Items
      <4> QED
        BY <2>3, <4>2 DEF Alive
    <3> QED
      BY <1>1, <1>4, <1>5, <3>1
  <2> QED
    BY <2>1, <2>2, <2>3
<1>9. Progress(V2, d)
    BY <1>1, <1>5, <1>6, <1>7, <1>8 DEF Progress
<1> QED
    BY <1>1, <1>2, <1>3, <1>9

LEMMA Ranges ==
    ASSUME NEW V, NEW c \in Call, Items(V, c.tail), c.i < c.tail
    PROVE  /\ c.i \in Nat /\ c.tail \in Nat /\ c.i + 1 \in 1 .. c.tail
           /\ c.i + 1 \in c.i + 1 .. c.tail
           /\ c.i + 1 \in 1 .. Len(V) /\ c.i + 1 \in 1 .. c.i + 1 /\ V \in Seq(Item)
           /\ V[c.i + 1] \in Item /\ V[c.i + 1].id \in 1 .. e_id
  BY DEF Items, Call

\* A deleted item is passed over.
LEMMA PassesDeleted ==
    ASSUME EmitterTypes, NEW c \in Call, Emitting(c), emitItem, e_vec[c.i + 1].deleted
    PROVE  Still'
<1>1. e_calls = <<c>> /\ Last(e_calls) = c /\ \A d : [e_calls EXCEPT ![Len(e_calls)] = d] = <<d>>
    BY One DEF Emitting
<1>2. /\ ~ c.running /\ c.i # c.tail /\ Items(e_vec, c.tail) /\ Progress(e_vec, c)
      /\ Registered(e_vec, c.tail, 0)
    BY <1>1 DEF emitItem, Emitting, Top
<1>3. c.i < c.tail /\ c.tail \in 0 .. Len(e_vec)
    BY <1>2 DEF Progress, Call
<1>4. PICK V \in Seq(Item) : V = e_vec
    BY <1>2 DEF Items
<1>5. PICK V2, d : Without(V, c, V2, d)
    BY DEF Without
<1>6. e_vec' = V2 /\ e_calls' = <<d>> /\ UNCHANGED <<e_id, e_fired, e_once, e_off>>
  <2>1. after(e_vec, c) /\ UNCHANGED <<e_id, e_fired, e_once, e_off>>
    BY <1>1 DEF emitItem, Top
  <2>2. ~ (c.tail > Len(e_vec))
    BY <1>3
  <2>3. /\ e_vec' = swapped(e_vec, c.i + 1, c.tail)
        /\ e_calls' = [e_calls EXCEPT ![Len(e_calls)] = [c EXCEPT !.tail = @ - 1, !.running = FALSE]]
    BY <2>1, <2>2 DEF after, top
  <2> QED
    BY <1>1, <1>4, <1>5, <2>1, <2>3 DEF Without
<1>7. d \in Call /\ Items(V2, d.tail) /\ Progress(V2, d)
  <2>1. /\ Items(V, c.tail) /\ Progress(V, c)
        /\ V[c.i + 1].deleted \/ Called(c, V[c.i + 1].id)
    BY <1>2, <1>4
  <2> QED
    BY <1>3, <1>5, <2>1, Drops
<1>8. d.tail = c.tail - 1 /\ d.running = FALSE
    BY <1>5 DEF Call, Without
<1>9. /\ c.i \in Nat /\ c.tail \in Nat /\ c.i + 1 \in 1 .. c.tail /\ 1 \in 1 .. c.i + 1
    BY <1>2, <1>3, Ranges
<1>10. \A id : Alive(V2, 1, c.tail - 1, id) <=> Alive(V, 1, c.tail, id) /\ id # V[c.i + 1].id
    BY <1>2, <1>3, <1>4, <1>5, <1>9, Dropped DEF Without
<1>11. ~ Alive(V, 1, c.tail, V[c.i + 1].id)
  <2>1. \A k \in 1 .. c.tail : V[k].id = V[c.i + 1].id => k = c.i + 1
    BY <1>2, <1>4, <1>9 DEF Items
  <2> QED
    BY <1>4, <2>1 DEF Alive
<1>12. Registered(V2, d.tail, 0)
  <2>1. \A id : Alive(V2, 1, d.tail, id) <=> Alive(V, 1, c.tail, id)
    BY <1>8, <1>10, <1>11
  <2> QED
    BY <1>2, <1>4, <2>1 DEF Registered
<1>13. Emitting(d)'
    BY <1>6, <1>7, <1>8, <1>12, ItemsKept, RegisteredKept DEF Emitting
<1> QED
    BY <1>6, <1>7, <1>13, TypesKept DEF Still

\* A handler is called.
LEMMA CallsItem ==
    ASSUME EmitterTypes, NEW c \in Call, Emitting(c), emitItem, ~ e_vec[c.i + 1].deleted
    PROVE  Still'
<1>1. e_calls = <<c>> /\ Last(e_calls) = c /\ \A d : [e_calls EXCEPT ![Len(e_calls)] = d] = <<d>>
    BY One DEF Emitting
<1>2. /\ ~ c.running /\ c.i # c.tail /\ Items(e_vec, c.tail) /\ Progress(e_vec, c)
      /\ Registered(e_vec, c.tail, 0)
    BY <1>1 DEF emitItem, Emitting, Top
<1>3. c.i < c.tail
    BY <1>2 DEF Progress, Call
<1>4. PICK V \in Seq(Item) : V = e_vec
    BY <1>2 DEF Items
<1>5. /\ c.i \in Nat /\ c.tail \in Nat /\ c.i + 1 \in 1 .. c.tail
      /\ c.i + 1 \in c.i + 1 .. c.tail /\ V[c.i + 1] \in Item /\ V[c.i + 1].id \in 1 .. e_id
    BY <1>2, <1>3, <1>4, Ranges
<1>6. PICK id0 \in Handlers : id0 = V[c.i + 1].id /\ id0 \in 1 .. e_id
    BY <1>5 DEF Item
<1>7. PICK d : d = [c EXCEPT !.running = TRUE, !.moved = FALSE, !.called = Append(c.called, id0)]
    OBVIOUS
<1>8. /\ d \in Call /\ d.i = c.i /\ d.tail = c.tail /\ d.len = c.len /\ d.running = TRUE
      /\ d.moved = FALSE /\ d.start = c.start /\ d.offed = c.offed
      /\ d.called = Append(c.called, id0)
  <2>1. c.called \in Seq(Handlers) /\ Append(c.called, id0) \in Seq(Handlers)
    BY DEF Call
  <2> QED
    BY <1>7, <2>1 DEF Call
<1>9. /\ e_vec' = V /\ e_calls' = <<d>> /\ UNCHANGED <<e_id, e_once, e_off>>
      /\ e_fired' = [e_fired EXCEPT ![id0] = @ + 1]
  <2>1. /\ e_calls' = [e_calls EXCEPT ![Len(e_calls)] =
                [c EXCEPT !.running = TRUE, !.moved = FALSE, !.called = Append(@, id0)]]
        /\ e_fired' = [e_fired EXCEPT ![id0] = @ + 1]
        /\ UNCHANGED <<e_vec, e_id, e_once, e_off>>
    BY <1>1, <1>4, <1>6 DEF emitItem, top, Top
  <2> QED
    BY <1>1, <1>4, <1>7, <2>1
<1>10. /\ EmitterTypes' /\ e_fired'[id0] # 0
       /\ \A id \in Handlers : id # id0 => e_fired'[id] = e_fired[id]
  <2>1. e_fired \in [Handlers -> Nat] /\ e_id \in 0 .. MaxHandlers
    BY DEF EmitterTypes
  <2>2. /\ e_fired' \in [Handlers -> Nat] /\ e_fired'[id0] # 0
        /\ \A id \in Handlers : id # id0 => e_fired'[id] = e_fired[id]
    BY <1>9, <2>1
  <2>3. \A id \in Handlers : id > e_id => id # id0
    BY <1>6, <2>1
  <2> QED
    BY <1>9, <2>2, <2>3 DEF EmitterTypes
<1>11. /\ \A id : Called(d, id) <=> Called(c, id) \/ id = id0
       /\ Len(c.called) \in Nat /\ Len(d.called) = Len(c.called) + 1
       /\ d.called[Len(c.called) + 1] = id0
       /\ \A k \in 1 .. Len(c.called) : d.called[k] = c.called[k]
       /\ \A k \in 1 .. Len(d.called) : k \in 1 .. Len(c.called) \/ k = Len(c.called) + 1
  <2>1. /\ Len(c.called) \in Nat /\ Len(d.called) = Len(c.called) + 1
        /\ d.called[Len(c.called) + 1] = id0
        /\ \A k \in 1 .. Len(c.called) : d.called[k] = c.called[k]
    <3>1. c.called \in Seq(Handlers)
      BY DEF Call
    <3> QED
      BY <1>8, <3>1, AppendProperties
  <2>2. /\ \A k \in 1 .. Len(d.called) : k \in 1 .. Len(c.called) \/ k = Len(c.called) + 1
        /\ \A k \in 1 .. Len(c.called) : k \in 1 .. Len(d.called)
        /\ Len(c.called) + 1 \in 1 .. Len(d.called)
    BY ONLY <2>1
  <2>3. ASSUME NEW id PROVE Called(d, id) <=> Called(c, id) \/ id = id0
    BY <2>1, <2>2 DEF Called
  <2> QED
    BY <2>1, <2>2, <2>3
<1>12. /\ c.i \in 0 .. c.tail /\ c.tail \in 0 .. Len(V) /\ c.len = Len(V)
       /\ \A k \in 1 .. Len(c.called) : c.called[k] \in c.start
       /\ \A j, k \in 1 .. Len(c.called) : c.called[j] = c.called[k] => j = k
       /\ \A k \in c.i + 1 .. c.tail : (V[k].id \in c.start \/ V[k].deleted) /\ ~ Called(c, V[k].id)
       /\ \A id \in c.start : id \in c.offed \/ Called(c, id) \/ Alive(V, c.i + 1, c.tail, id)
    BY <1>2, <1>4 DEF Progress
<1>13. ~ Called(c, id0) /\ id0 \in c.start
    BY <1>4, <1>5, <1>6, <1>12
<1>14. /\ \A k \in 1 .. Len(d.called) : d.called[k] \in d.start
       /\ \A j, k \in 1 .. Len(d.called) : d.called[j] = d.called[k] => j = k
  <2>1. \A k \in 1 .. Len(c.called) : d.called[k] # id0
    BY <1>11, <1>13 DEF Called
  <2>2. ASSUME NEW k \in 1 .. Len(d.called) PROVE d.called[k] \in d.start
    BY <1>8, <1>11, <1>12, <1>13
  <2>3. ASSUME NEW j \in 1 .. Len(d.called), NEW k \in 1 .. Len(d.called),
               d.called[j] = d.called[k]
        PROVE  j = k
    BY <1>11, <1>12, <2>1, <2>3
  <2> QED
    BY <2>2, <2>3
<1>15. Progress(V, d)
  <2>1. ASSUME NEW k \in c.i + 1 .. c.tail
        PROVE  /\ V[k].id \in c.start \/ V[k].deleted
               /\ Called(d, V[k].id) => k = c.i + 1
    <3>1. k \in 1 .. c.tail
      BY <1>5
    <3>2. V[k].id = id0 => k = c.i + 1
      BY <1>2, <1>4, <1>5, <1>6, <3>1 DEF Items
    <3> QED
      BY <1>11, <1>12, <3>2
  <2>2. \A id \in c.start : id \in c.offed \/ Called(d, id) \/ Alive(V, c.i + 1, c.tail, id)
    BY <1>11, <1>12
  <2> QED
    BY <1>8, <1>12, <1>14, <2>1, <2>2 DEF Progress
<1>16. Running(e_vec, d)'
    BY <1>3, <1>6, <1>8, <1>9, <1>10, <1>11 DEF Running
<1>17. Registered(e_vec, d.tail, e_vec[d.i + 1].id)'
  <2>1. Alive(V, 1, c.tail, id0)
    BY <1>4, <1>5, <1>6 DEF Alive
  <2>2. \A id \in 1 .. e_id :
           Alive(V, 1, c.tail, id) <=> id \notin e_off /\ (id \in e_once => e_fired[id] = 0 \/ id = 0)
    BY <1>2, <1>4 DEF Registered
  <2>3. id0 \notin e_off
    BY <1>6, <2>1, <2>2
  <2>4. ASSUME NEW id \in 1 .. e_id
        PROVE  Alive(V, 1, c.tail, id)
                  <=> id \notin e_off /\ (id \in e_once => e_fired'[id] = 0 \/ id = id0)
    <3>1. id \in Handlers /\ id # 0
      <4>1. e_id \in 0 .. MaxHandlers /\ MaxHandlers \in Nat
        BY EmitterAssumption DEF EmitterTypes
      <4> QED
        BY ONLY id \in 1 .. e_id, <4>1 DEF Handlers
    <3> QED
      BY <1>10, <2>1, <2>2, <2>3, <3>1
  <2> QED
    BY <1>6, <1>8, <1>9, <2>4 DEF Registered
<1>18. Items(e_vec, d.tail)'
    BY <1>2, <1>4, <1>8, <1>9, ItemsKept
<1>19. Emitting(d)'
    BY <1>8, <1>9, <1>15, <1>16, <1>17, <1>18 DEF Emitting
<1> QED
    BY <1>8, <1>10, <1>19 DEF Still

\* A handler returns that goes on being registered.
LEMMA ReturnsKept ==
    ASSUME EmitterTypes, NEW c \in Call, Emitting(c), emitReturns, ~ Top.moved, Top.i < Len(e_vec),
           ~ e_vec[c.i + 1].deleted, ~ e_vec[c.i + 1].once
    PROVE  Still'
<1>1. e_calls = <<c>> /\ Last(e_calls) = c /\ \A d : [e_calls EXCEPT ![Len(e_calls)] = d] = <<d>>
    BY One DEF Emitting
<1>2. /\ c.running /\ Items(e_vec, c.tail) /\ Progress(e_vec, c) /\ Running(e_vec, c)
      /\ Registered(e_vec, c.tail, e_vec[c.i + 1].id)
    BY <1>1 DEF emitReturns, Emitting, Top
<1>3. c.i < c.tail
    BY <1>2 DEF Running
<1>4. PICK V \in Seq(Item) : V = e_vec
    BY <1>2 DEF Items
<1>5. /\ c.i \in Nat /\ c.tail \in Nat /\ c.i + 1 \in 1 .. c.tail
      /\ c.i + 1 \in c.i + 1 .. c.tail /\ V[c.i + 1] \in Item /\ V[c.i + 1].id \in 1 .. e_id
      /\ c.i + 1 \in 1 .. Len(V)
    BY <1>2, <1>3, <1>4, Ranges
<1>6. PICK d : d = [c EXCEPT !.i = c.i + 1, !.running = FALSE]
    OBVIOUS
<1>7. /\ d \in Call /\ d.i = c.i + 1 /\ d.tail = c.tail /\ d.len = c.len /\ d.running = FALSE
      /\ d.moved = c.moved /\ d.start = c.start /\ d.offed = c.offed /\ d.called = c.called
  <2>1. c.i + 1 \in Nat
    BY <1>5
  <2> HIDE <1>5
  <2> QED
    BY <1>6, <2>1 DEF Call
<1>8. PICK V1 : V1 = [V EXCEPT ![c.i + 1].deleted = V[c.i + 1].deleted \/ V[c.i + 1].once]
    OBVIOUS
<1>9. V1 = V
  <2>1. V[c.i + 1].once = FALSE /\ V[c.i + 1].deleted = FALSE
    BY <1>4, <1>5 DEF Item
  <2>2. [V[c.i + 1] EXCEPT !.deleted = V[c.i + 1].deleted \/ V[c.i + 1].once] = V[c.i + 1]
    BY <1>4, <1>5, <2>1 DEF Item
  <2> QED
    BY <1>8, <2>2
<1>10. e_vec' = V /\ e_calls' = <<d>> /\ UNCHANGED <<e_id, e_fired, e_once, e_off>>
  <2>1. UNCHANGED <<e_id, e_fired, e_once, e_off>>
    BY DEF emitReturns
  <2>2. after(V1, c)
    <3>0. ~ (c.i >= Len(e_vec)) /\ ~ c.moved
      BY <1>1, <1>4, <1>5 DEF Top
    <3>1. after([e_vec EXCEPT ![c.i + 1].deleted = @ \/ e_vec[c.i + 1].once], c)
      BY <1>1, <3>0 DEF emitReturns, Top
    <3>2. [e_vec EXCEPT ![c.i + 1].deleted = @ \/ e_vec[c.i + 1].once] = V1
      BY <1>4, <1>8
    <3> QED
      BY <3>1, <3>2
  <2>3. /\ e_vec' = V1
        /\ e_calls' = [e_calls EXCEPT ![Len(e_calls)] = [c EXCEPT !.i = @ + 1, !.running = FALSE]]
    BY <1>4, <1>9, <2>2 DEF after, top
  <2> QED
    BY <1>1, <1>6, <1>9, <2>1, <2>3
<1>11. \A id : Called(d, id) <=> Called(c, id)
    BY <1>7 DEF Called
<1>12. Progress(V, d)
  <2>1. /\ c.tail \in 0 .. Len(V) /\ c.len = Len(V) /\ ~ c.moved
        /\ \A k \in 1 .. Len(c.called) : c.called[k] \in c.start
        /\ \A j, k \in 1 .. Len(c.called) : c.called[j] = c.called[k] => j = k
        /\ \A k \in c.i + 1 .. c.tail :
              /\ V[k].id \in c.start \/ V[k].deleted
              /\ Called(c, V[k].id) => c.running /\ k = c.i + 1
        /\ \A id \in c.start : id \in c.offed \/ Called(c, id) \/ Alive(V, c.i + 1, c.tail, id)
    BY <1>2, <1>4 DEF Progress
  <2>2. ~ d.moved
    BY <1>6, <2>1 DEF Call
  <2>3. d.i \in 0 .. d.tail /\ d.tail \in 0 .. Len(V) /\ d.len = Len(V)
    BY <1>5, <1>7, <2>1
  <2>4. ASSUME NEW k \in d.i + 1 .. d.tail
        PROVE  /\ V[k].id \in d.start \/ V[k].deleted
               /\ Called(d, V[k].id) => d.running /\ k = d.i + 1
    <3>1. k \in c.i + 1 .. c.tail /\ k # c.i + 1
      BY <1>5, <1>7
    <3> QED
      BY <1>7, <1>11, <2>1, <3>1
  <2>5. ASSUME NEW id \in d.start
        PROVE  id \in d.offed \/ Called(d, id) \/ Alive(V, d.i + 1, d.tail, id)
    <3>1. CASE Alive(V, c.i + 1, c.tail, id)
      <4>1. PICK k \in c.i + 1 .. c.tail : V[k].id = id /\ ~ V[k].deleted
        BY <3>1 DEF Alive
      <4>2. CASE k = c.i + 1
        BY <1>2, <1>4, <1>11, <4>1, <4>2 DEF Running
      <4>3. CASE k # c.i + 1
        <5>1. k \in d.i + 1 .. d.tail
          BY <1>5, <1>7, <4>3
        <5> QED
          BY <4>1, <5>1 DEF Alive
      <4> QED
        BY <4>2, <4>3
    <3> QED
      BY <1>7, <1>11, <2>1, <3>1
  <2> QED
    BY <1>7, <2>1, <2>2, <2>3, <2>4, <2>5 DEF Progress
<1>13. Registered(V, d.tail, 0)
  <2>1. V[c.i + 1].id \notin e_once
    BY <1>2, <1>4, <1>5 DEF Items
  <2>2. \A id \in 1 .. e_id : id # 0
    BY DEF EmitterTypes
  <2> QED
    BY <1>2, <1>4, <1>7, <2>1, <2>2 DEF Registered
<1>14. Items(V, d.tail)
    BY <1>2, <1>4, <1>7
<1>15. Emitting(d)'
    BY <1>7, <1>10, <1>12, <1>13, <1>14, ItemsKept, RegisteredKept DEF Emitting
<1> QED
    BY <1>7, <1>10, <1>15, TypesKept DEF Still

LEMMA DropsAlive ==
    ASSUME NEW V, NEW c \in Call, Items(V, c.tail), c.i < c.tail, NEW V2, NEW d, Without(V, c, V2, d)
    PROVE  \A id : Alive(V2, 1, c.tail - 1, id) <=> Alive(V, 1, c.tail, id) /\ id # V[c.i + 1].id
<1>1. PICK i \in Nat, t \in Nat : i = c.i /\ t = c.tail
    BY DEF Call
<1>2. i < t /\ Items(V, t) /\ V2 = swapped(V, i + 1, t)
    BY <1>1 DEF Without
<1>3. \A m \in 1 .. i + 1 : \A id : Alive(V2, m, t - 1, id) <=> Alive(V, m, t, id) /\ id # V[i + 1].id
    BY ONLY i \in Nat, t \in Nat, <1>2, Dropped
<1>4. 1 \in 1 .. i + 1
    OBVIOUS
<1> QED
    BY <1>1, <1>3, <1>4

\* The same items, with the one at k deleted.
Marked(V, k, V1) ==
    /\ V \in Seq(Item) /\ V1 \in Seq(Item) /\ Len(V1) = Len(V)
    /\ \A j \in 1 .. Len(V) : /\ V1[j].id = V[j].id /\ (V1[j].once <=> V[j].once)
                              /\ V1[j].deleted <=> V[j].deleted \/ j = k

LEMMA Marks ==
    ASSUME NEW V, NEW n, Items(V, n), NEW k \in 1 .. n, NEW V1, Marked(V, k, V1)
    PROVE  /\ Items(V1, n)
           /\ \A m \in 1 .. k : \A id : Alive(V1, m, n, id) <=> Alive(V, m, n, id) /\ id # V[k].id
<1>1. /\ V \in Seq(Item) /\ n \in 0 .. Len(V) /\ Len(V) \in Nat
      /\ \A j \in 1 .. Len(V) : V[j].id \in 1 .. e_id /\ (V[j].once <=> V[j].id \in e_once)
      /\ \A i, j \in 1 .. n : V[i].id = V[j].id => i = j
    BY DEF Items
<1>2. \A m \in 1 .. k : \A j \in m .. n : j \in 1 .. n
    BY ONLY <1>1, k \in 1 .. n
<1>3. \A j \in 1 .. n : j \in 1 .. Len(V)
    BY ONLY <1>1
<1>4. Items(V1, n)
    BY <1>1, <1>3 DEF Items, Marked
<1>5. ASSUME NEW m \in 1 .. k, NEW id
      PROVE  Alive(V1, m, n, id) <=> Alive(V, m, n, id) /\ id # V[k].id
  <2>1. \A j \in m .. n : V[j].id = V[k].id => j = k
    BY <1>1, <1>2
  <2>2. \A j \in m .. n : V1[j].id = V[j].id /\ (V1[j].deleted <=> V[j].deleted \/ j = k)
    BY <1>2, <1>3 DEF Marked
  <2> QED
    BY <2>1, <2>2 DEF Alive
<1> QED
    BY <1>4, <1>5

\* The item whose handler has returned is deleted: whom the emission has still to call is
\* among the others.
LEMMA MarksProgress ==
    ASSUME NEW V, NEW c \in Call, Items(V, c.tail), Progress(V, c), c.i < c.tail,
           Called(c, V[c.i + 1].id), NEW V1, Marked(V, c.i + 1, V1)
    PROVE  Progress(V1, c)
<1>1. c.i + 1 \in 1 .. c.tail /\ c.i + 1 \in 1 .. c.i + 1 /\ c.i \in Nat /\ c.tail \in Nat
    BY Ranges
<1>2. \A id : Alive(V1, c.i + 1, c.tail, id) <=> Alive(V, c.i + 1, c.tail, id) /\ id # V[c.i + 1].id
    BY <1>1, Marks
<1>3. /\ c.i \in 0 .. c.tail /\ c.tail \in 0 .. Len(V) /\ c.len = Len(V) /\ ~ c.moved
      /\ \A k \in 1 .. Len(c.called) : c.called[k] \in c.start
      /\ \A j, k \in 1 .. Len(c.called) : c.called[j] = c.called[k] => j = k
      /\ \A k \in c.i + 1 .. c.tail :
            /\ V[k].id \in c.start \/ V[k].deleted
            /\ Called(c, V[k].id) => c.running /\ k = c.i + 1
      /\ \A id \in c.start : id \in c.offed \/ Called(c, id) \/ Alive(V, c.i + 1, c.tail, id)
    BY DEF Progress
<1>4. Len(V1) = Len(V) /\ Len(V) \in Nat
    BY DEF Marked
<1>5. ASSUME NEW k \in c.i + 1 .. c.tail
      PROVE  /\ V1[k].id \in c.start \/ V1[k].deleted
             /\ Called(c, V1[k].id) => c.running /\ k = c.i + 1
  <2>1. k \in 1 .. Len(V)
    BY <1>1, <1>3, <1>4
  <2>2. V1[k].id = V[k].id /\ (V[k].deleted => V1[k].deleted)
    BY <2>1 DEF Marked
  <2> QED
    BY <1>3, <2>2
<1>6. \A id \in c.start : id \in c.offed \/ Called(c, id) \/ Alive(V1, c.i + 1, c.tail, id)
    BY <1>2, <1>3
<1> QED
    BY <1>3, <1>4, <1>5, <1>6 DEF Progress

\* A handler returns that was turned off or is called once: its item goes.
LEMMA ReturnsDropped ==
    ASSUME EmitterTypes, NEW c \in Call, Emitting(c), emitReturns, ~ Top.moved, Top.i < Len(e_vec),
           e_vec[c.i + 1].deleted \/ e_vec[c.i + 1].once
    PROVE  Still'
<1>1. e_calls = <<c>> /\ Last(e_calls) = c /\ \A d : [e_calls EXCEPT ![Len(e_calls)] = d] = <<d>>
    BY One DEF Emitting
<1>2. /\ c.running /\ Items(e_vec, c.tail) /\ Progress(e_vec, c) /\ Running(e_vec, c)
      /\ Registered(e_vec, c.tail, e_vec[c.i + 1].id)
    BY <1>1 DEF emitReturns, Emitting, Top
<1>3. c.i < c.tail /\ c.tail \in 0 .. Len(e_vec)
    BY <1>2 DEF Running, Progress
<1>4. PICK V \in Seq(Item) : V = e_vec
    BY <1>2 DEF Items
<1>5. /\ c.i \in Nat /\ c.tail \in Nat /\ c.i + 1 \in 1 .. c.tail /\ 1 \in 1 .. c.i + 1
      /\ c.i + 1 \in c.i + 1 .. c.tail /\ V[c.i + 1] \in Item /\ V[c.i + 1].id \in 1 .. e_id
      /\ c.i + 1 \in 1 .. Len(V)
    BY <1>2, <1>3, <1>4, Ranges
<1>6. PICK id0 \in 1 .. e_id : id0 = V[c.i + 1].id
    BY <1>5
<1>7. PICK V1 : V1 = [V EXCEPT ![c.i + 1].deleted = V[c.i + 1].deleted \/ V[c.i + 1].once]
    OBVIOUS
<1>8. Marked(V, c.i + 1, V1) /\ V1[c.i + 1].deleted
  <2>1. PICK x \in Item : x = [V[c.i + 1] EXCEPT !.deleted = V[c.i + 1].deleted \/ V[c.i + 1].once]
    BY <1>5 DEF Item
  <2>2. x.id = V[c.i + 1].id /\ x.once = V[c.i + 1].once
    BY <1>5, <2>1 DEF Item
  <2>3. x.deleted
    BY <1>4, <1>5, <2>1 DEF Item
  <2>4. PICK m \in 1 .. Len(V) : m = c.i + 1
    BY <1>5
  <2>5. V1 = [V EXCEPT ![m] = x]
    BY <1>7, <2>1, <2>4
  <2>6. /\ V1 \in Seq(Item) /\ Len(V1) = Len(V)
        /\ \A j \in 1 .. Len(V) : V1[j] = IF j = m THEN x ELSE V[j]
    BY <2>5
  <2> QED
    BY <2>2, <2>3, <2>4, <2>6 DEF Marked
<1>9. PICK V2, d : Without(V1, c, V2, d)
    BY DEF Without
<1>10. e_vec' = V2 /\ e_calls' = <<d>> /\ UNCHANGED <<e_id, e_fired, e_once, e_off>>
  <2>1. UNCHANGED <<e_id, e_fired, e_once, e_off>>
    BY DEF emitReturns
  <2>2. after(V1, c)
    <3>1. ~ (c.i >= Len(e_vec)) /\ ~ c.moved
      BY <1>1, <1>4, <1>5 DEF Top
    <3>2. after([e_vec EXCEPT ![c.i + 1].deleted = @ \/ e_vec[c.i + 1].once], c)
      BY <1>1, <3>1 DEF emitReturns, Top
    <3>3. [e_vec EXCEPT ![c.i + 1].deleted = @ \/ e_vec[c.i + 1].once] = V1
      BY <1>4, <1>7
    <3> QED
      BY <3>2, <3>3
  <2>3. ~ (c.tail > Len(V1)) /\ V1[c.i + 1].deleted
    BY <1>3, <1>4, <1>5, <1>8 DEF Marked
  <2>4. /\ e_vec' = swapped(V1, c.i + 1, c.tail)
        /\ e_calls' = [e_calls EXCEPT ![Len(e_calls)] = [c EXCEPT !.tail = @ - 1, !.running = FALSE]]
    BY <2>2, <2>3 DEF after, top
  <2> QED
    BY <1>1, <1>9, <2>1, <2>4 DEF Without
<1>11. Items(V, c.tail) /\ Progress(V, c) /\ Called(c, V[c.i + 1].id) /\ V1[c.i + 1].id = id0
    BY <1>2, <1>4, <1>5, <1>6, <1>8 DEF Running, Marked
<1>12. Items(V1, c.tail) /\ Progress(V1, c)
    BY <1>3, <1>5, <1>8, <1>11, Marks, MarksProgress
<1>13. d \in Call /\ Items(V2, d.tail) /\ Progress(V2, d)
    BY <1>3, <1>8, <1>9, <1>12, Drops
<1>14. d.tail = c.tail - 1 /\ d.running = FALSE
    BY <1>9 DEF Call, Without
<1>15. \A id : Alive(V2, 1, d.tail, id) <=> Alive(V, 1, c.tail, id) /\ id # id0
  <2>1. \A id : Alive(V2, 1, c.tail - 1, id) <=> Alive(V1, 1, c.tail, id) /\ id # id0
    BY <1>3, <1>9, <1>11, <1>12, DropsAlive
  <2>2. \A id : Alive(V1, 1, c.tail, id) <=> Alive(V, 1, c.tail, id) /\ id # id0
    BY <1>5, <1>6, <1>8, <1>11, Marks
  <2> QED
    BY <1>14, <2>1, <2>2
<1>16. id0 \in e_off \/ (id0 \in e_once /\ e_fired[id0] # 0)
  <2>1. CASE V[c.i + 1].deleted
    <3>1. \A k \in 1 .. c.tail : V[k].id = id0 => k = c.i + 1
      BY <1>5, <1>6, <1>11 DEF Items
    <3>2. ~ Alive(V, 1, c.tail, id0)
      BY <2>1, <3>1 DEF Alive
    <3> QED
      BY <1>2, <1>4, <1>6, <3>2 DEF Registered
  <2>2. CASE V[c.i + 1].once
    BY <1>2, <1>4, <1>5, <1>6, <1>11, <2>2 DEF Items, Running
  <2> QED
    BY <1>4, <2>1, <2>2
<1>17. Registered(V2, d.tail, 0)
  <2>1. \A id \in 1 .. e_id : id # 0
    BY DEF EmitterTypes
  <2>2. \A id \in 1 .. e_id :
           Alive(V, 1, c.tail, id) <=> id \notin e_off /\ (id \in e_once => e_fired[id] = 0 \/ id = id0)
    BY <1>2, <1>4, <1>6 DEF Registered
  <2>3. ASSUME NEW id \in 1 .. e_id
        PROVE  Alive(V2, 1, d.tail, id)
                  <=> id \notin e_off /\ (id \in e_once => e_fired[id] = 0 \/ id = 0)
    BY <1>15, <1>16, <2>1, <2>2
  <2> QED
    BY <2>3 DEF Registered
<1>18. Emitting(d)'
    BY <1>10, <1>13, <1>14, <1>17, ItemsKept, RegisteredKept DEF Emitting
<1> QED
    BY <1>10, <1>13, <1>18, TypesKept DEF Still

\* The loop ends: the items left over go.
LEMMA Ends ==
    ASSUME EmitterTypes, NEW c \in Call, Emitting(c), emitEnds
    PROVE  Still'
<1>1. e_calls = <<c>> /\ Last(e_calls) = c /\ Front(e_calls) = <<>>
    BY One DEF Emitting
<1>2. ~ c.running /\ c.i = c.tail
    BY <1>1 DEF emitEnds, Top
<1>3. Items(e_vec, c.tail) /\ Progress(e_vec, c) /\ Registered(e_vec, c.tail, 0)
    BY <1>2 DEF Emitting
<1>4. PICK V \in Seq(Item), t \in Nat : V = e_vec /\ t = c.tail /\ t \in 0 .. Len(V)
    BY <1>3 DEF Items
<1>5. PICK V2 : V2 = SubSeq(V, 1, t)
    OBVIOUS
<1>6. e_vec' = V2 /\ e_calls' = <<>> /\ UNCHANGED <<e_id, e_fired, e_once, e_off>>
  <2>1. c.len = Len(e_vec)
    BY <1>3 DEF Progress
  <2> QED
    BY <1>1, <1>4, <1>5, <2>1 DEF emitEnds, Top
<1>7. V2 \in Seq(Item) /\ Len(V2) = t /\ \A k \in 1 .. t : V2[k] = V[k]
  <2>1. 1 \in 1 .. Len(V) + 1 /\ t \in 0 .. Len(V) /\ Len(V) \in Nat
    BY <1>4
  <2>2. /\ V2 \in Seq(Item)
        /\ Len(V2) = IF 1 <= t THEN t - 1 + 1 ELSE 0
        /\ \A k \in 1 .. t - 1 + 1 : V2[k] = V[1 + k - 1]
    BY <1>5, <2>1, SubSeqProperties
  <2>3. Len(V2) = t /\ t - 1 + 1 = t /\ \A k \in 1 .. t : 1 + k - 1 = k
    BY ONLY <2>2, t \in Nat
  <2> QED
    BY <2>2, <2>3
<1>8. /\ \A k \in 1 .. Len(V) : V[k].id \in 1 .. e_id /\ (V[k].once <=> V[k].id \in e_once)
      /\ \A j, k \in 1 .. t : V[j].id = V[k].id => j = k
    BY <1>3, <1>4 DEF Items
<1>9. \A k \in 1 .. t : k \in 1 .. Len(V)
    BY ONLY <1>4
<1>10. Items(V2, t)
  <2>1. t \in 0 .. Len(V2)
    BY ONLY <1>7, t \in Nat
  <2> QED
    BY <1>7, <1>8, <1>9, <2>1 DEF Items
<1>11. Registered(V2, t, 0)
  <2>1. \A id : Alive(V2, 1, t, id) <=> Alive(V, 1, t, id)
    BY <1>7 DEF Alive
  <2> QED
    BY <1>3, <1>4, <2>1 DEF Registered
<1>12. Quiet'
    BY <1>6, <1>7, <1>10, <1>11, ItemsKept, RegisteredKept DEF Quiet
<1> QED
    BY <1>6, <1>12, TypesKept DEF Still

\* An emission begins.
LEMMA Begins ==
    ASSUME EmitterTypes, Quiet, emit
    PROVE  Still'
<1>1. PICK V \in Seq(Item) : V = e_vec
    BY DEF Quiet, Items
<1>2. Items(V, Len(V)) /\ Registered(V, Len(V), 0) /\ e_calls = <<>> /\ Len(V) \in Nat
    BY <1>1 DEF Quiet
<1>3. PICK start : start = live
    OBVIOUS
<1>4. \A id : id \in start <=> Alive(V, 1, Len(V), id)
  <2>1. DOMAIN V = 1 .. Len(V)
    BY <1>1
  <2> QED
    BY <1>1, <1>3, <2>1 DEF live, Alive
<1>5. start \subseteq Handlers
  <2>1. \A k \in 1 .. Len(V) : V[k] \in Item
    BY <1>1
  <2>2. \A k \in 1 .. Len(V) : V[k].id \in Handlers
    BY <2>1 DEF Item
  <2> QED
    BY <1>4, <2>2 DEF Alive
<1>6. PICK d : d = [i |-> 0, tail |-> Len(V), len |-> Len(V), running |-> FALSE, moved |-> FALSE,
                    start |-> start, called |-> <<>>, offed |-> {}]
    OBVIOUS
<1>7. /\ d \in Call /\ d.i = 0 /\ d.tail = Len(V) /\ d.len = Len(V) /\ d.running = FALSE
      /\ d.moved = FALSE /\ d.start = start /\ d.called = <<>> /\ Len(d.called) = 0
    BY <1>2, <1>5, <1>6 DEF Call
<1>8. e_vec' = V /\ e_calls' = <<d>> /\ UNCHANGED <<e_id, e_fired, e_once, e_off>>
    BY <1>1, <1>2, <1>3, <1>6 DEF emit
<1>9. \A id : ~ Called(d, id)
    BY <1>7 DEF Called
<1>10. Progress(V, d)
  <2>1. \A k \in 1 .. Len(V) : V[k].id \in start \/ V[k].deleted
    BY <1>4 DEF Alive
  <2>2. /\ d.i \in 0 .. d.tail /\ d.tail \in 0 .. Len(V)
        /\ \A k \in d.i + 1 .. d.tail : k \in 1 .. Len(V) /\ d.i + 1 = 1
        /\ d.i + 1 = 1
    BY <1>2, <1>7
  <2> QED
    BY <1>4, <1>7, <1>9, <2>1, <2>2 DEF Progress
<1>11. Emitting(d)'
    BY <1>2, <1>7, <1>8, <1>10, ItemsKept, RegisteredKept DEF Emitting
<1> QED
    BY <1>7, <1>8, <1>11, TypesKept DEF Still

\* A handler is registered between emissions.
LEMMA Registers ==
    ASSUME EmitterTypes, Quiet, NEW once \in BOOLEAN, register(once)
    PROVE  Still'
<1>1. PICK V \in Seq(Item), n \in Nat : V = e_vec /\ n = Len(V)
    BY DEF Quiet, Items
<1>2. Items(V, n) /\ Registered(V, n, 0) /\ e_calls = <<>>
    BY <1>1 DEF Quiet
<1>3. PICK new \in Nat : new = e_id + 1 /\ new \in Handlers /\ new \notin 1 .. e_id
                         /\ \A id : id \in 1 .. new <=> id \in 1 .. e_id \/ id = new
    BY EmitterAssumption DEF EmitterTypes, register, Handlers
<1>4. PICK x \in Item : x = [id |-> new, once |-> once, deleted |-> FALSE]
    BY <1>3 DEF Item
<1>5. PICK V2 : V2 = Append(V, x)
    OBVIOUS
<1>6. /\ V2 \in Seq(Item) /\ Len(V2) = n + 1 /\ V2[n + 1] = x /\ \A k \in 1 .. n : V2[k] = V[k]
    BY <1>1, <1>5
<1>7. \A k : k \in 1 .. n + 1 <=> k \in 1 .. n \/ k = n + 1
    BY ONLY n \in Nat
<1>8. /\ e_vec' = V2 /\ e_calls' = <<>> /\ e_id' = new /\ UNCHANGED <<e_fired, e_off>>
      /\ \A id : id \in e_once' <=> id \in e_once \/ (once /\ id = new)
  <2>1. e_calls' = <<>>
    BY <1>2 DEF register
  <2> QED
    BY <1>1, <1>3, <1>4, <1>5, <2>1 DEF register
<1>9. /\ e_once \subseteq 1 .. e_id /\ e_off \subseteq 1 .. e_id /\ e_fired[new] = 0
      /\ e_fired \in [Handlers -> Nat] /\ e_id \in Nat
    BY <1>3 DEF EmitterTypes
<1>10. EmitterTypes'
  <2>1. e_once' \subseteq 1 .. new /\ e_off \subseteq 1 .. new
    BY <1>3, <1>8, <1>9
  <2>2. new \in 0 .. MaxHandlers
    BY <1>3, EmitterAssumption DEF Handlers
  <2>3. \A id \in Handlers : id > new => id > e_id
    BY <1>3, <1>9 DEF Handlers
  <2> QED
    BY <1>8, <1>9, <2>1, <2>2, <2>3 DEF EmitterTypes
<1>11. /\ \A k \in 1 .. n : V[k].id \in 1 .. e_id /\ (V[k].once <=> V[k].id \in e_once)
       /\ \A j, k \in 1 .. n : V[j].id = V[k].id => j = k
    BY <1>1, <1>2 DEF Items
<1>12. x.id = new /\ (x.once <=> once) /\ ~ x.deleted
    BY <1>4
<1>13. Items(e_vec, n + 1)'
  <2>1. \A k \in 1 .. n + 1 : V2[k].id \in 1 .. new /\ (V2[k].once <=> V2[k].id \in e_once')
    BY <1>3, <1>6, <1>7, <1>8, <1>9, <1>11, <1>12
  <2>2. \A j, k \in 1 .. n + 1 : V2[j].id = V2[k].id => j = k
    <3>1. \A k \in 1 .. n : V2[k].id # new /\ V2[n + 1].id = new
      BY <1>3, <1>6, <1>11, <1>12
    <3> QED
      BY <1>6, <1>7, <1>11, <3>1
  <2>3. n + 1 \in 0 .. Len(V2)
    BY <1>6
  <2> QED
    BY <1>6, <1>8, <2>1, <2>2, <2>3 DEF Items
<1>14. \A id : Alive(V2, 1, n + 1, id) <=> Alive(V, 1, n, id) \/ id = new
    BY <1>6, <1>7, <1>12 DEF Alive
<1>15. Registered(e_vec, n + 1, 0)'
  <2>1. ASSUME NEW id \in 1 .. e_id
        PROVE  Alive(V2, 1, n + 1, id)
                  <=> id \notin e_off /\ (id \in e_once' => e_fired[id] = 0 \/ id = 0)
    BY <1>2, <1>3, <1>8, <1>14 DEF Registered
  <2>2. /\ Alive(V2, 1, n + 1, new)
        /\ new \notin e_off /\ (new \in e_once' => e_fired[new] = 0 \/ new = 0)
    BY <1>3, <1>9, <1>14
  <2> QED
    BY <1>3, <1>8, <2>1, <2>2 DEF Registered
<1> QED
    BY <1>6, <1>8, <1>10, <1>13, <1>15 DEF Still, Quiet

LEMMA Least ==
    ASSUME NEW spot, spot \subseteq Nat, spot # {}
    PROVE  Min(spot) \in spot /\ \A k \in spot : Min(spot) <= k
<1>1. PICK x \in spot : \A y \in spot : ~ (<<y, x>> \in OpToRel(<, Nat))
    BY WFMin, NatLessThanWellFounded
<1>2. \A y \in spot : ~ (y < x)
    BY <1>1 DEF OpToRel
<1>3. \A y \in spot : x <= y
    BY <1>2
<1> QED
    BY <1>3 DEF Min

\* Of the first n items of V, in V1 those with that id are deleted.
Offed(V, n, id, V1) ==
    /\ Items(V1, n) /\ Len(V1) = Len(V)
    /\ \A k \in 1 .. Len(V) : V1[k].id = V[k].id /\ (V[k].deleted => V1[k].deleted)
    /\ \A m \in 1 .. n + 1 : \A x : Alive(V1, m, n, x) <=> Alive(V, m, n, x) /\ x # id

\* off finds the item that counts, if there is one: those left over are behind it.
LEMMA Offs ==
    ASSUME NEW n, Items(e_vec, n), NEW id \in Handlers, off(id)
    PROVE  \E V, V1 : V = e_vec /\ e_vec' = V1 /\ Offed(V, n, id, V1)
<1>1. PICK V \in Seq(Item) : V = e_vec
    BY DEF Items
<1>2. PICK V1 : V1 = e_vec'
    OBVIOUS
<1>3. /\ n \in 0 .. Len(V) /\ Len(V) \in Nat
      /\ \A k \in 1 .. Len(V) : V[k].id \in 1 .. e_id /\ (V[k].once <=> V[k].id \in e_once)
      /\ \A i, j \in 1 .. n : V[i].id = V[j].id => i = j
    BY <1>1 DEF Items
<1>4. \A m \in 1 .. n + 1 : \A k \in m .. n : k \in 1 .. n
    BY ONLY <1>3
<1>5. \A k \in 1 .. n : k \in 1 .. Len(V)
    BY ONLY <1>3
<1> DEFINE spot == {k \in 1 .. Len(V) : V[k].id = id}
<1>6. V1 = IF spot = {} THEN V ELSE [V EXCEPT ![Min(spot)].deleted = TRUE]
  <2>1. DOMAIN V = 1 .. Len(V)
    OBVIOUS
  <2> QED
    BY <1>1, <1>2, <2>1 DEF off
<1>7. CASE spot = {}
  <2>1. \A m \in 1 .. n + 1 : \A x : Alive(V, m, n, x) => x # id
    BY <1>4, <1>5, <1>7 DEF Alive
  <2> QED
    BY <1>1, <1>2, <1>6, <1>7, <2>1 DEF Offed
<1>8. CASE spot # {}
  <2>1. PICK l \in 1 .. Len(V) : l = Min(spot) /\ l \in spot /\ \A k \in spot : l <= k
    <3>1. spot \subseteq Nat
      OBVIOUS
    <3>2. Min(spot) \in spot /\ \A k \in spot : Min(spot) <= k
      BY <1>8, <3>1, Least
    <3>3. spot \subseteq 1 .. Len(V)
      OBVIOUS
    <3> HIDE DEF spot
    <3> QED
      BY <3>2, <3>3
  <2>2. V[l].id = id /\ \A k \in 1 .. Len(V) : V[k].id = id => l <= k
    BY <2>1
  <2>3. V1 = [V EXCEPT ![l].deleted = TRUE]
    BY <1>6, <1>8, <2>1
  <2> HIDE DEF spot
  <2>4. Marked(V, l, V1)
    <3>0. V[l] \in Item
      BY <2>1
    <3>1. PICK x \in Item : x = [V[l] EXCEPT !.deleted = TRUE]
      BY <3>0 DEF Item
    <3>2. x.id = V[l].id /\ x.once = V[l].once /\ x.deleted
      BY <3>0, <3>1 DEF Item
    <3>3. V1 = [V EXCEPT ![l] = x]
      BY <2>3, <3>1
    <3>4. V1 \in Seq(Item) /\ Len(V1) = Len(V) /\ \A j \in 1 .. Len(V) : V1[j] = IF j = l THEN x ELSE V[j]
      BY <3>3
    <3> QED
      BY <3>2, <3>4 DEF Marked
  <2>5. Items(V1, n)
    BY <1>3, <1>5, <2>4 DEF Items, Marked
  <2>6. \A k \in 1 .. n : V[k].id = id => k = l
    <3>1. ASSUME NEW k \in 1 .. n, V[k].id = id PROVE l \in 1 .. n
      <4>1. l <= k
        BY <1>5, <2>2, <3>1
      <4> QED
        BY ONLY k \in 1 .. n, l \in 1 .. Len(V), <1>3, <4>1
    <3> QED
      BY <1>3, <2>2, <3>1
  <2>7. ASSUME NEW m \in 1 .. n + 1, NEW x
        PROVE  Alive(V1, m, n, x) <=> Alive(V, m, n, x) /\ x # id
    <3>1. \A k \in m .. n : V[k].id = id => k = l
      BY <1>4, <2>6
    <3>2. \A k \in m .. n : V1[k].id = V[k].id /\ (V1[k].deleted <=> V[k].deleted \/ k = l)
      BY <1>4, <1>5, <2>4 DEF Marked
    <3> QED
      BY <2>2, <3>1, <3>2 DEF Alive
  <2> QED
    BY <1>1, <1>2, <2>4, <2>5, <2>7 DEF Offed, Marked
<1> QED
    BY <1>7, <1>8

LEMMA OffTypes ==
    ASSUME EmitterTypes, NEW id \in Handlers, off(id)
    PROVE  EmitterTypes' /\ id \in 1 .. e_id /\ UNCHANGED <<e_id, e_fired, e_once>>
           /\ e_off' = e_off \cup {id}
<1>1. UNCHANGED <<e_id, e_fired, e_once>> /\ e_off' = e_off \cup {id} /\ id <= e_id
    BY DEF off
<1>2. id \in 1 .. e_id
    BY <1>1, EmitterAssumption DEF EmitterTypes, Handlers
<1> QED
    BY <1>1, <1>2 DEF EmitterTypes

LEMMA OffRegistered ==
    ASSUME NEW V, NEW n \in Nat, NEW run, Registered(V, n, run), NEW id, NEW V1, Offed(V, n, id, V1),
           e_vec' = V1, e_off' = e_off \cup {id}, UNCHANGED <<e_id, e_fired, e_once>>
    PROVE  Registered(e_vec, n, run)'
<1>1. \A x : Alive(V1, 1, n, x) <=> Alive(V, 1, n, x) /\ x # id
  <2>1. 1 \in 1 .. n + 1
    OBVIOUS
  <2> QED
    BY <2>1 DEF Offed
<1> QED
    BY <1>1 DEF Registered

\* A handler is turned off between emissions.
LEMMA OffQuiet ==
    ASSUME EmitterTypes, Quiet, NEW id \in Handlers, off(id)
    PROVE  Still'
<1>1. EmitterTypes' /\ UNCHANGED <<e_id, e_fired, e_once>> /\ e_off' = e_off \cup {id}
    BY OffTypes
<1>2. PICK n \in Nat : n = Len(e_vec) /\ Items(e_vec, n) /\ Registered(e_vec, n, 0)
    BY DEF Quiet, Items
<1>3. PICK V, V1 : V = e_vec /\ e_vec' = V1 /\ Offed(V, n, id, V1)
    BY <1>2, Offs
<1>4. Registered(e_vec, n, 0)'
    BY <1>1, <1>2, <1>3, OffRegistered
<1>5. Items(e_vec, n)' /\ Len(V1) = n
    BY <1>1, <1>2, <1>3, ItemsKept DEF Offed
<1>6. e_calls' = <<>>
    BY DEF off, Quiet
<1> QED
    BY <1>1, <1>3, <1>4, <1>5, <1>6 DEF Still, Quiet

\* A handler turns one off, itself or another.
LEMMA OffEmitting ==
    ASSUME EmitterTypes, NEW c \in Call, Emitting(c), NEW id \in Handlers, off(id)
    PROVE  Still'
<1>1. /\ EmitterTypes' /\ UNCHANGED <<e_id, e_fired, e_once>> /\ e_off' = e_off \cup {id}
    BY OffTypes
<1>2. /\ e_calls = <<c>> /\ Last(e_calls) = c /\ e_calls # <<>>
      /\ [k \in DOMAIN e_calls |-> [e_calls[k] EXCEPT !.offed = @ \cup {id}]]
            = <<[c EXCEPT !.offed = @ \cup {id}]>>
    BY One DEF Emitting
<1>3. c.running
    BY <1>2 DEF off, mayEmit
<1>4. PICK n \in Nat : n = c.tail
    BY DEF Call
<1>5. /\ Items(e_vec, n) /\ Progress(e_vec, c) /\ Running(e_vec, c)
      /\ Registered(e_vec, n, e_vec[c.i + 1].id)
    BY <1>3, <1>4 DEF Emitting
<1>6. PICK V, V1 : V = e_vec /\ e_vec' = V1 /\ Offed(V, n, id, V1)
    BY <1>5, Offs
<1>7. PICK d : d = [c EXCEPT !.offed = c.offed \cup {id}]
    OBVIOUS
<1>8. /\ d \in Call /\ d.i = c.i /\ d.tail = n /\ d.len = c.len /\ d.running = c.running
      /\ d.moved = c.moved /\ d.start = c.start /\ d.called = c.called /\ d.offed = c.offed \cup {id}
    BY <1>4, <1>7 DEF Call
<1>9. d.running /\ (~ c.moved => ~ d.moved)
    BY <1>3, <1>7 DEF Call
<1>10. e_calls' = <<d>>
    BY <1>2, <1>7 DEF off
<1>11. /\ Items(V, n) /\ c.i < n /\ c.i \in Nat /\ n \in 0 .. Len(V) /\ c.i + 1 \in 1 .. Len(V)
       /\ c.i + 1 \in 1 .. n + 1 /\ Len(V) \in Nat
  <2>1. Items(V, n) /\ c.i < n /\ c.i \in Nat
    BY <1>4, <1>5, <1>6 DEF Running, Call
  <2>2. n \in 0 .. Len(V) /\ Len(V) \in Nat
    BY <2>1 DEF Items
  <2> QED
    BY ONLY <2>1, <2>2
<1>12. \A x : Called(d, x) <=> Called(c, x)
    BY <1>8 DEF Called
<1>13. Progress(V1, d)
  <2>1. /\ c.i \in 0 .. n /\ n \in 0 .. Len(V) /\ c.len = Len(V) /\ ~ c.moved
        /\ \A k \in 1 .. Len(c.called) : c.called[k] \in c.start
        /\ \A j, k \in 1 .. Len(c.called) : c.called[j] = c.called[k] => j = k
        /\ \A k \in c.i + 1 .. n :
              /\ V[k].id \in c.start \/ V[k].deleted
              /\ Called(c, V[k].id) => c.running /\ k = c.i + 1
        /\ \A x \in c.start : x \in c.offed \/ Called(c, x) \/ Alive(V, c.i + 1, n, x)
    BY <1>4, <1>5, <1>6 DEF Progress
  <2>2. ASSUME NEW k \in c.i + 1 .. n
        PROVE  /\ V1[k].id \in c.start \/ V1[k].deleted
               /\ Called(c, V1[k].id) => k = c.i + 1
    <3>1. k \in 1 .. Len(V)
      BY ONLY k \in c.i + 1 .. n, <1>11
    <3>2. V1[k].id = V[k].id /\ (V[k].deleted => V1[k].deleted)
      BY <1>6, <3>1 DEF Offed
    <3> QED
      BY <2>1, <3>2
  <2>3. ASSUME NEW x \in c.start
        PROVE  x \in d.offed \/ Called(c, x) \/ Alive(V1, c.i + 1, n, x)
    <3>1. Alive(V1, c.i + 1, n, x) <=> Alive(V, c.i + 1, n, x) /\ x # id
      BY <1>6, <1>11 DEF Offed
    <3> QED
      BY <1>8, <2>1, <3>1
  <2>4. Len(V1) = Len(V)
    BY <1>6 DEF Offed
  <2> QED
    BY <1>8, <1>9, <1>12, <2>1, <2>2, <2>3, <2>4 DEF Progress
<1>14. V1[c.i + 1].id = V[c.i + 1].id
    BY <1>6, <1>11 DEF Offed
<1>15. Running(V, c)
    BY <1>5, <1>6
<1>16. Running(e_vec, d)'
    BY <1>1, <1>6, <1>8, <1>11, <1>12, <1>14, <1>15 DEF Running
<1>17. PICK run : run = V[c.i + 1].id
    OBVIOUS
<1>18. Registered(e_vec, n, run)'
    BY <1>1, <1>5, <1>6, <1>17, OffRegistered
<1>19. Items(e_vec, n)'
    BY <1>1, <1>6, ItemsKept DEF Offed
<1>20. Emitting(d)'
    BY <1>6, <1>8, <1>9, <1>10, <1>13, <1>14, <1>16, <1>17, <1>18, <1>19 DEF Emitting
<1> QED
    BY <1>1, <1>8, <1>20 DEF Still

\* The reference stays good: while no handler registers, the vector neither moves nor shrinks.
LEMMA StaysInside ==
    ASSUME NEW c \in Call, Emitting(c)
    PROVE  ~ emitPast /\ (emitReturns => ~ Top.moved /\ Top.i < Len(e_vec))
<1>1. e_calls = <<c>> /\ Top = c
    BY One DEF Emitting, Top
<1>2. /\ c.i \in 0 .. c.tail /\ c.tail \in 0 .. Len(e_vec) /\ ~ c.moved /\ Len(e_vec) \in Nat
      /\ c.running => c.i < c.tail
    BY DEF Emitting, Items, Progress, Running
<1>3. c.i \in Nat /\ c.tail \in Nat
    BY DEF Call
<1>4. c.i # c.tail => c.i < Len(e_vec)
    BY ONLY <1>2, <1>3
<1>5. ~ emitPast
    BY ONLY <1>1, <1>2, <1>3, <1>4 DEF emitPast
<1>6. emitReturns => c.running
    BY <1>1 DEF emitReturns
<1> QED
    BY ONLY <1>1, <1>2, <1>3, <1>4, <1>5, <1>6

LEMMA EmitterBegins == EmitterInit => EmitterInv
<1> SUFFICES ASSUME EmitterInit PROVE Still
    BY DEF EmitterInv
<1>1. /\ e_id = 0 /\ e_vec = <<>> /\ e_calls = <<>> /\ e_once = {} /\ e_off = {}
      /\ e_fired = [id \in Handlers |-> 0]
    BY DEF EmitterInit
<1>2. EmitterTypes
    BY <1>1, EmitterAssumption DEF EmitterTypes
<1>3. Items(e_vec, Len(e_vec)) /\ Registered(e_vec, Len(e_vec), 0)
    BY <1>1 DEF Items, Registered
<1> QED
    BY <1>1, <1>2, <1>3 DEF Still, Quiet

LEMMA EmitterStep == EmitterInv /\ [EmitterNext]_emitterVars => EmitterInv'
<1> SUFFICES ASSUME EmitterInv, [EmitterNext]_emitterVars, ~ e_inside' PROVE Still'
    BY DEF EmitterInv
<1>1. CASE UNCHANGED emitterVars
  <2>1. Still
    BY <1>1 DEF EmitterInv, emitterVars
  <2>2. UNCHANGED <<e_id, e_vec, e_calls, e_fired, e_once, e_off>>
    BY <1>1 DEF emitterVars
  <2>3. EmitterTypes'
    BY <2>1, <2>2, TypesKept DEF Still
  <2>4. CASE Quiet
    BY <2>2, <2>3, <2>4 DEF Still, Quiet, Items, Registered
  <2>5. ASSUME NEW c \in Call, Emitting(c) PROVE Emitting(c)'
    BY <2>2, <2>5 DEF Emitting, Items, Progress, Running, Registered
  <2> QED
    BY <2>1, <2>3, <2>4, <2>5 DEF Still
<1>2. ASSUME NEW once \in BOOLEAN, register(once) PROVE Still'
  <2>1. ~ e_inside /\ e_calls = <<>>
    BY <1>2 DEF register, within
  <2>2. EmitterTypes /\ Quiet
    BY <2>1 DEF EmitterInv, Still, Emitting
  <2> QED
    BY <1>2, <2>2, Registers
<1>3. CASE emit
  <2>1. ~ e_inside /\ e_calls = <<>>
    BY <1>3 DEF emit, within
  <2>2. EmitterTypes /\ Quiet
    BY <2>1 DEF EmitterInv, Still, Emitting
  <2> QED
    BY <1>3, <2>2, Begins
<1>4. ASSUME NEW id \in Handlers, off(id) PROVE Still'
  <2>1. Still
    BY <1>4 DEF EmitterInv, off
  <2> QED
    BY <1>4, <2>1, OffQuiet, OffEmitting DEF Still
<1>5. ASSUME emitPast \/ emitItem \/ emitReturns \/ emitEnds PROVE Still'
  <2>1. Still /\ e_calls # <<>>
    BY <1>5 DEF EmitterInv, emitPast, emitItem, emitReturns, emitEnds
  <2>2. PICK c \in Call : EmitterTypes /\ Emitting(c)
    BY <2>1 DEF Still, Quiet
  <2>3. CASE emitPast
    BY <2>2, <2>3, StaysInside
  <2>4. CASE emitItem
    BY <2>2, <2>4, PassesDeleted, CallsItem
  <2>5. CASE emitReturns
    BY <2>2, <2>5, StaysInside, ReturnsKept, ReturnsDropped
  <2>6. CASE emitEnds
    BY <2>2, <2>6, Ends
  <2> QED
    BY <1>5, <2>3, <2>4, <2>5, <2>6
<1> QED
    BY <1>1, <1>2, <1>3, <1>4, <1>5 DEF EmitterNext

LEMMA EmitterShows == EmitterInv => EmitsExactly
<1>1. ASSUME ~ e_inside, EmitterInv, NEW k \in DOMAIN e_calls
      PROVE  LET c == e_calls[k]
             IN  /\ IsInjective(c.called) /\ Range(c.called) \subseteq c.start
                 /\ c.i = c.tail => c.start \subseteq Range(c.called) \cup c.offed
  <2>1. PICK c \in Call : Emitting(c)
    BY <1>1 DEF EmitterInv, Still, Quiet
  <2>2. e_calls[k] = c
    BY <2>1 DEF Emitting
  <2>3. c.called \in Seq(Handlers) /\ DOMAIN c.called = 1 .. Len(c.called) /\ c.tail \in Nat
    BY DEF Call
  <2>4. \A id : Called(c, id) <=> id \in Range(c.called)
    BY <2>3 DEF Called, Range
  <2>5. IsInjective(c.called) /\ Range(c.called) \subseteq c.start
    BY <2>1, <2>3 DEF Emitting, Progress, IsInjective, Range
  <2>6. ASSUME c.i = c.tail, NEW id \in c.start PROVE id \in Range(c.called) \cup c.offed
    <3>1. ~ Alive(e_vec, c.i + 1, c.tail, id)
      BY <2>3, <2>6 DEF Alive
    <3> QED
      BY <2>1, <2>4, <3>1 DEF Emitting, Progress
  <2> QED
    BY <2>2, <2>5, <2>6
<1>2. ASSUME ~ e_inside, EmitterInv, e_calls = <<>>
      PROVE  /\ \A j, k \in DOMAIN e_vec : e_vec[j].id = e_vec[k].id => j = k
             /\ \A id \in 1 .. e_id :
                   id \in live <=> id \notin e_off /\ (id \in e_once => e_fired[id] = 0)
  <2>1. Quiet /\ EmitterTypes
    BY <1>2 DEF EmitterInv, Still, Emitting
  <2>2. DOMAIN e_vec = 1 .. Len(e_vec)
    BY <2>1 DEF Quiet, Items
  <2>3. \A id : id \in live <=> Alive(e_vec, 1, Len(e_vec), id)
    BY <2>2 DEF live, Alive
  <2>4. \A id \in 1 .. e_id : id # 0
    BY <2>1 DEF EmitterTypes
  <2>5. \A id \in 1 .. e_id :
           id \in live <=> id \notin e_off /\ (id \in e_once => e_fired[id] = 0)
    BY <2>1, <2>3, <2>4 DEF Quiet, Registered
  <2> QED
    BY <2>1, <2>2, <2>5 DEF Quiet, Items
<1> QED
    BY <1>1, <1>2 DEF EmitsExactly, CalledOnce, HandlersListed

\* While no handler registers or emits, an emission calls each handler that was there when
\* it began exactly once, unless it is turned off meanwhile, and the list is left with the
\* handlers still registered, once each: for any number of handlers, and whichever of them
\* are turned off, from wherever, while others run.
THEOREM EmitterExact == EmitterSpec => []EmitsExactly
<1>1. EmitterSpec => []EmitterInv
    BY EmitterBegins, EmitterStep, PTL DEF EmitterSpec
<1> QED
    BY <1>1, EmitterShows, PTL
---------------------------------------------------------------------------------
(* kit/SyncQueue.h: what the two threads that share a ring may rely on      *)
(* although ++count_ and --count_ race.  The IO thread's events always fit, *)
(* whatever counts are lost; and while none is, the values come out once    *)
(* each and in order.                                                       *)

SyncTypes ==
    /\ s_use \in {"events", "buffers"}
    /\ s_count \in Int /\ s_room \in Int /\ s_loaded \in [Threads -> Int]
    /\ s_pc \in [Threads -> {"out", "check", "load", "store"}]
    /\ s_op \in [Threads -> {"push", "pop"}]
    /\ s_mutex \in [push : Threads \cup {NULL}, pop : Threads \cup {NULL}]
    /\ s_torn \in BOOLEAN

\* A thread in a method holds that method's mutex.
MutexesHeld == \A t \in Threads : s_pc[t] # "out" => s_mutex[s_op[t]] = t

\* What the IO thread has been promised is there, for the count it has read and for the
\* one the other thread will store.
RoomLeft ==
    s_use = "events" =>
        /\ s_pc[IO] # "out" => s_op[IO] = "push" /\ s_room > 0
        /\ s_pc[MAIN] # "out" => s_op[MAIN] = "pop"
        /\ s_room >= 0 /\ s_count + s_room <= SyncLength
        /\ s_pc[IO] = "store" => s_count <= s_loaded[IO] /\ s_loaded[IO] + s_room <= SyncLength
        /\ s_pc[MAIN] = "store" => s_loaded[MAIN] <= s_count

\* Whether a thread has used a slot and not yet counted it.
Inside(op) == \E t \in Threads : s_op[t] = op /\ s_pc[t] \in {"load", "store"}
Uncounted(op) == IF Inside(op) THEN 1 ELSE 0

wrap(i) == IF i >= SyncLength THEN i - SyncLength ELSE i

\* The values between s_popped and s_pushed are in the slots from head_ on, and count_ is
\* their number but for the methods that are on their way.
RingAgrees ==
    s_torn \/
    LET n == Len(s_popped)
        m == s_pushed - n
    IN  /\ s_popped \in Seq(Nat) /\ \A i \in 1 .. n : s_popped[i] = i
        /\ s_pushed \in Nat /\ s_que \in [0 .. SyncLength - 1 -> Nat]
        /\ s_count = m - Uncounted("push") + Uncounted("pop")
        /\ m - Uncounted("push") >= 0 /\ m + Uncounted("pop") <= SyncLength
        /\ s_head \in 0 .. SyncLength - 1 /\ s_tail = wrap(s_head + m)
        /\ \A j \in 0 .. m - 1 : s_que[wrap(s_head + j)] = n + 1 + j

SyncInv == SyncTypes /\ MutexesHeld /\ RoomLeft /\ RingAgrees

---------------------------------------------------------------------------------
LEMMA ThreadsDiffer == IO \in Threads /\ MAIN \in Threads /\ IO # MAIN /\ NULL \notin Threads
  BY SyncAssumption DEF Threads

\* The modulo of the two index increments is a wrap.
LEMMA NextSlot ==
    ASSUME NEW i \in 0 .. SyncLength - 1
    PROVE  (i + 1) % SyncLength = wrap(i + 1)
  BY SyncAssumption DEF wrap

LEMMA SyncInitOK == SyncInit => SyncInv
<1> SUFFICES ASSUME SyncInit PROVE SyncInv
    OBVIOUS
<1>1. SyncTypes /\ MutexesHeld
  <2>1. s_mutex \in [push : Threads \cup {NULL}, pop : Threads \cup {NULL}]
    BY DEF SyncInit
  <2>2. \A t \in Threads : s_pc[t] = "out"
    BY DEF SyncInit
  <2>3. s_loaded \in [Threads -> Int] /\ s_op \in [Threads -> {"push", "pop"}]
        /\ s_pc \in [Threads -> {"out", "check", "load", "store"}]
    BY DEF SyncInit
  <2>4. s_count \in Int /\ s_room \in Int /\ s_use \in {"events", "buffers"}
    BY DEF SyncInit
  <2>5. s_torn \in BOOLEAN
    BY Zenon DEF SyncInit
  <2>6. SyncTypes
    BY <2>1, <2>3, <2>4, <2>5 DEF SyncTypes
  <2> QED
    BY <2>2, <2>6 DEF MutexesHeld
<1>2. RoomLeft
    BY ThreadsDiffer, SyncAssumption DEF SyncInit, RoomLeft
<1>3. RingAgrees
  <2>1. Uncounted("push") = 0 /\ Uncounted("pop") = 0
    BY DEF SyncInit, Uncounted, Inside
  <2>2. /\ s_popped = <<>> /\ s_pushed = 0 /\ s_count = 0 /\ s_head = 0 /\ s_tail = 0
        /\ s_que \in [0 .. SyncLength - 1 -> Nat]
    BY SyncAssumption DEF SyncInit
  <2>3. s_popped \in Seq(Nat) /\ Len(s_popped) = 0 /\ s_pushed - Len(s_popped) = 0
    <3>1. s_popped \in Seq(Nat)
      BY <2>2
    <3>2. Len(s_popped) = 0
      BY <2>2
    <3>3. s_pushed = 0
      BY <2>2
    <3>4. s_pushed - Len(s_popped) = 0
      BY <3>2, <3>3
    <3> QED
      BY <3>1, <3>2, <3>4
  <2>4. 0 \in 0 .. SyncLength - 1 /\ SyncLength \in Nat /\ wrap(0 + 0) = 0
    BY SyncAssumption DEF wrap
  <2> QED
    BY <2>1, <2>2, <2>3, <2>4 DEF RingAgrees
<1> QED
    BY <1>1, <1>2, <1>3 DEF SyncInv

\* Two threads are never in one method.
LEMMA Alone ==
    ASSUME SyncTypes, MutexesHeld, NEW t \in Threads, s_pc[t] # "out"
    PROVE  \A u \in Threads : u # t /\ s_pc[u] # "out" => s_op[u] # s_op[t]
  BY ThreadsDiffer DEF SyncTypes, MutexesHeld

\* A thread that has not used a slot is the only one in its method.
LEMMA NotInside ==
    ASSUME SyncTypes, MutexesHeld, NEW t \in Threads, s_pc[t] = "check"
    PROVE  Uncounted(s_op[t]) = 0
  BY Alone DEF Uncounted, Inside, SyncTypes

LEMMA IsInside ==
    ASSUME SyncTypes, NEW t \in Threads, s_pc[t] \in {"load", "store"}
    PROVE  Uncounted(s_op[t]) = 1
  BY DEF Uncounted, Inside

\* What a thread's return leaves.
LEMMA Returned ==
    ASSUME SyncTypes, MutexesHeld, NEW t \in Threads, s_pc[t] # "out", SyncReturn(t),
           UNCHANGED s_op
    PROVE  /\ s_pc' \in [Threads -> {"out", "check", "load", "store"}]
           /\ s_pc'[t] = "out" /\ \A u \in Threads \ {t} : s_pc'[u] = s_pc[u]
           /\ s_mutex' \in [push : Threads \cup {NULL}, pop : Threads \cup {NULL}]
           /\ MutexesHeld'
           /\ Uncounted(s_op[t])' = 0
           /\ \A op \in {"push", "pop"} : op # s_op[t] => Uncounted(op)' = Uncounted(op)
           /\ s_room' \in Int
<1>1. /\ s_pc' \in [Threads -> {"out", "check", "load", "store"}]
      /\ s_pc'[t] = "out" /\ \A u \in Threads \ {t} : s_pc'[u] = s_pc[u]
    BY DEF SyncReturn, goto, SyncTypes
<1>2. /\ s_mutex' \in [push : Threads \cup {NULL}, pop : Threads \cup {NULL}]
      /\ \A op \in {"push", "pop"} : op # s_op[t] => s_mutex'[op] = s_mutex[op]
    BY DEF SyncReturn, SyncTypes
<1>3. MutexesHeld'
  <2> SUFFICES ASSUME NEW u \in Threads, s_pc'[u] # "out" PROVE s_mutex'[s_op[u]] = u
      BY DEF MutexesHeld
  <2>1. u # t /\ s_pc[u] # "out"
    BY <1>1
  <2>2. s_op[u] # s_op[t] /\ s_op[u] \in {"push", "pop"}
    BY <2>1, Alone DEF SyncTypes
  <2> QED
    BY <1>2, <2>1, <2>2 DEF MutexesHeld
<1>4. Uncounted(s_op[t])' = 0
  <2>1. \A u \in Threads : s_pc'[u] \in {"load", "store"} => s_op'[u] # s_op'[t]
    BY <1>1, Alone
  <2> QED
    BY <2>1 DEF Uncounted, Inside
<1>5. ASSUME NEW op \in {"push", "pop"}, op # s_op[t]
      PROVE  Uncounted(op)' = Uncounted(op)
  <2>1. Inside(op)' <=> Inside(op)
    BY <1>1, <1>5 DEF Inside
  <2> QED
    BY <2>1 DEF Uncounted
<1>6. s_room' \in Int
    BY DEF SyncReturn, SyncTypes
<1> QED
    BY <1>1, <1>2, <1>3, <1>4, <1>5, <1>6

LEMMA EventRestStep == ASSUME SyncInv, EventRest PROVE SyncInv'
<1> USE DEF SyncInv
<1>1. /\ UNCHANGED <<s_use, s_count, s_head, s_tail, s_que, s_mutex, s_pc, s_op, s_loaded,
                     s_pushed, s_popped, s_torn>>
      /\ s_pc[IO] = "out" /\ s_room = 0 /\ s_room' = SyncLength - s_count
    BY DEF EventRest, ringVars, syncHistory, rest
<1>2. SyncTypes' /\ MutexesHeld'
    BY <1>1, SyncAssumption DEF SyncTypes, MutexesHeld
<1>3. RoomLeft'
    BY <1>1, SyncAssumption DEF RoomLeft, SyncTypes
<1>4. RingAgrees'
    BY <1>1 DEF RingAgrees, Uncounted, Inside
<1> QED
    BY <1>2, <1>3, <1>4

LEMMA CallStep ==
    ASSUME SyncInv, NEW t \in Threads, NEW op \in {"push", "pop"}, SyncCall(t, op)
    PROVE  SyncInv'
<1> USE DEF SyncInv
<1>1. /\ UNCHANGED <<s_use, s_count, s_head, s_tail, s_que, s_loaded, s_room, s_pushed,
                     s_popped, s_torn>>
      /\ s_pc[t] = "out" /\ mayCall(t, op) /\ s_mutex[op] = NULL
      /\ s_mutex' = [s_mutex EXCEPT ![op] = t] /\ s_op' = [s_op EXCEPT ![t] = op]
      /\ s_pc' = [s_pc EXCEPT ![t] = "check"]
    BY DEF SyncCall, ringVars, syncHistory, goto
<1>2. /\ s_pc' \in [Threads -> {"out", "check", "load", "store"}]
      /\ s_pc'[t] = "check" /\ \A u \in Threads \ {t} : s_pc'[u] = s_pc[u]
      /\ s_op' \in [Threads -> {"push", "pop"}]
      /\ s_op'[t] = op /\ \A u \in Threads \ {t} : s_op'[u] = s_op[u]
      /\ s_mutex' \in [push : Threads \cup {NULL}, pop : Threads \cup {NULL}]
      /\ s_mutex'[op] = t /\ \A o \in {"push", "pop"} \ {op} : s_mutex'[o] = s_mutex[o]
    BY <1>1 DEF SyncTypes
<1>3. SyncTypes'
    BY <1>1, <1>2 DEF SyncTypes
<1>4. MutexesHeld'
  <2> SUFFICES ASSUME NEW u \in Threads, s_pc'[u] # "out" PROVE s_mutex'[s_op'[u]] = u
      BY DEF MutexesHeld
  <2>1. CASE u = t
    BY <1>2, <2>1
  <2>2. CASE u # t
    <3>1. s_mutex[s_op[u]] = u /\ s_op[u] \in {"push", "pop"}
      BY <1>2, <2>2 DEF MutexesHeld, SyncTypes
    <3>2. s_op[u] # op
      BY <1>1, <3>1, ThreadsDiffer
    <3> QED
      BY <1>2, <2>2, <3>1, <3>2
  <2> QED
    BY <2>1, <2>2
<1>5. RoomLeft'
    BY <1>1, <1>2, ThreadsDiffer DEF RoomLeft, mayCall, Threads
<1>6. RingAgrees'
  <2>1. \A o \in {"push", "pop"} : Inside(o)' <=> Inside(o)
    BY <1>1, <1>2 DEF Inside
  <2>2. Uncounted("push")' = Uncounted("push") /\ Uncounted("pop")' = Uncounted("pop")
    BY <2>1 DEF Uncounted
  <2> QED
    BY <1>1, <2>2 DEF RingAgrees
<1> QED
    BY <1>3, <1>4, <1>5, <1>6

\* A refused push or pop.
LEMMA RefusedStep ==
    ASSUME SyncInv, NEW t \in Threads, SyncFull(t) \/ SyncEmpty(t) PROVE SyncInv'
<1> USE DEF SyncInv
<1>1. /\ UNCHANGED <<s_use, s_count, s_head, s_tail, s_que, s_op, s_loaded, s_pushed,
                     s_popped, s_torn>>
      /\ s_pc[t] = "check" /\ SyncReturn(t)
      /\ s_op[t] = "push" => s_count = SyncLength
    BY DEF SyncFull, SyncEmpty, ringVars, syncHistory, at
<1>2. SyncTypes' /\ MutexesHeld'
    BY <1>1, Returned DEF SyncTypes
<1>3. RoomLeft'
  <2> SUFFICES ASSUME s_use = "events" PROVE RoomLeft'
      BY <1>1 DEF RoomLeft
  <2>1. t = MAIN /\ s_op[t] = "pop"
    BY <1>1, SyncAssumption DEF RoomLeft, Threads, SyncTypes
  <2>2. s_room' = s_room
    BY <1>1, <2>1 DEF SyncReturn
  <2>3. s_pc'[MAIN] = "out" /\ s_pc'[IO] = s_pc[IO]
    BY <1>1, <2>1, Returned, ThreadsDiffer
  <2> QED
    BY <1>1, <2>2, <2>3, ThreadsDiffer DEF RoomLeft
<1>4. RingAgrees'
  <2>1. Uncounted(s_op[t]) = 0
    BY <1>1, NotInside
  <2>2. Uncounted(s_op[t])' = 0 /\ \A op \in {"push", "pop"} \ {s_op[t]} : Uncounted(op)' = Uncounted(op)
    BY <1>1, Returned
  <2>3. s_op[t] \in {"push", "pop"}
    BY DEF SyncTypes
  <2>4. Uncounted("push")' = Uncounted("push") /\ Uncounted("pop")' = Uncounted("pop")
    <3>1. CASE s_op[t] = "push"
      BY <1>1, <2>1, <2>2, <3>1
    <3>2. CASE s_op[t] = "pop"
      BY <1>1, <2>1, <2>2, <3>2
    <3> QED
      BY <2>3, <3>1, <3>2
  <2> QED
    BY <1>1, <2>4 DEF RingAgrees
<1> QED
    BY <1>2, <1>3, <1>4

\* What a thread's step into the method leaves.
LEMMA Entered ==
    ASSUME SyncTypes, MutexesHeld, NEW t \in Threads, s_pc[t] = "check", goto(t, "load"),
           UNCHANGED <<s_op, s_mutex>>
    PROVE  /\ s_pc' \in [Threads -> {"out", "check", "load", "store"}]
           /\ s_pc'[t] = "load" /\ \A u \in Threads \ {t} : s_pc'[u] = s_pc[u]
           /\ MutexesHeld'
           /\ Uncounted(s_op[t])' = 1
           /\ \A op \in {"push", "pop"} : op # s_op[t] => Uncounted(op)' = Uncounted(op)
<1>1. /\ s_pc' \in [Threads -> {"out", "check", "load", "store"}]
      /\ s_pc'[t] = "load" /\ \A u \in Threads \ {t} : s_pc'[u] = s_pc[u]
    BY DEF goto, SyncTypes
<1>2. MutexesHeld'
    BY <1>1 DEF MutexesHeld
<1>3. Uncounted(s_op[t])' = 1
    BY <1>1 DEF Uncounted, Inside
<1>4. ASSUME NEW op \in {"push", "pop"}, op # s_op[t]
      PROVE  Uncounted(op)' = Uncounted(op)
  <2>1. Inside(op)' <=> Inside(op)
    BY <1>1, <1>4 DEF Inside
  <2> QED
    BY <2>1 DEF Uncounted
<1> QED
    BY <1>1, <1>2, <1>3, <1>4

LEMMA PutStep == ASSUME SyncInv, NEW t \in Threads, SyncPut(t) PROVE SyncInv'
<1> USE DEF SyncInv
<1>1. /\ UNCHANGED <<s_use, s_count, s_head, s_mutex, s_op, s_loaded, s_room, s_popped, s_torn>>
      /\ s_pc[t] = "check" /\ s_op[t] = "push" /\ s_count # SyncLength
      /\ s_que' = [s_que EXCEPT ![s_tail] = s_pushed + 1]
      /\ s_tail' = (s_tail + 1) % SyncLength /\ s_pushed' = s_pushed + 1
      /\ goto(t, "load")
    BY DEF SyncPut, at
<1>2. SyncTypes' /\ MutexesHeld'
    BY <1>1, Entered DEF SyncTypes
<1>3. RoomLeft'
    BY <1>1, Entered, ThreadsDiffer DEF RoomLeft, Threads
<1>4. RingAgrees'
  <2> SUFFICES ASSUME s_torn = FALSE PROVE RingAgrees'
      BY <1>1 DEF RingAgrees, SyncTypes
  <2> DEFINE n == Len(s_popped)
             m == s_pushed - n
  <2>1. /\ Uncounted("push") = 0 /\ Uncounted("push")' = 1 /\ Uncounted("pop")' = Uncounted("pop")
        /\ Uncounted("pop") \in {0, 1}
    BY <1>1, NotInside, Entered DEF Uncounted
  <2>2. /\ s_popped \in Seq(Nat) /\ n \in Nat /\ s_pushed \in Nat
        /\ s_que \in [0 .. SyncLength - 1 -> Nat]
        /\ s_count = m + Uncounted("pop") /\ m >= 0 /\ m + Uncounted("pop") <= SyncLength
        /\ s_head \in 0 .. SyncLength - 1 /\ s_tail = wrap(s_head + m)
        /\ \A j \in 0 .. m - 1 : s_que[wrap(s_head + j)] = n + 1 + j
        /\ \A i \in 1 .. n : s_popped[i] = i
    BY <2>1 DEF RingAgrees
  <2>3. m + Uncounted("pop") < SyncLength /\ m \in 0 .. SyncLength - 1 /\ SyncLength \in Nat \ {0}
    <3>1. m \in Int /\ SyncLength \in Nat \ {0}
      BY <2>2, SyncAssumption
    <3> HIDE DEF m
    <3> QED
      BY <1>1, <2>1, <2>2, <3>1
  <2>4. s_pushed' - n = m + 1
    BY <1>1, <2>2
  <2> HIDE DEF m
  <2>5. s_tail \in 0 .. SyncLength - 1 /\ s_tail' = wrap(s_tail + 1)
    <3>1. s_tail \in 0 .. SyncLength - 1
      BY <2>2, <2>3 DEF wrap
    <3> QED
      BY <1>1, <3>1, NextSlot
  <2>6. s_tail' = wrap(s_head + (m + 1))
    BY <2>2, <2>3, <2>5 DEF wrap
  <2>7. /\ s_que' \in [0 .. SyncLength - 1 -> Nat] /\ s_que'[s_tail] = s_pushed + 1
        /\ \A i \in 0 .. SyncLength - 1 : i # s_tail => s_que'[i] = s_que[i]
    BY <1>1, <2>2, <2>5
  <2>8. ASSUME NEW j \in 0 .. (m + 1) - 1 PROVE s_que'[wrap(s_head + j)] = n + 1 + j
    <3>1. CASE j = m
      <4>1. s_pushed + 1 = n + 1 + m
        BY <2>2 DEF m
      <4> QED
        BY <2>2, <2>7, <3>1, <4>1
    <3>2. CASE j # m
      <4>1. j \in 0 .. m - 1 /\ wrap(s_head + j) \in 0 .. SyncLength - 1 /\ wrap(s_head + j) # s_tail
        BY <2>2, <2>3, <2>8, <3>2 DEF wrap
      <4> QED
        BY <2>2, <2>7, <4>1
    <3> QED
      BY <3>1, <3>2
  <2>9. /\ s_count = (m + 1) - 1 + Uncounted("pop") /\ (m + 1) - 1 >= 0
        /\ (m + 1) + Uncounted("pop") <= SyncLength
    BY <2>1, <2>2, <2>3
  <2>10. s_pushed' - Len(s_popped') = m + 1 /\ s_pushed' \in Nat
    BY <1>1, <2>2, <2>4
  <2> HIDE DEF n
  <2>11. Len(s_popped') = n
    BY <1>1 DEF n
  <2>12. /\ s_popped' \in Seq(Nat) /\ \A i \in 1 .. Len(s_popped') : s_popped'[i] = i
         /\ s_head' \in 0 .. SyncLength - 1 /\ s_tail' = wrap(s_head' + (m + 1))
    BY <1>1, <2>2, <2>6, <2>11
  <2>13. \A j \in 0 .. (m + 1) - 1 : s_que'[wrap(s_head' + j)] = Len(s_popped') + 1 + j
    BY <1>1, <2>8, <2>11
  <2>14. /\ s_count' = (m + 1) - Uncounted("push")' + Uncounted("pop")'
         /\ (m + 1) - Uncounted("push")' >= 0 /\ (m + 1) + Uncounted("pop")' <= SyncLength
    BY <1>1, <2>1, <2>9
  <2> QED
    BY <2>7, <2>10, <2>12, <2>13, <2>14 DEF RingAgrees
<1> QED
    BY <1>2, <1>3, <1>4

LEMMA TakeStep == ASSUME SyncInv, NEW t \in Threads, SyncTake(t) PROVE SyncInv'
<1> USE DEF SyncInv
<1>1. /\ UNCHANGED <<s_use, s_count, s_tail, s_que, s_mutex, s_op, s_loaded, s_room, s_pushed,
                     s_torn>>
      /\ s_pc[t] = "check" /\ s_op[t] = "pop" /\ s_count # 0
      /\ s_popped' = Append(s_popped, s_que[s_head])
      /\ s_head' = (s_head + 1) % SyncLength /\ goto(t, "load")
    BY DEF SyncTake, at
<1>2. SyncTypes' /\ MutexesHeld'
    BY <1>1, Entered DEF SyncTypes
<1>3. RoomLeft'
    BY <1>1, Entered, ThreadsDiffer DEF RoomLeft, Threads
<1>4. RingAgrees'
  <2> SUFFICES ASSUME s_torn = FALSE PROVE RingAgrees'
      BY <1>1 DEF RingAgrees, SyncTypes
  <2> DEFINE n == Len(s_popped)
             m == s_pushed - n
  <2>1. /\ Uncounted("pop") = 0 /\ Uncounted("pop")' = 1 /\ Uncounted("push")' = Uncounted("push")
        /\ Uncounted("push") \in {0, 1}
    BY <1>1, NotInside, Entered DEF Uncounted
  <2>2. /\ s_popped \in Seq(Nat) /\ n \in Nat /\ s_pushed \in Nat
        /\ s_que \in [0 .. SyncLength - 1 -> Nat]
        /\ s_count = m - Uncounted("push") /\ m - Uncounted("push") >= 0 /\ m <= SyncLength
        /\ s_head \in 0 .. SyncLength - 1 /\ s_tail = wrap(s_head + m)
        /\ \A j \in 0 .. m - 1 : s_que[wrap(s_head + j)] = n + 1 + j
        /\ \A i \in 1 .. n : s_popped[i] = i
    BY <2>1 DEF RingAgrees
  <2>3. m - Uncounted("push") > 0 /\ m \in 1 .. SyncLength /\ SyncLength \in Nat \ {0}
    <3>1. m \in Int /\ SyncLength \in Nat \ {0}
      BY <2>2, SyncAssumption
    <3> HIDE DEF m
    <3>2. m - Uncounted("push") > 0
      BY <1>1, <2>1, <2>2, <3>1
    <3> QED
      BY <2>1, <2>2, <3>1, <3>2
  <2>4. s_que[s_head] = n + 1
    <3>1. 0 \in 0 .. m - 1 /\ wrap(s_head + 0) = s_head
      BY <2>2, <2>3 DEF wrap
    <3>2. s_que[wrap(s_head + 0)] = n + 1 + 0
      BY <2>2, <3>1
    <3> QED
      BY <2>2, <3>1, <3>2
  <2>5. /\ s_popped' \in Seq(Nat) /\ Len(s_popped') = n + 1 /\ s_popped'[n + 1] = n + 1
        /\ \A i \in 1 .. n : s_popped'[i] = s_popped[i]
    BY <1>1, <2>2, <2>4
  <2>6. s_pushed - Len(s_popped') = m - 1
    BY <2>2, <2>5
  <2> HIDE DEF m, n
  <2>7. ASSUME NEW i \in 1 .. Len(s_popped') PROVE s_popped'[i] = i
    <3>1. i \in 1 .. n \/ i = n + 1
      BY <2>2, <2>5
    <3> QED
      BY <2>2, <2>5, <3>1
  <2>8. s_head' = wrap(s_head + 1) /\ s_head' \in 0 .. SyncLength - 1
    <3>1. s_head' = wrap(s_head + 1)
      BY <1>1, <2>2, NextSlot
    <3> QED
      BY <2>2, <2>3, <3>1 DEF wrap
  <2>9. s_tail = wrap(s_head' + (m - 1))
    BY <2>2, <2>3, <2>8 DEF wrap
  <2>10. ASSUME NEW j \in 0 .. (m - 1) - 1 PROVE s_que[wrap(s_head' + j)] = n + 1 + 1 + j
    <3>1. j + 1 \in 0 .. m - 1 /\ wrap(s_head' + j) = wrap(s_head + (j + 1))
      BY <2>2, <2>3, <2>8 DEF wrap
    <3>2. s_que[wrap(s_head + (j + 1))] = n + 1 + (j + 1)
      BY <2>2, <3>1
    <3> QED
      BY <2>2, <3>1, <3>2
  <2>11. /\ s_count = (m - 1) - Uncounted("push") + 1 /\ (m - 1) - Uncounted("push") >= 0
         /\ (m - 1) + 1 <= SyncLength
    BY <2>1, <2>2, <2>3
  <2>12. \A j \in 0 .. (m - 1) - 1 : s_que'[wrap(s_head' + j)] = Len(s_popped') + 1 + j
    BY <1>1, <2>5, <2>10
  <2>13. s_pushed' - Len(s_popped') = m - 1
    BY <1>1, <2>6
  <2>14. /\ s_count' = (m - 1) - Uncounted("push")' + Uncounted("pop")'
         /\ (m - 1) - Uncounted("push")' >= 0 /\ (m - 1) + Uncounted("pop")' <= SyncLength
    BY <1>1, <2>1, <2>11
  <2>15. s_pushed' \in Nat /\ s_que' \in [0 .. SyncLength - 1 -> Nat] /\ s_tail' = wrap(s_head' + (m - 1))
    BY <1>1, <2>2, <2>9
  <2> QED
    BY <2>5, <2>7, <2>8, <2>12, <2>13, <2>14, <2>15 DEF RingAgrees
<1> QED
    BY <1>2, <1>3, <1>4

LEMMA LoadStep == ASSUME SyncInv, NEW t \in Threads, SyncLoad(t) PROVE SyncInv'
<1> USE DEF SyncInv
<1>1. /\ UNCHANGED <<s_use, s_count, s_head, s_tail, s_que, s_mutex, s_op, s_room, s_pushed,
                     s_popped, s_torn>>
      /\ s_pc[t] = "load" /\ s_loaded' = [s_loaded EXCEPT ![t] = s_count]
      /\ s_pc' = [s_pc EXCEPT ![t] = "store"]
    BY DEF SyncLoad, ringVars, syncHistory, goto
<1>2. /\ s_pc' \in [Threads -> {"out", "check", "load", "store"}]
      /\ s_pc'[t] = "store" /\ \A u \in Threads \ {t} : s_pc'[u] = s_pc[u]
      /\ s_loaded' \in [Threads -> Int]
      /\ s_loaded'[t] = s_count /\ \A u \in Threads \ {t} : s_loaded'[u] = s_loaded[u]
    BY <1>1 DEF SyncTypes
<1>3. SyncTypes' /\ MutexesHeld'
    BY <1>1, <1>2 DEF SyncTypes, MutexesHeld
<1>4. RoomLeft'
    BY <1>1, <1>2, ThreadsDiffer DEF RoomLeft, Threads, SyncTypes
<1>5. RingAgrees'
  <2>1. \A o \in {"push", "pop"} : Inside(o)' <=> Inside(o)
    BY <1>1, <1>2 DEF Inside
  <2>2. Uncounted("push")' = Uncounted("push") /\ Uncounted("pop")' = Uncounted("pop")
    BY <2>1 DEF Uncounted
  <2> QED
    BY <1>1, <2>2 DEF RingAgrees
<1> QED
    BY <1>3, <1>4, <1>5

LEMMA StoreStep == ASSUME SyncInv, NEW t \in Threads, SyncStore(t) PROVE SyncInv'
<1> USE DEF SyncInv
<1>1. /\ UNCHANGED <<s_use, s_head, s_tail, s_que, s_op, s_loaded, s_pushed, s_popped>>
      /\ s_pc[t] = "store" /\ SyncReturn(t)
      /\ s_count' = IF s_op[t] = "push" THEN s_loaded[t] + 1 ELSE s_loaded[t] - 1
      /\ s_torn' = (s_torn \/ s_count # s_loaded[t])
    BY DEF SyncStore
<1>2. s_op[t] \in {"push", "pop"} /\ s_loaded[t] \in Int
    BY DEF SyncTypes
<1>3. SyncTypes' /\ MutexesHeld'
    BY <1>1, <1>2, Returned DEF SyncTypes
<1>4. RoomLeft'
  <2> SUFFICES ASSUME s_use = "events" PROVE RoomLeft'
      BY <1>1 DEF RoomLeft
  <2>1. /\ s_pc'[t] = "out" /\ \A u \in Threads \ {t} : s_pc'[u] = s_pc[u]
    BY <1>1, Returned
  <2>2. s_count \in Int /\ s_room \in Int /\ s_loaded \in [Threads -> Int]
    BY DEF SyncTypes
  <2>3. CASE t = IO
    <3>1. s_op[IO] = "push" /\ s_room > 0 /\ s_count' = s_loaded[IO] + 1 /\ s_room' = s_room - 1
      BY <1>1, <2>3 DEF RoomLeft, SyncReturn
    <3> QED
      BY <1>1, <2>1, <2>2, <2>3, <3>1, ThreadsDiffer, SyncAssumption DEF RoomLeft
  <2>4. CASE t = MAIN
    <3>1. s_op[MAIN] = "pop" /\ s_count' = s_loaded[MAIN] - 1 /\ s_room' = s_room
      BY <1>1, <2>4 DEF RoomLeft, SyncReturn
    <3> QED
      BY <1>1, <2>1, <2>2, <2>4, <3>1, ThreadsDiffer, SyncAssumption DEF RoomLeft
  <2> QED
    BY <2>3, <2>4 DEF Threads
<1>5. RingAgrees'
  <2> SUFFICES ASSUME s_torn' = FALSE PROVE RingAgrees'
      BY <1>3 DEF RingAgrees, SyncTypes
  <2>1. s_torn = FALSE /\ s_loaded[t] = s_count
    BY <1>1 DEF SyncTypes
  <2>2. /\ Uncounted(s_op[t]) = 1 /\ Uncounted(s_op[t])' = 0
        /\ \A op \in {"push", "pop"} \ {s_op[t]} : Uncounted(op)' = Uncounted(op)
        /\ \A op \in {"push", "pop"} : Uncounted(op) \in {0, 1}
    BY <1>1, IsInside, Returned DEF Uncounted
  <2> DEFINE n == Len(s_popped)
             m == s_pushed - n
  <2>3. /\ s_popped \in Seq(Nat) /\ n \in Nat /\ s_pushed \in Nat
        /\ s_count = m - Uncounted("push") + Uncounted("pop")
        /\ m - Uncounted("push") >= 0 /\ m + Uncounted("pop") <= SyncLength
    BY <2>1 DEF RingAgrees
  <2>4. m \in Int /\ SyncLength \in Int
    BY <2>3, SyncAssumption
  <2>5. UNCHANGED <<s_popped, s_pushed, s_que, s_head, s_tail>>
    BY <1>1
  <2> HIDE DEF m
  <2>6. /\ s_count' = m - Uncounted("push")' + Uncounted("pop")'
        /\ m - Uncounted("push")' >= 0 /\ m + Uncounted("pop")' <= SyncLength
    <3>1. CASE s_op[t] = "push"
      <4>1. Uncounted("push") = 1 /\ Uncounted("push")' = 0 /\ Uncounted("pop")' = Uncounted("pop")
        BY <2>2, <3>1, <1>1
      <4> QED
        BY <1>1, <2>1, <2>2, <2>3, <2>4, <3>1, <4>1
    <3>2. CASE s_op[t] = "pop"
      <4>1. Uncounted("pop") = 1 /\ Uncounted("pop")' = 0 /\ Uncounted("push")' = Uncounted("push")
        BY <2>2, <3>2, <1>1
      <4> QED
        BY <1>1, <2>1, <2>2, <2>3, <2>4, <3>2, <4>1
    <3> QED
      BY <1>2, <3>1, <3>2
  <2> QED
    BY <2>1, <2>5, <2>6 DEF RingAgrees, m
<1> QED
    BY <1>3, <1>4, <1>5

\* The inductive invariant of the shared ring.
THEOREM SyncInvariant == SyncSpec => []SyncInv
<1>1. SyncInv /\ [SyncNext]_syncVars => SyncInv'
  <2> SUFFICES ASSUME SyncInv, [SyncNext]_syncVars PROVE SyncInv'
      OBVIOUS
  <2>1. CASE SyncNext
    BY <2>1, EventRestStep, CallStep, RefusedStep, PutStep, TakeStep, LoadStep, StoreStep
    DEF SyncNext
  <2>2. CASE UNCHANGED syncVars
    BY <2>2 DEF syncVars, SyncInv, SyncTypes, MutexesHeld, RoomLeft, RingAgrees, Uncounted, Inside
  <2> QED
    BY <2>1, <2>2
<1> QED
    BY SyncInitOK, <1>1, PTL DEF SyncSpec

\* The IO thread's push of an event is never refused, for every length and whatever
\* counts the race of ++count_ and --count_ has lost (Server_linux.cpp:201).
THEOREM SyncEventsFit == SyncSpec => []EventsFit
<1>1. SyncInv => EventsFit
    BY SyncAssumption DEF SyncInv, SyncTypes, RoomLeft, EventsFit, at
<1> QED
    BY SyncInvariant, <1>1, PTL

\* As long as no count has been lost, the two methods hand out each value once and in
\* order, though push and pop hold different mutexes (SyncQueue.h).
THEOREM SyncOrder == SyncSpec => []SyncInOrder
<1>1. SyncInv => SyncInOrder
  <2> SUFFICES ASSUME SyncInv, s_torn = FALSE
               PROVE  s_popped = [i \in 1 .. Len(s_popped) |-> i]
      BY DEF SyncInOrder, SyncInv, SyncTypes
  <2>1. s_popped \in Seq(Nat) /\ \A i \in 1 .. Len(s_popped) : s_popped[i] = i
    BY DEF SyncInv, RingAgrees
  <2>2. DOMAIN s_popped = 1 .. Len(s_popped) /\ s_popped = [i \in DOMAIN s_popped |-> s_popped[i]]
    BY <2>1
  <2> QED
    BY <2>1, <2>2
<1> QED
    BY SyncInvariant, <1>1, PTL
---------------------------------------------------------------------------------
(* kit/Ref.cpp and kit/RefPool.cpp: counting the entries of lists.          *)

Count(list, o) == Cardinality(Entries(list, o))

LEMMA EntriesFinite ==
    ASSUME NEW S, NEW s \in Seq(S), NEW o
    PROVE  /\ Entries(s, o) \subseteq 1 .. Len(s) /\ IsFiniteSet(Entries(s, o))
           /\ Count(s, o) \in Nat
<1>1. DOMAIN s = 1 .. Len(s) /\ Len(s) \in Nat
    BY LenProperties
<1>2. Entries(s, o) \subseteq 1 .. Len(s)
    BY <1>1 DEF Entries
<1>3. IsFiniteSet(1 .. Len(s))
    BY <1>1, FS_Interval
<1>4. IsFiniteSet(Entries(s, o))
    BY <1>2, <1>3, FS_Subset
<1> QED
    BY <1>2, <1>4, FS_CardinalityType DEF Count

LEMMA CountPositive ==
    ASSUME NEW S, NEW s \in Seq(S), NEW o
    PROVE  /\ (\E i \in 1 .. Len(s) : s[i] = o) <=> Count(s, o) > 0
           /\ Contains(s, o) <=> Count(s, o) > 0
<1>1. IsFiniteSet(Entries(s, o)) /\ Count(s, o) \in Nat
    BY EntriesFinite
<1>2. Count(s, o) = 0 <=> Entries(s, o) = {}
    BY <1>1, FS_EmptySet DEF Count
<1>3. DOMAIN s = 1 .. Len(s)
    BY LenProperties
<1>4. (\E i \in 1 .. Len(s) : s[i] = o) <=> Entries(s, o) # {}
    BY <1>3 DEF Entries
<1>5. Contains(s, o) <=> \E i \in 1 .. Len(s) : s[i] = o
    BY DEF Contains
<1> QED
    BY <1>1, <1>2, <1>4, <1>5

LEMMA CountEmpty ==
    ASSUME NEW o
    PROVE  Count(<<>>, o) = 0
<1>1. Entries(<<>>, o) = {}
    BY DEF Entries
<1> QED
    BY <1>1, FS_EmptySet DEF Count

LEMMA CountSingle ==
    ASSUME NEW c, NEW o
    PROVE  Count(<<c>>, o) = IF c = o THEN 1 ELSE 0
<1>1. CASE c = o
  <2>1. Entries(<<c>>, o) = {1}
    BY <1>1 DEF Entries
  <2> QED
    BY <1>1, <2>1, FS_Singleton DEF Count
<1>2. CASE c # o
  <2>1. Entries(<<c>>, o) = {}
    BY <1>2 DEF Entries
  <2> QED
    BY <1>2, <2>1, FS_EmptySet DEF Count
<1> QED
    BY <1>1, <1>2

\* Entries that are moved are as many as they were.
LEMMA Moved ==
    ASSUME NEW A, NEW B, IsFiniteSet(A), NEW f \in [A -> B],
           \A a, b \in A : f[a] = f[b] => a = b, \A y \in B : \E x \in A : f[x] = y
    PROVE  IsFiniteSet(B) /\ Cardinality(B) = Cardinality(A)
<1>1. f \in Bijection(A, B)
    BY Fun_IsBij
<1>2. ExistsBijection(A, B)
    BY <1>1 DEF ExistsBijection
<1> QED
    BY <1>2, FS_Bijection

LEMMA CountConcat ==
    ASSUME NEW S, NEW s \in Seq(S), NEW t \in Seq(S), NEW o
    PROVE  s \o t \in Seq(S) /\ Count(s \o t, o) = Count(s, o) + Count(t, o)
<1>1. PICK z : z = s \o t
    OBVIOUS
<1>2. PICK n \in Nat, m \in Nat : n = Len(s) /\ m = Len(t)
    BY LenProperties
<1>3. /\ z \in Seq(S) /\ Len(z) = n + m
      /\ \A i \in 1 .. n + m : z[i] = IF i <= n THEN s[i] ELSE t[i - n]
    BY <1>1, <1>2, ConcatProperties
<1>4. DOMAIN z = 1 .. n + m /\ DOMAIN s = 1 .. n /\ DOMAIN t = 1 .. m
    BY <1>2, <1>3, LenProperties
<1> DEFINE B == {i \in n + 1 .. n + m : z[i] = o}
<1>5. Entries(z, o) = Entries(s, o) \cup B
  <2>1. ASSUME NEW i
        PROVE  i \in Entries(z, o) <=> i \in Entries(s, o) \cup B
    <3>1. CASE i \in 1 .. n
      <4>1. i \in 1 .. n + m /\ i \notin n + 1 .. n + m /\ i <= n
        BY <3>1
      <4> QED
        BY <1>3, <1>4, <3>1, <4>1 DEF Entries
    <3>2. CASE i \in n + 1 .. n + m
      <4>1. i \in 1 .. n + m /\ i \notin 1 .. n
        BY <3>2
      <4> QED
        BY <1>4, <3>2, <4>1 DEF Entries
    <3>3. CASE i \notin 1 .. n /\ i \notin n + 1 .. n + m
      <4>1. i \notin 1 .. n + m
        BY <3>3
      <4> QED
        BY <1>4, <3>3, <4>1 DEF Entries
    <3> QED
      BY <3>1, <3>2, <3>3
  <2> QED
    BY <2>1
<1>6. Entries(s, o) \cap B = {}
    BY <1>4 DEF Entries
<1>7. /\ IsFiniteSet(Entries(s, o)) /\ Count(s, o) \in Nat
      /\ IsFiniteSet(Entries(t, o)) /\ Count(t, o) \in Nat
    BY EntriesFinite
<1>8. IsFiniteSet(B) /\ Cardinality(B) = Count(t, o)
  <2> DEFINE f == [j \in Entries(t, o) |-> j + n]
  <2>1. ASSUME NEW j \in Entries(t, o)
        PROVE  f[j] \in B /\ f[j] = j + n /\ j \in Nat
    <3>1. j \in 1 .. m /\ t[j] = o
      BY <1>4 DEF Entries
    <3>2. j + n \in n + 1 .. n + m /\ j + n \in 1 .. n + m 
      BY <3>1
    <3>3. PICK i \in 1 .. n + m : i = j + n
      BY <3>2
    <3>4. ~ (i <= n) /\ i - n = j
      BY <3>1, <3>3
    <3>5. z[i] = t[j]
      BY <1>3, <3>4
    <3> QED
      BY <3>1, <3>2, <3>3, <3>5
  <2>2. f \in [Entries(t, o) -> B]
    BY <2>1
  <2>3. \A a, b \in Entries(t, o) : f[a] = f[b] => a = b
    BY <2>1
  <2>4. ASSUME NEW y \in B
        PROVE  \E x \in Entries(t, o) : f[x] = y
    <3>1. y - n \in 1 .. m /\ y \in 1 .. n + m /\ ~ (y <= n) /\ (y - n) + n = y
      OBVIOUS
    <3>2. t[y - n] = o
      BY <1>3, <3>1
    <3>3. y - n \in Entries(t, o)
      BY <1>4, <3>1, <3>2 DEF Entries
    <3> QED
      BY <3>1, <3>3
  <2> QED
    BY <1>7, <2>2, <2>3, <2>4, Moved DEF Count
<1>9. Cardinality(Entries(z, o)) = Cardinality(Entries(s, o)) + Cardinality(B) - Cardinality({})
    BY <1>5, <1>6, <1>7, <1>8, FS_Union
<1>10. Count(z, o) = Count(s, o) + Count(t, o)
    BY <1>7, <1>8, <1>9, FS_EmptySet DEF Count
<1> QED
    BY <1>1, <1>3, <1>10

LEMMA CountTail ==
    ASSUME NEW S, NEW s \in Seq(S), s # <<>>, NEW o
    PROVE  /\ Head(s) \in S /\ Tail(s) \in Seq(S)
           /\ Count(s, o) = Count(Tail(s), o) + IF Head(s) = o THEN 1 ELSE 0
<1>1. /\ Head(s) \in S /\ Tail(s) \in Seq(S) /\ Len(s) \in Nat \ {0} /\ Len(Tail(s)) = Len(s) - 1
      /\ \A i \in 1 .. Len(Tail(s)) : Tail(s)[i] = s[i + 1]
    BY HeadTailProperties, EmptySeq
<1>2. <<Head(s)>> \in Seq(S) /\ Len(<<Head(s)>>) = 1 /\ <<Head(s)>>[1] = s[1]
    BY <1>1
<1>3. PICK h, t : h = <<Head(s)>> /\ t = Tail(s)
    OBVIOUS
<1>4. h \in Seq(S) /\ t \in Seq(S) /\ Len(h) = 1 /\ Len(t) = Len(s) - 1
    BY <1>1, <1>2, <1>3
<1>5. /\ h \o t \in Seq(S) /\ Len(h \o t) = Len(h) + Len(t)
      /\ \A i \in 1 .. Len(h) + Len(t) : (h \o t)[i] = IF i <= Len(h) THEN h[i] ELSE t[i - Len(h)]
    BY ONLY <1>4, ConcatProperties
<1>6. Len(h \o t) = Len(s)
    BY <1>1, <1>4, <1>5
<1>7. ASSUME NEW i \in 1 .. Len(s)
      PROVE  (h \o t)[i] = s[i]
  <2>1. (h \o t)[i] = IF i <= 1 THEN h[i] ELSE t[i - 1]
    BY <1>4, <1>5, <1>1
  <2>2. CASE i = 1
    BY <1>2, <1>3, <2>1, <2>2
  <2>3. CASE i # 1
    <3>1. i - 1 \in 1 .. Len(t) /\ ~ (i <= 1) /\ (i - 1) + 1 = i
      BY <1>1, <1>4, <2>3
    <3>2. t[i - 1] = s[(i - 1) + 1]
      BY <1>1, <1>3, <3>1
    <3> QED
      BY <2>1, <3>1, <3>2
  <2> QED
    BY <2>2, <2>3
<1>8. h \o t = s
    BY <1>5, <1>6, <1>7, SeqEqual
<1>9. Count(h \o t, o) = Count(h, o) + Count(t, o)
    BY <1>4, CountConcat
<1>10. Count(t, o) \in Nat
    BY <1>4, EntriesFinite
<1> QED
    BY <1>1, <1>3, <1>8, <1>9, <1>10, CountSingle

LEMMA CountAppend ==
    ASSUME NEW S, NEW s \in Seq(S), NEW c \in S, NEW o
    PROVE  /\ Append(s, c) \in Seq(S) /\ Len(Append(s, c)) = Len(s) + 1
           /\ Count(Append(s, c), o) = Count(s, o) + IF c = o THEN 1 ELSE 0
<1>1. PICK z, x : z = Append(s, c) /\ x = <<c>>
    OBVIOUS
<1>2. z = s \o x /\ x \in Seq(S)
    BY <1>1
<1>3. Count(z, o) = Count(s, o) + Count(x, o)
    BY <1>2, CountConcat
<1>4. Count(x, o) = IF c = o THEN 1 ELSE 0
    BY <1>1, CountSingle
<1>5. z \in Seq(S) /\ Len(z) = Len(s) + 1
    BY <1>1, AppendProperties
<1> QED
    BY <1>1, <1>3, <1>4, <1>5

LEMMA CountRemoveAt ==
    ASSUME NEW S, NEW s \in Seq(S), NEW k \in 1 .. Len(s), NEW o
    PROVE  /\ RemoveAt(s, k) \in Seq(S) /\ Len(RemoveAt(s, k)) = Len(s) - 1
           /\ Count(s, o) = Count(RemoveAt(s, k), o) + IF s[k] = o THEN 1 ELSE 0
<1>1. PICK n \in Nat : n = Len(s)
    BY LenProperties
<1>2. \A i \in 1 .. n : s[i] \in S
    BY <1>1, ElementOfSeq
<1>3. PICK a, b, c : a = SubSeq(s, 1, k - 1) /\ b = SubSeq(s, k + 1, n) /\ c = SubSeq(s, k, n)
    OBVIOUS
<1>4. /\ a \in Seq(S) /\ Len(a) = k - 1
      /\ \A i \in 1 .. k - 1 : a[i] = s[i]
  <2>1. 1 \in Int /\ k - 1 \in Int /\ \A i \in 1 .. k - 1 : s[i] \in S
    BY <1>1, <1>2
  <2>2. /\ a \in Seq(S) /\ Len(a) = IF 1 <= k - 1 THEN (k - 1) - 1 + 1 ELSE 0
        /\ \A i \in 1 .. (k - 1) - 1 + 1 : a[i] = s[1 + i - 1]
    BY ONLY <1>3, <2>1, SubSeqProperties
  <2> QED
    BY <2>2
<1>5. /\ b \in Seq(S) /\ Len(b) = n - k
      /\ \A i \in 1 .. n - k : b[i] = s[k + i]
  <2>1. k + 1 \in Int /\ n \in Int /\ \A i \in k + 1 .. n : s[i] \in S
    BY <1>1, <1>2
  <2>2. PICK j \in Int : j = k + 1
    OBVIOUS
  <2>3. j \in Int /\ n \in Int /\ \A i \in j .. n : s[i] \in S
    BY <2>1, <2>2
  <2>4. b = SubSeq(s, j, n)
    BY <1>3, <2>2
  <2>5. /\ b \in Seq(S) /\ Len(b) = IF j <= n THEN n - j + 1 ELSE 0
        /\ \A i \in 1 .. n - j + 1 : b[i] = s[j + i - 1]
    BY ONLY <2>3, <2>4, SubSeqProperties
  <2>6. Len(b) = n - k
    BY <1>1, <2>2, <2>5
  <2>7. ASSUME NEW i \in 1 .. n - k
        PROVE  b[i] = s[k + i]
    <3>1. i \in 1 .. n - j + 1 /\ j + i - 1 = k + i
      BY <1>1, <2>2
    <3>2. b[i] = s[j + i - 1]
      BY <2>5, <3>1
    <3> QED
      BY <3>1, <3>2
  <2> QED
    BY <2>5, <2>6, <2>7
<1>6. /\ c \in Seq(S) /\ Len(c) = n - k + 1
      /\ \A i \in 1 .. n - k + 1 : c[i] = s[k + i - 1]
  <2>1. k \in Int /\ n \in Int /\ \A i \in k .. n : s[i] \in S
    BY <1>1, <1>2
  <2>2. /\ c \in Seq(S) /\ Len(c) = IF k <= n THEN n - k + 1 ELSE 0
        /\ \A i \in 1 .. n - k + 1 : c[i] = s[k + i - 1]
    BY ONLY <1>3, <2>1, SubSeqProperties
  <2> QED
    BY <1>1, <2>2
<1>7. a \o c = s
  <2>1. /\ a \o c \in Seq(S) /\ Len(a \o c) = Len(a) + Len(c)
        /\ \A i \in 1 .. Len(a) + Len(c) : (a \o c)[i] = IF i <= Len(a) THEN a[i] ELSE c[i - Len(a)]
    BY ONLY <1>4, <1>6, ConcatProperties
  <2>2. Len(a) + Len(c) = n
    BY <1>1, <1>4, <1>6
  <2>3. ASSUME NEW i \in 1 .. n
        PROVE  (a \o c)[i] = s[i]
    <3>1. (a \o c)[i] = IF i <= k - 1 THEN a[i] ELSE c[i - (k - 1)]
      BY <1>4, <2>1, <2>2
    <3>2. CASE i <= k - 1
      BY <1>4, <3>1, <3>2
    <3>3. CASE ~ (i <= k - 1)
      <4>1. i - (k - 1) \in 1 .. n - k + 1 /\ k + (i - (k - 1)) - 1 = i
        BY <1>1, <3>3
      <4>2. c[i - (k - 1)] = s[k + (i - (k - 1)) - 1]
        BY <1>6, <4>1
      <4> QED
        BY <3>1, <3>3, <4>1, <4>2
    <3> QED
      BY <3>2, <3>3
  <2> QED
    BY <1>1, <2>1, <2>2, <2>3, SeqEqual
<1>8. c # <<>> /\ Head(c) = s[k]
  <2>1. c # <<>>
    BY <1>1, <1>6, EmptySeq
  <2>2. Head(c) = c[1]
    BY <2>1
  <2>3. 1 \in 1 .. n - k + 1 /\ k + 1 - 1 = k
    BY <1>1
  <2> QED
    BY <1>6, <2>1, <2>2, <2>3
<1>9. Tail(c) = b
  <2>1. /\ Tail(c) \in Seq(S) /\ Len(Tail(c)) = Len(c) - 1
        /\ \A i \in 1 .. Len(Tail(c)) : Tail(c)[i] = c[i + 1]
    BY <1>6, <1>8, HeadTailProperties
  <2>2. Len(Tail(c)) = n - k
    <3>1. Len(c) = n - k + 1 /\ Len(Tail(c)) = Len(c) - 1
      BY <1>6, <2>1
    <3> QED
      BY <1>1, <3>1
  <2>3. ASSUME NEW i \in 1 .. n - k
        PROVE  Tail(c)[i] = b[i]
    <3>1. i + 1 \in 1 .. n - k + 1 /\ k + (i + 1) - 1 = k + i
      BY <1>1
    <3>2. c[i + 1] = s[k + (i + 1) - 1]
      BY <1>6, <3>1
    <3> QED
      BY <1>5, <2>1, <2>2, <3>1, <3>2
  <2> QED
    BY <1>5, <2>1, <2>2, <2>3, SeqEqual
<1>10. Count(s, o) = Count(a, o) + Count(c, o)
  <2>1. Count(a \o c, o) = Count(a, o) + Count(c, o)
    BY ONLY <1>4, <1>6, CountConcat
  <2> QED
    BY <1>7, <2>1
<1>11. Count(c, o) = Count(b, o) + IF s[k] = o THEN 1 ELSE 0
  <2>1. Count(c, o) = Count(Tail(c), o) + IF Head(c) = o THEN 1 ELSE 0
    BY ONLY <1>6, <1>8, CountTail
  <2> QED
    BY <1>8, <1>9, <2>1
<1>12. a \o b \in Seq(S) /\ Count(a \o b, o) = Count(a, o) + Count(b, o)
    BY <1>4, <1>5, CountConcat
<1>13. Len(a \o b) = n - 1
  <2>1. Len(a \o b) = Len(a) + Len(b)
    BY ONLY <1>4, <1>5, ConcatProperties
  <2> QED
    BY <1>1, <1>4, <1>5, <2>1
<1>14. Count(a, o) \in Nat /\ Count(b, o) \in Nat /\ Count(c, o) \in Nat
    BY <1>4, <1>5, <1>6, EntriesFinite
<1>15. RemoveAt(s, k) = a \o b
    BY <1>1, <1>3 DEF RemoveAt
<1>16. Count(s, o) = Count(a \o b, o) + IF s[k] = o THEN 1 ELSE 0
    BY ONLY <1>10, <1>11, <1>12, <1>14
<1> QED
    BY ONLY <1>1, <1>12, <1>13, <1>15, <1>16

LEMMA CountRemoveFirst ==
    ASSUME NEW S, NEW s \in Seq(S), NEW c, Contains(s, c), NEW o
    PROVE  /\ RemoveFirst(s, c) \in Seq(S) /\ Len(RemoveFirst(s, c)) = Len(s) - 1
           /\ Count(s, o) = Count(RemoveFirst(s, c), o) + IF c = o THEN 1 ELSE 0
<1> DEFINE I == {i \in 1 .. Len(s) : s[i] = c}
           k == Min(I)
<1>1. I # {} /\ \E i \in 1 .. Len(s) : s[i] = c
    BY DEF Contains
<1>2. I \in SUBSET Nat
    OBVIOUS
<1> HIDE DEF I
<1>5. k \in I
    BY <1>1, <1>2, Least
<1> USE DEF I
<1>3. RemoveFirst(s, c) = RemoveAt(s, k)
    BY <1>1 DEF RemoveFirst, SelectInSeq
<1>4. k \in 1 .. Len(s) /\ s[k] = c
    BY <1>5
<1> HIDE DEF k
<1> QED
    BY <1>3, <1>4, CountRemoveAt

\* Where the lists of all objects name o.
Pairs(C, o) == {w \in All \X (1 .. MaxKids) : w[2] \in DOMAIN C[w[1]] /\ C[w[1]][w[2]] = o}

Lists == {C \in [All -> Seq(Objs)] : \A p \in All : Len(C[p]) <= MaxKids}

LEMMA PairsFinite ==
    ASSUME NEW C, NEW o
    PROVE  IsFiniteSet(Pairs(C, o)) /\ Cardinality(Pairs(C, o)) \in Nat
<1>1. IsFiniteSet(All)
    BY RefAssumption, FS_AddElement DEF All
<1>2. IsFiniteSet(1 .. MaxKids)
  <2>1. 1 \in Int /\ MaxKids \in Int
    BY RefAssumption
  <2> QED
    BY ONLY <2>1, FS_Interval
<1>3. IsFiniteSet(All \X (1 .. MaxKids))
    BY <1>1, <1>2, FS_Product
<1>4. Pairs(C, o) \subseteq All \X (1 .. MaxKids)
    BY DEF Pairs
<1>5. IsFiniteSet(Pairs(C, o))
    BY <1>3, <1>4, FS_Subset
<1> QED
    BY <1>5, FS_CardinalityType

\* The pairs of one list and those of the others.
LEMMA PairsOfOne ==
    ASSUME NEW C \in Lists, NEW p \in All, NEW o
    PROVE  LET R == {q \in Pairs(C, o) : q[1] # p}
           IN  /\ IsFiniteSet(R) /\ Cardinality(R) \in Nat
               /\ Cardinality(Pairs(C, o)) = Cardinality(R) + Count(C[p], o)
<1> DEFINE R == {q \in Pairs(C, o) : q[1] # p}
           P == {q \in Pairs(C, o) : q[1] = p}
<1>1. IsFiniteSet(Pairs(C, o))
    BY PairsFinite
<1>2. IsFiniteSet(R) /\ IsFiniteSet(P)
    BY <1>1, FS_Subset
<1>3. C[p] \in Seq(Objs) /\ Len(C[p]) <= MaxKids /\ Len(C[p]) \in Nat /\ DOMAIN C[p] = 1 .. Len(C[p])
    BY LenProperties DEF Lists
<1>4. IsFiniteSet(Entries(C[p], o)) /\ Count(C[p], o) \in Nat
    BY <1>3, EntriesFinite
<1>5. Cardinality(P) = Count(C[p], o)
  <2> DEFINE f == [k \in Entries(C[p], o) |-> <<p, k>>]
  <2>1. ASSUME NEW k \in Entries(C[p], o)
        PROVE  f[k] = <<p, k>> /\ <<p, k>> \in P
    <3>1. k \in 1 .. MaxKids /\ k \in DOMAIN C[p] /\ C[p][k] = o
      BY <1>3, RefAssumption DEF Entries
    <3>2. <<p, k>> \in Pairs(C, o)
      BY <3>1 DEF Pairs
    <3> QED
      BY <3>2
  <2>2. f \in [Entries(C[p], o) -> P]
    BY <2>1
  <2>3. \A a, b \in Entries(C[p], o) : f[a] = f[b] => a = b
    BY <2>1
  <2>4. ASSUME NEW y \in P
        PROVE  \E k \in Entries(C[p], o) : f[k] = y
    <3>1. PICK k \in 1 .. MaxKids : y = <<p, k>> /\ k \in DOMAIN C[p] /\ C[p][k] = o
      BY DEF Pairs
    <3>2. k \in Entries(C[p], o)
      BY <3>1 DEF Entries
    <3> QED
      BY <3>1, <3>2
  <2> QED
    BY <1>4, <2>2, <2>3, <2>4, Moved DEF Count
<1>6. Pairs(C, o) = R \cup P /\ R \cap P = {}
    OBVIOUS
<1>7. Cardinality(Pairs(C, o)) = Cardinality(R) + Cardinality(P) - Cardinality({})
    BY <1>2, <1>6, FS_Union
<1>8. Cardinality(R) \in Nat
    BY <1>2, FS_CardinalityType
<1> QED
    BY <1>2, <1>4, <1>5, <1>7, <1>8, FS_EmptySet

\* What another list of p changes in the pairs.
LEMMA PairsExcept ==
    ASSUME NEW C \in Lists, NEW p \in All, NEW s \in Seq(Objs), Len(s) <= MaxKids, NEW o
    PROVE  /\ [C EXCEPT ![p] = s] \in Lists
           /\ Cardinality(Pairs([C EXCEPT ![p] = s], o)) + Count(C[p], o)
                = Cardinality(Pairs(C, o)) + Count(s, o)
<1>1. PICK D : D = [C EXCEPT ![p] = s]
    OBVIOUS
<1>2. /\ C \in [All -> Seq(Objs)] /\ D[p] = s
      /\ \A q \in All : q # p => D[q] = C[q]
    BY <1>1 DEF Lists
<1>3. D \in Lists
    BY <1>1, <1>2 DEF Lists
<1> DEFINE R == {q \in Pairs(C, o) : q[1] # p}
           Q == {q \in Pairs(D, o) : q[1] # p}
<1>4. R = Q
    BY <1>2 DEF Pairs
<1>5. Cardinality(R) \in Nat /\ Cardinality(Pairs(C, o)) = Cardinality(R) + Count(C[p], o)
    BY PairsOfOne
<1>6. Cardinality(Q) \in Nat /\ Cardinality(Pairs(D, o)) = Cardinality(Q) + Count(D[p], o)
    BY <1>3, PairsOfOne
<1>7. Count(C[p], o) \in Nat /\ Count(s, o) \in Nat
    BY <1>2, EntriesFinite
<1> HIDE DEF R, Q
<1> QED
    BY <1>1, <1>2, <1>3, <1>4, <1>5, <1>6, <1>7

LEMMA PairsPositive ==
    ASSUME NEW C \in Lists, NEW p \in All, NEW o, NEW k \in 1 .. Len(C[p]), C[p][k] = o
    PROVE  Cardinality(Pairs(C, o)) > 0
<1>1. C[p] \in Seq(Objs)
    BY DEF Lists
<1>2. Count(C[p], o) > 0
    BY <1>1, CountPositive
<1>3. Count(C[p], o) \in Nat
    BY <1>1, EntriesFinite
<1>4. PICK n \in Nat : Cardinality(Pairs(C, o)) = n + Count(C[p], o)
    BY PairsOfOne
<1> QED
    BY <1>2, <1>3, <1>4

---------------------------------------------------------------------------------
(* The counts, the tree and the walk.                                        *)

UpdateCall == [obj : All, i : Nat, cnt : Nat]

RefTypes ==
    /\ r_refs \in [All -> Nat] /\ r_holds \in [All -> Nat] /\ r_children \in Lists
    /\ r_parent \in [All -> All \cup {NULL}] /\ r_pool \in Seq(Objs) /\ r_work \in Seq(Objs)
    /\ r_walk \in Seq(UpdateCall) /\ r_bad \in BOOLEAN /\ r_taken \in BOOLEAN

\* R are the counts, H the users' references, C the lists of children, P the pool, K the work.
Balance(R, H, C, P, K) ==
    \A o \in All : R[o] = H[o] + Cardinality(Pairs(C, o)) + Count(P, o) + Count(K, o)

RootKept == r_holds[Root] > 0

\* Nothing is left of a deleted object.
Emptied == \A o \in All : r_refs[o] = 0 => r_children[o] = <<>>

Parents(R, C, M) ==
    \A o \in All : R[o] > 0 /\ M[o] # NULL => R[M[o]] > 0 /\ Contains(C[M[o]], o)

Walks(w, R, C) == R[w.obj] > 0 /\ w.i <= w.cnt /\ w.cnt <= Len(C[w.obj])

\* As long as nothing is taken, every update under way is one of a living object, inside its list.
WalkInside == ~ r_taken => ~ r_bad /\ \A k \in 1 .. Len(r_walk) : Walks(r_walk[k], r_refs, r_children)

RefInv ==
    /\ RefTypes /\ Balance(r_refs, r_holds, r_children, r_pool, r_work)
    /\ RootKept /\ Emptied /\ Parents(r_refs, r_children, r_parent) /\ WalkInside

LEMMA RefTyped ==
    ASSUME RefTypes
    PROVE  /\ \A o \in All : /\ r_refs[o] \in Nat /\ r_holds[o] \in Nat
                             /\ r_children[o] \in Seq(Objs) /\ Len(r_children[o]) \in Nat
                             /\ Len(r_children[o]) <= MaxKids
                             /\ DOMAIN r_children[o] = 1 .. Len(r_children[o])
                             /\ Cardinality(Pairs(r_children, o)) \in Nat
                             /\ Count(r_children[o], o) \in Nat
                             /\ Count(r_pool, o) \in Nat /\ Count(r_work, o) \in Nat
           /\ Len(r_walk) \in Nat /\ DOMAIN r_walk = 1 .. Len(r_walk)
           /\ \A k \in 1 .. Len(r_walk) : r_walk[k] \in UpdateCall /\ r_walk[k].obj \in All
           /\ Objs \subseteq All /\ Root \in All /\ Root \notin Objs
<1>1. ASSUME NEW o \in All
      PROVE  /\ r_refs[o] \in Nat /\ r_holds[o] \in Nat
             /\ r_children[o] \in Seq(Objs) /\ Len(r_children[o]) <= MaxKids
    BY DEF RefTypes, Lists
<1>2. ASSUME NEW o \in All
      PROVE  Len(r_children[o]) \in Nat /\ DOMAIN r_children[o] = 1 .. Len(r_children[o])
    BY <1>1, LenProperties
<1>3. ASSUME NEW o \in All
      PROVE  /\ Cardinality(Pairs(r_children, o)) \in Nat /\ Count(r_children[o], o) \in Nat
             /\ Count(r_pool, o) \in Nat /\ Count(r_work, o) \in Nat
    BY <1>1, PairsFinite, EntriesFinite DEF RefTypes
<1>4. Len(r_walk) \in Nat /\ DOMAIN r_walk = 1 .. Len(r_walk)
    BY LenProperties DEF RefTypes
<1>5. \A k \in 1 .. Len(r_walk) : r_walk[k] \in UpdateCall
    BY ElementOfSeq DEF RefTypes
<1>6. \A k \in 1 .. Len(r_walk) : r_walk[k].obj \in All
    BY <1>5 DEF UpdateCall
<1> QED
    BY <1>1, <1>2, <1>3, <1>4, <1>5, <1>6, RefAssumption DEF All

LEMMA PairsEmpty ==
    ASSUME NEW C, \A p \in All : C[p] = <<>>, NEW o
    PROVE  Cardinality(Pairs(C, o)) = 0
<1>1. Pairs(C, o) = {}
    BY DEF Pairs
<1> QED
    BY <1>1, FS_EmptySet

LEMMA RefStarts == RefInit => RefInv
<1> SUFFICES ASSUME RefInit
             PROVE  RefInv
    OBVIOUS
<1>1. <<>> \in Seq(Objs) /\ <<>> \in Seq(UpdateCall) /\ Len(<<>>) = 0
    BY EmptySeq
<1>2. Objs \subseteq All /\ Root \in All /\ Root \notin Objs /\ MaxKids \in Nat
    BY RefAssumption DEF All
<1>3. r_children \in Lists
    BY <1>1, <1>2 DEF RefInit, Lists
<1>4. RefTypes
    BY <1>1, <1>3 DEF RefInit, RefTypes
<1>5. ASSUME NEW o \in All
      PROVE  r_refs[o] = r_holds[o] + Cardinality(Pairs(r_children, o)) + Count(r_pool, o) + Count(r_work, o)
  <2>1. Cardinality(Pairs(r_children, o)) = 0
    BY PairsEmpty DEF RefInit
  <2>2. Count(r_pool, o) = 0 /\ Count(r_work, o) = 0
    BY CountEmpty DEF RefInit
  <2>3. r_refs[o] = r_holds[o] /\ r_holds[o] \in Nat
    BY DEF RefInit
  <2> QED
    BY <2>1, <2>2, <2>3
<1>6. Balance(r_refs, r_holds, r_children, r_pool, r_work)
    BY <1>5 DEF Balance
<1>7. RootKept /\ Emptied /\ Parents(r_refs, r_children, r_parent)
    BY <1>2 DEF RefInit, RootKept, Emptied, Parents
<1>8. WalkInside
    BY <1>1 DEF RefInit, WalkInside
<1> QED
    BY <1>4, <1>6, <1>7, <1>8 DEF RefInv

\* What is named is alive.
LEMMA NamedLives ==
    ASSUME RefInv
    PROVE  /\ r_refs[Root] > 0
           /\ \A p \in All : \A k \in 1 .. Len(r_children[p]) : r_refs[r_children[p][k]] > 0
           /\ \A p \in All, c \in Objs : Contains(r_children[p], c) => r_refs[c] > 0
           /\ r_work # <<>> => Head(r_work) \in Objs /\ r_refs[Head(r_work)] > 0
<1>0. RefTypes /\ Balance(r_refs, r_holds, r_children, r_pool, r_work) /\ RootKept
    BY DEF RefInv
<1>1. \A o \in All : /\ r_refs[o] \in Nat /\ r_holds[o] \in Nat
                     /\ Cardinality(Pairs(r_children, o)) \in Nat
                     /\ Count(r_pool, o) \in Nat /\ Count(r_work, o) \in Nat
                     /\ r_refs[o] = r_holds[o] + Cardinality(Pairs(r_children, o)) + Count(r_pool, o) + Count(r_work, o)
    BY <1>0, RefTyped DEF Balance
<1>2. Root \in All /\ Objs \subseteq All
    BY DEF All
<1>3. r_refs[Root] > 0
    BY <1>0, <1>1, <1>2 DEF RootKept
<1>4. ASSUME NEW p \in All, NEW k \in 1 .. Len(r_children[p])
      PROVE  r_refs[r_children[p][k]] > 0
  <2>1. r_children \in Lists /\ r_children[p] \in Seq(Objs)
    BY <1>0, RefTyped DEF RefTypes
  <2>2. r_children[p][k] \in All
    BY <2>1, <1>2, ElementOfSeq
  <2>3. Cardinality(Pairs(r_children, r_children[p][k])) > 0
    BY <2>1, PairsPositive
  <2>4. PICK o \in All : o = r_children[p][k]
    BY <2>2
  <2>5. Cardinality(Pairs(r_children, o)) > 0
    BY <2>3, <2>4
  <2>6. r_refs[o] > 0
    BY ONLY <1>1, <2>5, o \in All
  <2> QED
    BY <2>4, <2>6
<1>5. \A p \in All, c \in Objs : Contains(r_children[p], c) => r_refs[c] > 0
    BY <1>4 DEF Contains
<1>6. ASSUME r_work # <<>>
      PROVE  Head(r_work) \in Objs /\ r_refs[Head(r_work)] > 0
  <2>1. r_work \in Seq(Objs)
    BY <1>0 DEF RefTypes
  <2>2. Head(r_work) \in Objs /\ Head(r_work) = r_work[1] /\ 1 \in 1 .. Len(r_work)
    BY <1>6, <2>1, HeadTailProperties, EmptySeq
  <2>3. Count(r_work, Head(r_work)) > 0
    BY <2>1, <2>2, CountPositive
  <2> QED
    BY <1>1, <1>2, <2>2, <2>3
<1> QED
    BY <1>3, <1>4, <1>5, <1>6

\* Users' calls.
LEMMA CreateStep ==
    ASSUME RefInv, NEW o \in Objs, NEW inpool \in BOOLEAN, refCreate(o, inpool)
    PROVE  RefInv'
<1>0. /\ RefTypes /\ Balance(r_refs, r_holds, r_children, r_pool, r_work) /\ RootKept /\ Emptied
      /\ Parents(r_refs, r_children, r_parent) /\ WalkInside
    BY DEF RefInv
<1>1. /\ r_refs[o] = 0 /\ r_refs' = [r_refs EXCEPT ![o] = 1]
      /\ r_parent' = [r_parent EXCEPT ![o] = NULL]
      /\ r_children' = r_children /\ r_work' = r_work /\ r_walk' = r_walk
      /\ r_bad' = r_bad /\ r_taken' = r_taken
    BY DEF refCreate
<1>2. o \in All /\ o # Root
    BY RefAssumption DEF All
<1>3. \/ r_pool' = Append(r_pool, o) /\ r_holds' = r_holds
      \/ r_holds' = [r_holds EXCEPT ![o] = 1] /\ r_pool' = r_pool
    BY DEF refCreate
<1>4. r_pool' \in Seq(Objs)
  <2>1. r_pool \in Seq(Objs)
    BY <1>0 DEF RefTypes
  <2>2. Append(r_pool, o) \in Seq(Objs)
    BY <2>1, AppendProperties
  <2> QED
    BY <1>3, <2>1, <2>2
<1>5. RefTypes'
  <2>1. r_holds' \in [All -> Nat]
    <3>1. r_holds \in [All -> Nat] /\ [r_holds EXCEPT ![o] = 1] \in [All -> Nat]
      BY <1>0, <1>2 DEF RefTypes
    <3> QED
      BY <1>3, <3>1
  <2>2. r_refs' \in [All -> Nat] /\ r_parent' \in [All -> All \cup {NULL}]
    BY <1>0, <1>1, <1>2 DEF RefTypes
  <2> QED
    BY <1>0, <1>1, <1>4, <2>1, <2>2 DEF RefTypes
<1>6. \A x \in All : /\ r_refs[x] = r_holds[x] + Cardinality(Pairs(r_children, x)) + Count(r_pool, x) + Count(r_work, x)
                     /\ r_holds[x] \in Nat /\ Cardinality(Pairs(r_children, x)) \in Nat
                     /\ Count(r_pool, x) \in Nat /\ Count(r_work, x) \in Nat
    BY <1>0, RefTyped DEF Balance
<1>7. ASSUME NEW x \in All
      PROVE  r_refs'[x] = r_holds'[x] + Cardinality(Pairs(r_children', x)) + Count(r_pool', x) + Count(r_work', x)
  <2>1. r_refs'[x] = IF x = o THEN 1 ELSE r_refs[x]
    BY <1>0, <1>1 DEF RefTypes
  <2>2. CASE r_pool' = Append(r_pool, o) /\ r_holds' = r_holds
    <3>1. Count(r_pool', x) = Count(r_pool, x) + IF o = x THEN 1 ELSE 0
      BY <1>0, <2>2, CountAppend DEF RefTypes
    <3> QED
      BY <1>1, <1>6, <2>1, <2>2, <3>1
  <2>3. CASE r_holds' = [r_holds EXCEPT ![o] = 1] /\ r_pool' = r_pool
    <3>1. r_holds'[x] = IF x = o THEN 1 ELSE r_holds[x]
      BY <1>0, <2>3 DEF RefTypes
    <3>2. CASE x = o
      <4>1. Cardinality(Pairs(r_children, x)) = 0 /\ Count(r_pool, x) = 0 /\ Count(r_work, x) = 0
        <5>1. \A a, b, c, d \in Nat : 0 = a + b + c + d => b = 0 /\ c = 0 /\ d = 0
          OBVIOUS
        <5>2. 0 = r_holds[x] + Cardinality(Pairs(r_children, x)) + Count(r_pool, x) + Count(r_work, x)
          BY <1>1, <1>6, <3>2
        <5> QED
          BY <1>6, <5>1, <5>2
      <4>2. r_refs'[x] = 1 /\ r_holds'[x] = 1
        BY <2>1, <3>1, <3>2
      <4> QED
        BY <1>1, <2>3, <4>1, <4>2
    <3>3. CASE x # o
      BY <1>1, <1>6, <2>1, <2>3, <3>1, <3>3
    <3> QED
      BY <3>2, <3>3
  <2> QED
    BY <1>3, <2>2, <2>3
<1>8. RootKept'
  <2>1. Root \in All
    BY DEF All
  <2>2. r_holds'[Root] = r_holds[Root]
    BY <1>0, <1>2, <1>3, <2>1 DEF RefTypes
  <2> QED
    BY <1>0, <2>2 DEF RootKept
<1>9. Emptied'
    BY <1>0, <1>1, <1>2 DEF Emptied, RefTypes
<1>10. ASSUME NEW x \in All
       PROVE  /\ r_refs'[x] = IF x = o THEN 1 ELSE r_refs[x]
              /\ r_parent'[x] = IF x = o THEN NULL ELSE r_parent[x]
              /\ r_parent[x] # NULL => r_parent[x] \in All
    BY <1>0, <1>1 DEF RefTypes
<1>11. Parents(r_refs', r_children', r_parent')
    BY <1>0, <1>1, <1>2, <1>10 DEF Parents
<1>12. WalkInside'
  <2>1. SUFFICES ASSUME ~ r_taken
                 PROVE  ~ r_bad /\ \A k \in 1 .. Len(r_walk) : Walks(r_walk[k], r_refs', r_children)
    BY <1>1 DEF WalkInside
  <2>2. ~ r_bad /\ \A k \in 1 .. Len(r_walk) : Walks(r_walk[k], r_refs, r_children)
    BY <1>0, <2>1 DEF WalkInside
  <2>3. \A k \in 1 .. Len(r_walk) : r_walk[k].obj \in All
    BY <1>0, RefTyped
  <2> QED
    BY <1>10, <2>2, <2>3 DEF Walks
<1> QED
    BY <1>5, <1>7, <1>8, <1>9, <1>11, <1>12 DEF RefInv, Balance

\* The lists, the parents and the walk stay as they are, and no count comes to 0.
LEMMA NoneDies ==
    ASSUME RefInv, r_children' = r_children, r_parent' = r_parent,
           r_walk' = r_walk, r_bad' = r_bad, r_taken' = r_taken,
           \A x \in All : r_refs'[x] = 0 <=> r_refs[x] = 0, r_refs' \in [All -> Nat]
    PROVE  Emptied' /\ Parents(r_refs', r_children', r_parent') /\ WalkInside'
<1>0. /\ RefTypes /\ Emptied /\ Parents(r_refs, r_children, r_parent) /\ WalkInside
    BY DEF RefInv
<1>1. \A x \in All : r_refs'[x] > 0 <=> r_refs[x] > 0
    BY <1>0 DEF RefTypes
<1>2. Emptied'
    BY <1>0 DEF Emptied
<1>3. \A x \in All : r_parent[x] # NULL => r_parent[x] \in All
    BY <1>0 DEF RefTypes
<1>4. Parents(r_refs', r_children', r_parent')
    BY <1>0, <1>1, <1>3 DEF Parents
<1>5. \A k \in 1 .. Len(r_walk) : r_walk[k].obj \in All
    BY <1>0, RefTyped
<1>6. WalkInside'
    BY <1>0, <1>1, <1>5 DEF WalkInside, Walks
<1> QED
    BY <1>2, <1>4, <1>6

LEMMA RetainStep ==
    ASSUME RefInv, NEW o \in Objs, refRetain(o)
    PROVE  RefInv'
<1>0. /\ RefTypes /\ Balance(r_refs, r_holds, r_children, r_pool, r_work) /\ RootKept
    BY DEF RefInv
<1>1. /\ r_refs[o] > 0 /\ r_refs' = [r_refs EXCEPT ![o] = @ + 1] /\ r_holds' = [r_holds EXCEPT ![o] = @ + 1]
      /\ r_parent' = r_parent /\ r_pool' = r_pool
      /\ r_children' = r_children /\ r_work' = r_work /\ r_walk' = r_walk
      /\ r_bad' = r_bad /\ r_taken' = r_taken
    BY DEF refRetain, alive
<1>2. o \in All /\ o # Root
    BY RefAssumption DEF All
<1>3. RefTypes'
    BY <1>0, <1>1, <1>2 DEF RefTypes
<1>4. ASSUME NEW x \in All
      PROVE  /\ r_refs'[x] = r_refs[x] + IF x = o THEN 1 ELSE 0
             /\ r_holds'[x] = r_holds[x] + IF x = o THEN 1 ELSE 0
             /\ r_refs[x] \in Nat /\ r_holds[x] \in Nat
    BY <1>0, <1>1 DEF RefTypes
<1>5. \A x \in All : /\ r_refs[x] = r_holds[x] + Cardinality(Pairs(r_children, x)) + Count(r_pool, x) + Count(r_work, x)
                     /\ Cardinality(Pairs(r_children, x)) \in Nat
                     /\ Count(r_pool, x) \in Nat /\ Count(r_work, x) \in Nat
    BY <1>0, RefTyped DEF Balance
<1>6. ASSUME NEW x \in All
      PROVE  r_refs'[x] = r_holds'[x] + Cardinality(Pairs(r_children', x)) + Count(r_pool', x) + Count(r_work', x)
    BY <1>1, <1>4, <1>5
<1>7. RootKept'
    BY <1>0, <1>2, <1>1 DEF RootKept, RefTypes
<1>8. Emptied' /\ Parents(r_refs', r_children', r_parent') /\ WalkInside'
  <2>1. \A x \in All : r_refs'[x] = 0 <=> r_refs[x] = 0
    BY <1>1, <1>4
  <2> QED
    BY <1>1, <1>3, <2>1, NoneDies DEF RefTypes
<1> QED
    BY <1>3, <1>6, <1>7, <1>8 DEF RefInv, Balance

LEMMA CountOne ==
    ASSUME NEW o \in Objs
    PROVE  <<o>> \in Seq(Objs) /\ \A x : Count(<<o>>, x) = IF o = x THEN 1 ELSE 0
<1>1. <<o>> \in Seq(Objs)
    OBVIOUS
<1>2. ASSUME NEW x
      PROVE  Count(<<o>>, x) = IF o = x THEN 1 ELSE 0
    BY CountSingle
<1> QED
    BY <1>1, <1>2

LEMMA ReleaseCallStep ==
    ASSUME RefInv, NEW o \in Objs, refRelease(o)
    PROVE  RefInv'
<1>0. /\ RefTypes /\ Balance(r_refs, r_holds, r_children, r_pool, r_work) /\ RootKept
    BY DEF RefInv
<1>1. /\ r_holds[o] > 0 /\ r_work = <<>> /\ r_work' = <<o>> /\ r_holds' = [r_holds EXCEPT ![o] = @ - 1]
      /\ r_refs' = r_refs /\ r_parent' = r_parent /\ r_pool' = r_pool
      /\ r_children' = r_children /\ r_walk' = r_walk
      /\ r_bad' = r_bad /\ r_taken' = r_taken
    BY DEF refRelease, alive, tree
<1>2. o \in All /\ o # Root
    BY RefAssumption DEF All
<1>3. \A x \in All : /\ r_holds'[x] = r_holds[x] - IF x = o THEN 1 ELSE 0
                     /\ r_holds[x] \in Nat
    BY <1>0, <1>1 DEF RefTypes
<1>4. r_work' \in Seq(Objs) /\ \A x : Count(r_work', x) = IF o = x THEN 1 ELSE 0
    BY <1>1, CountOne
<1>5. RefTypes'
  <2>1. r_holds' \in [All -> Nat]
    BY <1>0, <1>1, <1>2, <1>3 DEF RefTypes
  <2> QED
    BY <1>0, <1>1, <1>4, <2>1 DEF RefTypes
<1>6. \A x \in All : /\ r_refs[x] = r_holds[x] + Cardinality(Pairs(r_children, x)) + Count(r_pool, x) + Count(r_work, x)
                     /\ Cardinality(Pairs(r_children, x)) \in Nat
                     /\ Count(r_pool, x) \in Nat /\ Count(r_work, x) = 0
    BY <1>0, <1>1, RefTyped, CountEmpty DEF Balance
<1>7. ASSUME NEW x \in All
      PROVE  r_refs'[x] = r_holds'[x] + Cardinality(Pairs(r_children', x)) + Count(r_pool', x) + Count(r_work', x)
    BY <1>1, <1>3, <1>4, <1>6
<1>8. RootKept'
    BY <1>0, <1>2, <1>3 DEF RootKept, All
<1>9. Emptied' /\ Parents(r_refs', r_children', r_parent') /\ WalkInside'
    BY <1>0, <1>1, NoneDies DEF RefTypes
<1> QED
    BY <1>5, <1>7, <1>8, <1>9 DEF RefInv, Balance

LEMMA AddChildStep ==
    ASSUME RefInv, NEW p \in All, NEW c \in Objs, addChild(p, c)
    PROVE  RefInv'
<1>0. /\ RefTypes /\ Balance(r_refs, r_holds, r_children, r_pool, r_work) /\ RootKept /\ Emptied
      /\ Parents(r_refs, r_children, r_parent) /\ WalkInside
    BY DEF RefInv
<1>1. PICK s : s = Append(r_children[p], c)
    OBVIOUS
<1>2. /\ r_refs[p] > 0 /\ r_refs[c] > 0 /\ Len(r_children[p]) < MaxKids
      /\ r_refs' = [r_refs EXCEPT ![c] = @ + 1]
      /\ r_parent' = [r_parent EXCEPT ![c] = p]
      /\ r_children' = [r_children EXCEPT ![p] = s]
      /\ r_holds' = r_holds /\ r_pool' = r_pool /\ r_work' = r_work /\ r_walk' = r_walk
      /\ r_bad' = r_bad /\ r_taken' = r_taken
    BY <1>1 DEF addChild, alive
<1>3. c \in All /\ MaxKids \in Nat
    BY RefAssumption DEF All
<1>4. r_children \in Lists /\ r_children[p] \in Seq(Objs) /\ Len(r_children[p]) \in Nat
    BY <1>0, RefTyped DEF RefTypes
<1>5. /\ s \in Seq(Objs) /\ Len(s) = Len(r_children[p]) + 1
      /\ \A x : Count(s, x) = Count(r_children[p], x) + IF c = x THEN 1 ELSE 0
    BY <1>1, <1>4, CountAppend
<1>6. Len(s) <= MaxKids
    BY <1>2, <1>3, <1>4, <1>5
<1>7. /\ r_children' \in Lists
      /\ \A x : Cardinality(Pairs(r_children', x)) + Count(r_children[p], x)
                  = Cardinality(Pairs(r_children, x)) + Count(s, x)
    BY <1>2, <1>4, <1>5, <1>6, PairsExcept
<1>8. RefTypes'
    BY <1>0, <1>2, <1>3, <1>7 DEF RefTypes
<1>9. ASSUME NEW x \in All
      PROVE  /\ r_refs'[x] = r_refs[x] + IF x = c THEN 1 ELSE 0
             /\ r_parent'[x] = IF x = c THEN p ELSE r_parent[x]
             /\ r_children'[x] = IF x = p THEN s ELSE r_children[x]
             /\ r_refs[x] \in Nat /\ (r_parent[x] # NULL => r_parent[x] \in All)
    BY <1>0, <1>2 DEF RefTypes, Lists
<1>10. ASSUME NEW x \in All
       PROVE  r_refs'[x] = r_holds'[x] + Cardinality(Pairs(r_children', x)) + Count(r_pool', x) + Count(r_work', x)
  <2>1. /\ r_refs[x] = r_holds[x] + Cardinality(Pairs(r_children, x)) + Count(r_pool, x) + Count(r_work, x)
        /\ r_holds[x] \in Nat /\ Cardinality(Pairs(r_children, x)) \in Nat
        /\ Count(r_pool, x) \in Nat /\ Count(r_work, x) \in Nat
    BY <1>0, RefTyped DEF Balance
  <2>2. Count(r_children[p], x) \in Nat /\ Cardinality(Pairs(r_children', x)) \in Nat
    BY <1>4, EntriesFinite, PairsFinite
  <2>3. Cardinality(Pairs(r_children', x)) = Cardinality(Pairs(r_children, x)) + IF c = x THEN 1 ELSE 0
    BY <1>5, <1>7, <2>1, <2>2
  <2>4. /\ Count(r_pool', x) = Count(r_pool, x) /\ Count(r_work', x) = Count(r_work, x)
        /\ r_holds'[x] = r_holds[x]
    BY <1>2
  <2>5. r_refs'[x] = r_refs[x] + IF c = x THEN 1 ELSE 0
    BY <1>9
  <2> QED
    BY ONLY <2>1, <2>3, <2>4, <2>5
<1>11. RootKept'
    BY <1>0, <1>2 DEF RootKept
<1>12. Emptied'
    BY <1>0, <1>2, <1>9 DEF Emptied
<1>13. Contains(s, c) /\ \A x : Contains(r_children[p], x) => Contains(s, x)
  <2>1. Count(r_children[p], c) \in Nat
    BY <1>4, EntriesFinite
  <2>2. Count(s, c) > 0
    BY <1>5, <2>1
  <2>3. ASSUME NEW x, Contains(r_children[p], x)
        PROVE  Contains(s, x)
    <3>1. Count(r_children[p], x) \in Nat /\ Count(r_children[p], x) > 0
      BY <1>4, <2>3, EntriesFinite, CountPositive
    <3>2. Count(s, x) > 0
      BY <1>5, <3>1
    <3> QED
      BY <1>5, <3>2, CountPositive
  <2> QED
    BY <1>5, <2>2, <2>3, CountPositive
<1>14. ASSUME NEW x \in All, r_refs'[x] > 0, r_parent'[x] # NULL
       PROVE  r_refs'[r_parent'[x]] > 0 /\ Contains(r_children'[r_parent'[x]], x)
  <2>1. CASE x = c
    BY <1>2, <1>9, <1>13, <2>1
  <2>2. CASE x # c
    <3>1. r_parent'[x] = r_parent[x] /\ r_refs[x] > 0 /\ r_parent[x] \in All
      BY <1>9, <1>14, <2>2
    <3>2. r_refs[r_parent[x]] > 0 /\ Contains(r_children[r_parent[x]], x)
      BY <1>0, <1>14, <3>1 DEF Parents
    <3>3. r_refs'[r_parent[x]] > 0
      BY <1>9, <3>1, <3>2
    <3> QED
      BY <1>9, <1>13, <3>1, <3>2, <3>3
  <2> QED
    BY <2>1, <2>2
<1>15. WalkInside'
  <2>1. SUFFICES ASSUME ~ r_taken
                 PROVE  ~ r_bad /\ \A k \in 1 .. Len(r_walk) : Walks(r_walk[k], r_refs', r_children')
    BY <1>2 DEF WalkInside
  <2>2. ~ r_bad /\ \A k \in 1 .. Len(r_walk) : Walks(r_walk[k], r_refs, r_children)
    BY <1>0, <2>1 DEF WalkInside
  <2>3. ASSUME NEW k \in 1 .. Len(r_walk)
        PROVE  Walks(r_walk[k], r_refs', r_children')
    <3>1. r_walk[k] \in UpdateCall /\ r_walk[k].obj \in All
      BY <1>0, RefTyped
    <3>2. r_walk[k].cnt \in Nat
      BY <3>1 DEF UpdateCall
    <3>5. PICK q \in All : q = r_walk[k].obj
      BY <3>1
    <3>6. Len(r_children[q]) \in Nat /\ Len(s) = Len(r_children[p]) + 1
      BY <1>0, <1>5, RefTyped
    <3>7. (r_children'[q] = s /\ q = p) \/ r_children'[q] = r_children[q]
      BY <1>9
    <3>3. Len(r_children[r_walk[k].obj]) \in Nat /\ Len(r_children'[r_walk[k].obj]) >= Len(r_children[r_walk[k].obj])
      BY <3>5, <3>6, <3>7
    <3>4. Len(r_children'[r_walk[k].obj]) \in Nat
      BY <3>5, <3>6, <3>7
    <3> QED
      BY <1>9, <2>2, <3>1, <3>2, <3>3, <3>4 DEF Walks
  <2> QED
    BY <2>2, <2>3
<1> QED
    BY <1>8, <1>10, <1>11, <1>12, <1>14, <1>15 DEF RefInv, Balance, Parents

\* The list of p loses entries: whoever is left in it keeps its parent, and those who are not
\* have none.
LEMMA ListShrinks ==
    ASSUME RefInv, NEW p \in All, NEW s \in Seq(Objs), Len(s) <= MaxKids, s = <<>> \/ r_refs[p] > 0,
           r_children' = [r_children EXCEPT ![p] = s],
           r_parent' \in [All -> All \cup {NULL}],
           \A x \in All : r_parent'[x] \in {r_parent[x], NULL},
           \A x \in All : r_refs[x] > 0 /\ r_parent'[x] = p => Contains(s, x),
           r_refs' = r_refs \/ (r_refs' = [r_refs EXCEPT ![p] = 0] /\ s = <<>>),
           r_walk' = r_walk, r_bad' = r_bad, r_taken' = (r_taken \/ p \in Walked)
    PROVE  Emptied' /\ Parents(r_refs', r_children', r_parent') /\ WalkInside'
<1>0. /\ RefTypes /\ Emptied /\ Parents(r_refs, r_children, r_parent) /\ WalkInside
    BY DEF RefInv
<1>1. ASSUME NEW x \in All
      PROVE  /\ r_children'[x] = IF x = p THEN s ELSE r_children[x]
             /\ r_refs'[x] = r_refs[x] \/ (x = p /\ r_refs'[x] = 0 /\ s = <<>>)
             /\ r_refs[x] \in Nat /\ (r_parent[x] # NULL => r_parent[x] \in All)
    BY <1>0 DEF RefTypes, Lists
<1>2. ASSUME NEW x \in All, r_refs'[x] = 0
      PROVE  r_children'[x] = <<>>
  <2>1. CASE x = p
    <3>1. s = <<>>
      BY <1>1, <1>2, <2>1
    <3> QED
      BY <1>1, <2>1, <3>1
  <2>2. CASE x # p
    <3>1. r_refs[x] = 0
      BY <1>1, <1>2, <2>2
    <3> QED
      BY <1>0, <1>1, <2>2, <3>1 DEF Emptied
  <2> QED
    BY <2>1, <2>2
<1>3. ASSUME NEW x \in All, r_refs'[x] > 0, r_parent'[x] # NULL
      PROVE  r_refs'[r_parent'[x]] > 0 /\ Contains(r_children'[r_parent'[x]], x)
  <2>1. r_parent'[x] = r_parent[x] /\ r_parent[x] # NULL /\ r_parent[x] \in All
    BY <1>1, <1>3
  <2>2. r_refs[x] > 0
    BY <1>1, <1>3
  <2>3. r_refs[r_parent[x]] > 0 /\ Contains(r_children[r_parent[x]], x)
    BY <1>0, <2>1, <2>2 DEF Parents
  <2>4. CASE r_parent[x] = p
    <3>1. Contains(s, x)
      BY <2>1, <2>2, <2>4
    <3>2. s # <<>>
      BY <3>1 DEF Contains
    <3>3. r_refs'[p] = r_refs[p]
      BY <1>1, <3>2
    <3> QED
      BY <1>1, <2>1, <2>3, <2>4, <3>1, <3>3
  <2>5. CASE r_parent[x] # p
    BY <1>1, <2>1, <2>3, <2>5
  <2> QED
    BY <2>4, <2>5
<1>4. WalkInside'
  <2>1. SUFFICES ASSUME ~ r_taken, p \notin Walked
                 PROVE  ~ r_bad /\ \A k \in 1 .. Len(r_walk) : Walks(r_walk[k], r_refs', r_children')
    BY DEF WalkInside
  <2>2. ~ r_bad /\ \A k \in 1 .. Len(r_walk) : Walks(r_walk[k], r_refs, r_children)
    BY <1>0, <2>1 DEF WalkInside
  <2>3. ASSUME NEW k \in 1 .. Len(r_walk)
        PROVE  Walks(r_walk[k], r_refs', r_children')
    <3>1. PICK q \in All : q = r_walk[k].obj
      BY <1>0, RefTyped
    <3>2. k \in DOMAIN r_walk
      BY <1>0, RefTyped
    <3>3. q # p
      BY <2>1, <3>1, <3>2 DEF Walked
    <3>4. r_refs'[q] = r_refs[q] /\ r_children'[q] = r_children[q]
      BY <1>1, <3>3
    <3>5. Walks(r_walk[k], r_refs, r_children)
      BY <2>2
    <3> QED
      BY <3>1, <3>4, <3>5 DEF Walks
  <2> QED
    BY <2>2, <2>3
<1> QED
    BY <1>2, <1>3, <1>4 DEF Emptied, Parents

LEMMA Orphans ==
    ASSUME RefTypes, NEW p \in All, r_parent' = orphan(p)
    PROVE  /\ r_parent' \in [All -> All \cup {NULL}]
           /\ \A x \in All : r_parent'[x] \in {r_parent[x], NULL}
           /\ \A x \in All : Contains(r_children[p], x) => r_parent'[x] = NULL
<1>1. ASSUME NEW x \in All
      PROVE  r_parent'[x] = IF Contains(r_children[p], x) THEN NULL ELSE r_parent[x]
    BY DEF orphan
<1>2. r_parent \in [All -> All \cup {NULL}]
    BY DEF RefTypes
<1>3. r_parent' \in [All -> All \cup {NULL}]
    BY <1>2 DEF orphan
<1> QED
    BY <1>1, <1>3

LEMMA DelChildStep ==
    ASSUME RefInv, NEW p \in All, NEW c \in Objs, delChild(p, c)
    PROVE  RefInv'
<1>0. /\ RefTypes /\ Balance(r_refs, r_holds, r_children, r_pool, r_work) /\ RootKept
    BY DEF RefInv
<1>1. PICK s : s = RemoveFirst(r_children[p], c)
    OBVIOUS
<1>2. /\ r_refs[p] > 0 /\ Contains(r_children[p], c) /\ r_work = <<>> /\ r_work' = <<c>>
      /\ r_parent' = [r_parent EXCEPT ![c] = NULL]
      /\ r_children' = [r_children EXCEPT ![p] = s]
      /\ r_taken' = (r_taken \/ p \in Walked)
      /\ r_refs' = r_refs /\ r_holds' = r_holds /\ r_pool' = r_pool /\ r_walk' = r_walk /\ r_bad' = r_bad
    BY <1>1 DEF delChild, alive, without
<1>3. c \in All
    BY DEF All
<1>4. r_children \in Lists /\ r_children[p] \in Seq(Objs) /\ Len(r_children[p]) \in Nat /\ Len(r_children[p]) <= MaxKids
    BY <1>0, RefTyped DEF RefTypes
<1>5. /\ s \in Seq(Objs) /\ Len(s) = Len(r_children[p]) - 1
      /\ \A x : Count(r_children[p], x) = Count(s, x) + IF c = x THEN 1 ELSE 0
    BY <1>1, <1>2, <1>4, CountRemoveFirst
<1>6. Len(s) <= MaxKids
    BY <1>4, <1>5, RefAssumption
<1>7. /\ r_children' \in Lists
      /\ \A x : Cardinality(Pairs(r_children', x)) + Count(r_children[p], x)
                  = Cardinality(Pairs(r_children, x)) + Count(s, x)
    BY <1>2, <1>4, <1>5, <1>6, PairsExcept
<1>8. r_work' \in Seq(Objs) /\ \A x : Count(r_work', x) = IF c = x THEN 1 ELSE 0
    BY <1>2, CountOne
<1>9. /\ r_parent' \in [All -> All \cup {NULL}]
      /\ \A x \in All : r_parent'[x] = IF x = c THEN NULL ELSE r_parent[x]
    BY <1>0, <1>2 DEF RefTypes
<1>10. r_taken' \in BOOLEAN
    BY <1>0, <1>2 DEF RefTypes
<1>11. RefTypes'
    BY <1>0, <1>2, <1>7, <1>8, <1>9, <1>10 DEF RefTypes
<1>12. ASSUME NEW x \in All
       PROVE  r_refs'[x] = r_holds'[x] + Cardinality(Pairs(r_children', x)) + Count(r_pool', x) + Count(r_work', x)
  <2>1. /\ r_refs[x] = r_holds[x] + Cardinality(Pairs(r_children, x)) + Count(r_pool, x) + Count(r_work, x)
        /\ r_refs[x] \in Nat /\ r_holds[x] \in Nat /\ Cardinality(Pairs(r_children, x)) \in Nat
        /\ Count(r_pool, x) \in Nat
    BY <1>0, RefTyped DEF Balance
  <2>2. Count(s, x) \in Nat /\ Cardinality(Pairs(r_children', x)) \in Nat
    BY <1>5, EntriesFinite, PairsFinite
  <2>3. Count(r_work, x) = 0 /\ Count(r_work', x) = IF c = x THEN 1 ELSE 0
    BY <1>2, <1>8, CountEmpty
  <2>4. Cardinality(Pairs(r_children', x)) + (IF c = x THEN 1 ELSE 0) = Cardinality(Pairs(r_children, x))
    BY <1>5, <1>7, <2>1, <2>2
  <2>5. Count(r_pool', x) = Count(r_pool, x) /\ r_holds'[x] = r_holds[x] /\ r_refs'[x] = r_refs[x]
    BY <1>2
  <2> QED
    BY ONLY <2>1, <2>2, <2>3, <2>4, <2>5
<1>13. RootKept'
    BY <1>0, <1>2 DEF RootKept
<1>14. ASSUME NEW x \in All, r_refs[x] > 0, r_parent'[x] = p
       PROVE  Contains(s, x)
  <2>1. x # c /\ r_parent[x] = p
    BY <1>9, <1>14, RefAssumption DEF All
  <2>2. Contains(r_children[p], x)
    BY <1>14, <2>1, RefAssumption DEF RefInv, Parents, All
  <2>3. Count(r_children[p], x) > 0 /\ Count(r_children[p], x) = Count(s, x)
    BY <1>4, <1>5, <2>1, <2>2, CountPositive, EntriesFinite
  <2> QED
    BY <1>5, <2>3, CountPositive
<1>15. Emptied' /\ Parents(r_refs', r_children', r_parent') /\ WalkInside'
  <2>1. \A x \in All : r_parent'[x] \in {r_parent[x], NULL}
    BY <1>9
  <2>2. \A x \in All : r_refs[x] > 0 /\ r_parent'[x] = p => Contains(s, x)
    BY <1>14
  <2> QED
    BY <1>2, <1>5, <1>6, <1>9, <2>1, <2>2, ListShrinks
<1> QED
    BY <1>11, <1>12, <1>13, <1>15 DEF RefInv, Balance

\* The list of p is emptied, into the work.
LEMMA ListMoves ==
    ASSUME RefTypes, NEW p \in All, r_children' = [r_children EXCEPT ![p] = <<>>]
    PROVE  /\ r_children' \in Lists /\ r_children[p] \in Seq(Objs)
           /\ \A x : /\ Cardinality(Pairs(r_children', x)) \in Nat /\ Count(r_children[p], x) \in Nat
                     /\ Cardinality(Pairs(r_children', x)) + Count(r_children[p], x)
                          = Cardinality(Pairs(r_children, x))
<1>1. r_children \in Lists /\ r_children[p] \in Seq(Objs)
    BY RefTyped DEF RefTypes
<1>2. <<>> \in Seq(Objs) /\ Len(<<>>) <= MaxKids /\ MaxKids \in Nat
    BY EmptySeq, RefAssumption
<1>3. /\ r_children' \in Lists
      /\ \A x : Cardinality(Pairs(r_children', x)) + Count(r_children[p], x)
                  = Cardinality(Pairs(r_children, x)) + Count(<<>>, x)
    BY <1>1, <1>2, PairsExcept
<1>4. ASSUME NEW x
      PROVE  /\ Cardinality(Pairs(r_children', x)) \in Nat /\ Count(r_children[p], x) \in Nat
             /\ Cardinality(Pairs(r_children', x)) + Count(r_children[p], x)
                  = Cardinality(Pairs(r_children, x))
  <2>1. /\ Cardinality(Pairs(r_children', x)) \in Nat /\ Count(r_children[p], x) \in Nat
        /\ Cardinality(Pairs(r_children, x)) \in Nat
    BY <1>1, EntriesFinite, PairsFinite
  <2>2. Count(<<>>, x) = 0
    BY CountEmpty
  <2>3. Cardinality(Pairs(r_children', x)) + Count(r_children[p], x)
          = Cardinality(Pairs(r_children, x)) + Count(<<>>, x)
    BY <1>3
  <2> QED
    BY ONLY <2>1, <2>2, <2>3
<1> QED
    BY <1>1, <1>3, <1>4

LEMMA ClearStep ==
    ASSUME RefInv, NEW p \in All, clearChildren(p)
    PROVE  RefInv'
<1>0. /\ RefTypes /\ Balance(r_refs, r_holds, r_children, r_pool, r_work) /\ RootKept
    BY DEF RefInv
<1>1. /\ r_work = <<>> /\ r_work' = r_children[p] /\ r_parent' = orphan(p)
      /\ r_children' = [r_children EXCEPT ![p] = <<>>]
      /\ r_taken' = (r_taken \/ p \in Walked)
      /\ r_refs' = r_refs /\ r_holds' = r_holds /\ r_pool' = r_pool /\ r_walk' = r_walk /\ r_bad' = r_bad
    BY DEF clearChildren, alive
<1>2. /\ r_children' \in Lists /\ r_children[p] \in Seq(Objs)
      /\ \A x : /\ Cardinality(Pairs(r_children', x)) \in Nat /\ Count(r_children[p], x) \in Nat
                /\ Cardinality(Pairs(r_children', x)) + Count(r_children[p], x)
                     = Cardinality(Pairs(r_children, x))
    BY <1>0, <1>1, ListMoves
<1>3. /\ r_parent' \in [All -> All \cup {NULL}]
      /\ \A x \in All : r_parent'[x] \in {r_parent[x], NULL}
      /\ \A x \in All : Contains(r_children[p], x) => r_parent'[x] = NULL
    BY <1>0, <1>1, Orphans
<1>4. r_taken' \in BOOLEAN
    BY <1>0, <1>1 DEF RefTypes
<1>5. RefTypes'
    BY <1>0, <1>1, <1>2, <1>3, <1>4 DEF RefTypes
<1>6. ASSUME NEW x \in All
      PROVE  r_refs'[x] = r_holds'[x] + Cardinality(Pairs(r_children', x)) + Count(r_pool', x) + Count(r_work', x)
  <2>1. /\ r_refs[x] = r_holds[x] + Cardinality(Pairs(r_children, x)) + Count(r_pool, x) + Count(r_work, x)
        /\ r_holds[x] \in Nat /\ Cardinality(Pairs(r_children, x)) \in Nat /\ Count(r_pool, x) \in Nat
    BY <1>0, RefTyped DEF Balance
  <2>2. Count(r_work, x) = 0 /\ Count(r_work', x) = Count(r_children[p], x)
    BY <1>1, CountEmpty
  <2>3. /\ Cardinality(Pairs(r_children', x)) \in Nat /\ Count(r_children[p], x) \in Nat
        /\ Cardinality(Pairs(r_children', x)) + Count(r_children[p], x) = Cardinality(Pairs(r_children, x))
    BY <1>2
  <2>4. Count(r_pool', x) = Count(r_pool, x) /\ r_holds'[x] = r_holds[x] /\ r_refs'[x] = r_refs[x]
    BY <1>1
  <2> QED
    BY ONLY <2>1, <2>2, <2>3, <2>4
<1>7. RootKept'
    BY <1>0, <1>1 DEF RootKept
<1>8. ASSUME NEW x \in All, r_refs[x] > 0, r_parent'[x] = p
      PROVE  Contains(<<>>, x)
  <2>1. r_parent[x] = p /\ p # NULL
    BY <1>3, <1>8, RefAssumption DEF All
  <2>2. Contains(r_children[p], x)
    BY <1>8, <2>1 DEF RefInv, Parents
  <2> QED
    BY <1>3, <1>8, <2>1, <2>2
<1>9. Emptied' /\ Parents(r_refs', r_children', r_parent') /\ WalkInside'
  <2>1. <<>> \in Seq(Objs) /\ Len(<<>>) <= MaxKids
    BY EmptySeq, RefAssumption
  <2>2. \A x \in All : r_refs[x] > 0 /\ r_parent'[x] = p => Contains(<<>>, x)
    BY <1>8
  <2> QED
    BY <1>1, <1>3, <2>1, <2>2, ListShrinks
<1> QED
    BY <1>5, <1>6, <1>7, <1>9 DEF RefInv, Balance

\* The loops' steps.
LEMMA ReleaseStep ==
    ASSUME RefInv, release
    PROVE  RefInv'
<1>0. /\ RefTypes /\ Balance(r_refs, r_holds, r_children, r_pool, r_work) /\ RootKept
    BY DEF RefInv
<1>1. PICK o : o = Head(r_work)
    OBVIOUS
<1>2. /\ r_work # <<>> /\ r_refs[o] # 1
      /\ r_refs' = [r_refs EXCEPT ![o] = @ - 1] /\ r_work' = Tail(r_work)
      /\ r_children' = r_children /\ r_parent' = r_parent /\ r_pool' = r_pool /\ r_holds' = r_holds
      /\ r_walk' = r_walk /\ r_bad' = r_bad /\ r_taken' = r_taken
    BY <1>1 DEF release
<1>3. o \in Objs /\ o \in All /\ r_refs[o] > 0
    BY <1>1, <1>2, NamedLives DEF All
<1>4. /\ r_work \in Seq(Objs) /\ r_work' \in Seq(Objs)
      /\ \A x : Count(r_work, x) = Count(r_work', x) + IF o = x THEN 1 ELSE 0
    BY <1>0, <1>1, <1>2, CountTail DEF RefTypes
<1>5. ASSUME NEW x \in All
      PROVE  r_refs[x] \in Nat /\ r_refs'[x] = r_refs[x] - IF o = x THEN 1 ELSE 0
    BY <1>0, <1>2 DEF RefTypes
<1>6. \A x \in All : r_refs'[x] \in Nat /\ (r_refs'[x] = 0 <=> r_refs[x] = 0)
    BY <1>2, <1>3, <1>5
<1>7. r_refs' \in [All -> Nat]
    BY <1>0, <1>2, <1>6 DEF RefTypes
<1>8. RefTypes'
    BY <1>0, <1>2, <1>4, <1>7 DEF RefTypes
<1>9. ASSUME NEW x \in All
      PROVE  r_refs'[x] = r_holds'[x] + Cardinality(Pairs(r_children', x)) + Count(r_pool', x) + Count(r_work', x)
  <2>1. /\ r_refs[x] = r_holds[x] + Cardinality(Pairs(r_children, x)) + Count(r_pool, x) + Count(r_work, x)
        /\ r_holds[x] \in Nat /\ Cardinality(Pairs(r_children, x)) \in Nat /\ Count(r_pool, x) \in Nat
    BY <1>0, RefTyped DEF Balance
  <2>2. Count(r_work', x) \in Nat /\ Count(r_work, x) = Count(r_work', x) + IF o = x THEN 1 ELSE 0
    BY <1>4, EntriesFinite
  <2>3. r_refs'[x] = r_refs[x] - IF o = x THEN 1 ELSE 0
    BY <1>5
  <2>4. /\ Count(r_pool', x) = Count(r_pool, x) /\ r_holds'[x] = r_holds[x]
        /\ Cardinality(Pairs(r_children', x)) = Cardinality(Pairs(r_children, x))
    BY <1>2
  <2> QED
    BY ONLY <2>1, <2>2, <2>3, <2>4
<1>10. RootKept'
    BY <1>0, <1>2 DEF RootKept
<1>11. Emptied' /\ Parents(r_refs', r_children', r_parent') /\ WalkInside'
    BY <1>2, <1>6, <1>7, NoneDies
<1> QED
    BY <1>8, <1>9, <1>10, <1>11 DEF RefInv, Balance

LEMMA DeletesStep ==
    ASSUME RefInv, releaseDeletes
    PROVE  RefInv'
<1>0. /\ RefTypes /\ Balance(r_refs, r_holds, r_children, r_pool, r_work) /\ RootKept
    BY DEF RefInv
<1>1. PICK p, t : p = Head(r_work) /\ t = Tail(r_work)
    OBVIOUS
<1>2. /\ r_work # <<>> /\ r_refs[p] = 1
      /\ r_refs' = [r_refs EXCEPT ![p] = 0] /\ r_work' = r_children[p] \o t
      /\ r_children' = [r_children EXCEPT ![p] = <<>>] /\ r_parent' = orphan(p)
      /\ r_taken' = (r_taken \/ p \in Walked)
      /\ r_pool' = r_pool /\ r_holds' = r_holds /\ r_walk' = r_walk /\ r_bad' = r_bad
    BY <1>1 DEF releaseDeletes
<1>3. p \in Objs /\ p \in All
    BY <1>1, <1>2, NamedLives DEF All
<1>4. /\ r_work \in Seq(Objs) /\ t \in Seq(Objs)
      /\ \A x : Count(r_work, x) = Count(t, x) + IF p = x THEN 1 ELSE 0
    BY <1>0, <1>1, <1>2, CountTail DEF RefTypes
<1>5. /\ r_children' \in Lists /\ r_children[p] \in Seq(Objs)
      /\ \A x : /\ Cardinality(Pairs(r_children', x)) \in Nat /\ Count(r_children[p], x) \in Nat
                /\ Cardinality(Pairs(r_children', x)) + Count(r_children[p], x)
                     = Cardinality(Pairs(r_children, x))
    BY <1>0, <1>2, <1>3, ListMoves
<1>6. /\ r_work' \in Seq(Objs)
      /\ \A x : Count(r_work', x) = Count(r_children[p], x) + Count(t, x)
    BY <1>2, <1>4, <1>5, CountConcat
<1>7. /\ r_parent' \in [All -> All \cup {NULL}]
      /\ \A x \in All : r_parent'[x] \in {r_parent[x], NULL}
      /\ \A x \in All : Contains(r_children[p], x) => r_parent'[x] = NULL
    BY <1>0, <1>2, <1>3, Orphans
<1>8. r_taken' \in BOOLEAN /\ r_refs' \in [All -> Nat]
    BY <1>0, <1>2 DEF RefTypes
<1>9. RefTypes'
    BY <1>0, <1>2, <1>5, <1>6, <1>7, <1>8 DEF RefTypes
<1>10. ASSUME NEW x \in All
       PROVE  r_refs'[x] = r_holds'[x] + Cardinality(Pairs(r_children', x)) + Count(r_pool', x) + Count(r_work', x)
  <2>1. /\ r_refs[x] = r_holds[x] + Cardinality(Pairs(r_children, x)) + Count(r_pool, x) + Count(r_work, x)
        /\ r_holds[x] \in Nat /\ Cardinality(Pairs(r_children, x)) \in Nat /\ Count(r_pool, x) \in Nat
    BY <1>0, RefTyped DEF Balance
  <2>2. /\ Count(t, x) \in Nat /\ Count(r_work, x) = Count(t, x) + IF p = x THEN 1 ELSE 0
        /\ Count(r_work', x) = Count(r_children[p], x) + Count(t, x)
    BY <1>4, <1>6, EntriesFinite
  <2>3. r_refs'[x] = r_refs[x] - IF p = x THEN 1 ELSE 0
    BY <1>0, <1>2 DEF RefTypes
  <2>4. /\ Cardinality(Pairs(r_children', x)) \in Nat /\ Count(r_children[p], x) \in Nat
        /\ Cardinality(Pairs(r_children', x)) + Count(r_children[p], x) = Cardinality(Pairs(r_children, x))
    BY <1>5
  <2>5. Count(r_pool', x) = Count(r_pool, x) /\ r_holds'[x] = r_holds[x]
    BY <1>2
  <2> QED
    BY ONLY <2>1, <2>2, <2>3, <2>4, <2>5
<1>11. RootKept'
    BY <1>0, <1>2 DEF RootKept
<1>12. ASSUME NEW x \in All, r_refs[x] > 0, r_parent'[x] = p
       PROVE  Contains(<<>>, x)
  <2>1. r_parent[x] = p /\ p # NULL
    BY <1>3, <1>7, <1>12, RefAssumption DEF All
  <2>2. Contains(r_children[p], x)
    BY <1>12, <2>1 DEF RefInv, Parents
  <2> QED
    BY <1>7, <1>12, <2>1, <2>2
<1>13. Emptied' /\ Parents(r_refs', r_children', r_parent') /\ WalkInside'
  <2>1. <<>> \in Seq(Objs) /\ Len(<<>>) <= MaxKids
    BY EmptySeq, RefAssumption
  <2>2. \A x \in All : r_refs[x] > 0 /\ r_parent'[x] = p => Contains(<<>>, x)
    BY <1>12
  <2> QED
    BY <1>2, <1>3, <1>7, <2>1, <2>2, ListShrinks
<1> QED
    BY <1>9, <1>10, <1>11, <1>13 DEF RefInv, Balance

LEMMA PoolStep ==
    ASSUME RefInv, poolClear
    PROVE  RefInv'
<1>0. /\ RefTypes /\ Balance(r_refs, r_holds, r_children, r_pool, r_work) /\ RootKept
    BY DEF RefInv
<1>1. /\ r_work = <<>> /\ r_work' = r_pool /\ r_pool' = <<>>
      /\ r_refs' = r_refs /\ r_children' = r_children /\ r_parent' = r_parent /\ r_holds' = r_holds
      /\ r_walk' = r_walk /\ r_bad' = r_bad /\ r_taken' = r_taken
    BY DEF poolClear, tree
<1>2. RefTypes'
    BY <1>0, <1>1, EmptySeq DEF RefTypes
<1>3. ASSUME NEW x \in All
      PROVE  r_refs'[x] = r_holds'[x] + Cardinality(Pairs(r_children', x)) + Count(r_pool', x) + Count(r_work', x)
  <2>1. /\ r_refs[x] = r_holds[x] + Cardinality(Pairs(r_children, x)) + Count(r_pool, x) + Count(r_work, x)
        /\ r_holds[x] \in Nat /\ Cardinality(Pairs(r_children, x)) \in Nat /\ Count(r_pool, x) \in Nat
    BY <1>0, RefTyped DEF Balance
  <2>2. Count(r_work, x) = 0 /\ Count(r_pool', x) = 0
    BY <1>1, CountEmpty
  <2>3. /\ Count(r_work', x) = Count(r_pool, x) /\ r_holds'[x] = r_holds[x] /\ r_refs'[x] = r_refs[x]
        /\ Cardinality(Pairs(r_children', x)) = Cardinality(Pairs(r_children, x))
    BY <1>1
  <2> QED
    BY ONLY <2>1, <2>2, <2>3
<1>4. RootKept'
    BY <1>0, <1>1 DEF RootKept
<1>5. Emptied' /\ Parents(r_refs', r_children', r_parent') /\ WalkInside'
    BY <1>0, <1>1, NoneDies DEF RefTypes
<1> QED
    BY <1>2, <1>3, <1>4, <1>5 DEF RefInv, Balance

\* The walk: all but r_walk, r_bad and r_taken stay.
LEMMA WalkStep ==
    ASSUME RefInv, updateRoot \/ updateChild \/ updateReturns
    PROVE  RefInv'
<1>0. /\ RefTypes /\ Balance(r_refs, r_holds, r_children, r_pool, r_work) /\ RootKept /\ Emptied
      /\ Parents(r_refs, r_children, r_parent) /\ WalkInside
    BY DEF RefInv
<1>1. /\ r_refs' = r_refs /\ r_children' = r_children /\ r_parent' = r_parent
      /\ r_pool' = r_pool /\ r_work' = r_work /\ r_holds' = r_holds
    BY DEF updateRoot, updateChild, updateReturns, tree
<1>2. ASSUME NEW o \in All
      PROVE  call(o) \in UpdateCall /\ (r_refs[o] > 0 => Walks(call(o), r_refs, r_children))
  <2>1. Len(r_children[o]) \in Nat
    BY <1>0, RefTyped
  <2> QED
    BY <2>1 DEF call, UpdateCall, Walks
<1>3. r_walk' \in Seq(UpdateCall) /\ r_bad' \in BOOLEAN /\ r_taken' \in BOOLEAN /\ WalkInside'
  <2>1. CASE updateRoot
    <3>1. /\ r_walk' = <<call(Root)>> /\ r_taken' = FALSE /\ r_bad' = r_bad /\ ~ r_bad
      BY <2>1 DEF updateRoot
    <3>2. Root \in All /\ r_refs[Root] > 0
      BY NamedLives DEF All
    <3>3. call(Root) \in UpdateCall /\ Walks(call(Root), r_refs, r_children)
      BY <1>2, <3>2
    <3>4. r_walk' \in Seq(UpdateCall) /\ Len(r_walk') = 1 /\ r_walk'[1] = call(Root)
      BY <3>1, <3>3
    <3>5. \A k \in 1 .. Len(r_walk') : Walks(r_walk'[k], r_refs', r_children')
      BY <1>1, <3>3, <3>4
    <3> QED
      BY <1>0, <3>1, <3>4, <3>5 DEF WalkInside, RefTypes
  <2>2. CASE updateChild
    <3>1. PICK w, m : w = Last(r_walk) /\ m = Len(r_walk)
      OBVIOUS
    <3>2. /\ r_walk # <<>> /\ ~ r_bad /\ w.i # w.cnt
          /\ r_bad' = (r_refs[w.obj] = 0 \/ w.i >= Len(r_children[w.obj]))
          /\ r_walk' = IF r_bad' THEN r_walk
                       ELSE Append([r_walk EXCEPT ![m].i = @ + 1], call(r_children[w.obj][w.i + 1]))
          /\ r_taken' = r_taken
      BY <2>2, <3>1 DEF updateChild, next
    <3>3. m \in Nat \ {0} /\ m \in 1 .. Len(r_walk) /\ w = r_walk[m]
      BY <1>0, <3>1, <3>2, EmptySeq DEF RefTypes, Last
    <3>4. w \in UpdateCall /\ w.obj \in All /\ w.i \in Nat /\ w.cnt \in Nat
      BY <1>0, <3>3, RefTyped DEF UpdateCall
    <3>5. r_children[w.obj] \in Seq(Objs) /\ Len(r_children[w.obj]) \in Nat /\ r_refs[w.obj] \in Nat
      BY <1>0, <3>4, RefTyped
    <3>6. r_bad' \in BOOLEAN
      BY <3>2
    <3>9. r_bad' <=> (r_refs[w.obj] = 0 \/ w.i >= Len(r_children[w.obj]))
      BY <3>2, Zenon
    <3>7. CASE r_bad'
      <4>1. r_taken
        <5>1. SUFFICES ASSUME ~ r_taken
                       PROVE  FALSE
          OBVIOUS
        <5>2. Walks(w, r_refs, r_children)
          BY <1>0, <3>3, <5>1 DEF WalkInside
        <5> QED
          BY <3>2, <3>4, <3>5, <3>7, <3>9, <5>2 DEF Walks
      <4> QED
        BY <1>0, <3>2, <3>6, <3>7, <4>1 DEF RefTypes, WalkInside
    <3>8. CASE ~ r_bad'
      <4>1. PICK c, v, e : /\ c = r_children[w.obj][w.i + 1] /\ v = [w EXCEPT !.i = @ + 1]
                           /\ e = [r_walk EXCEPT ![m] = v]
        OBVIOUS
      <4>2. w.i + 1 \in 1 .. Len(r_children[w.obj])
        BY <3>4, <3>5, <3>8, <3>9
      <4>3. c \in Objs /\ c \in All /\ r_refs[c] > 0
        <5>1. c \in Objs
          BY <3>5, <4>1, <4>2, ElementOfSeq
        <5> QED
          BY <3>4, <4>1, <4>2, <5>1, NamedLives DEF All
      <4>4. v \in UpdateCall /\ v.obj = w.obj /\ v.i = w.i + 1 /\ v.cnt = w.cnt
        BY <3>4, <4>1 DEF UpdateCall
      <4>5. /\ e \in Seq(UpdateCall) /\ Len(e) = m
            /\ \A k \in 1 .. m : e[k] = IF k = m THEN v ELSE r_walk[k]
        BY <1>0, <3>1, <3>3, <4>1, <4>4, ExceptSeq DEF RefTypes
      <4>6. r_walk' = Append(e, call(c))
        BY <3>2, <3>3, <3>8, <4>1
      <4>7. call(c) \in UpdateCall /\ Walks(call(c), r_refs, r_children)
        BY <1>2, <4>3
      <4>8. /\ r_walk' \in Seq(UpdateCall) /\ Len(r_walk') = m + 1 /\ r_walk'[m + 1] = call(c)
            /\ \A k \in 1 .. m : r_walk'[k] = e[k]
        BY <4>5, <4>6, <4>7, AppendProperties
      <4>9. ASSUME ~ r_taken, NEW k \in 1 .. m + 1
            PROVE  Walks(r_walk'[k], r_refs, r_children)
        <5>1. \A j \in 1 .. m : Walks(r_walk[j], r_refs, r_children)
          BY <1>0, <3>1, <4>9 DEF WalkInside
        <5>2. Walks(v, r_refs, r_children)
          BY <3>2, <3>3, <3>4, <4>4, <5>1 DEF Walks
        <5>3. CASE k = m + 1
          BY <4>7, <4>8, <5>3
        <5>4. CASE k = m
          <6>1. r_walk'[m] = v
            BY <3>3, <4>5, <4>8
          <6> QED
            BY <5>2, <5>4, <6>1
        <5>5. CASE k \in 1 .. m /\ k # m
          BY <4>5, <4>8, <5>1, <5>5
        <5> QED
          BY <3>3, <5>3, <5>4, <5>5
      <4> QED
        BY <1>0, <1>1, <3>2, <3>6, <3>8, <4>8, <4>9 DEF RefTypes, WalkInside
    <3> QED
      BY <3>7, <3>8
  <2>3. CASE updateReturns
    <3>1. r_walk # <<>> /\ r_walk' = Front(r_walk) /\ r_bad' = r_bad /\ r_taken' = r_taken
      BY <2>3 DEF updateReturns
    <3>2. PICK m \in Nat \ {0} : m = Len(r_walk)
      BY <1>0, <3>1, EmptySeq DEF RefTypes
    <3>3. /\ r_walk' \in Seq(UpdateCall) /\ Len(r_walk') = m - 1
          /\ \A k \in 1 .. m - 1 : r_walk'[k] = r_walk[k]
      <4>1. r_walk' = SubSeq(r_walk, 1, m - 1)
        BY <3>1, <3>2 DEF Front
      <4>2. \A k \in 1 .. m - 1 : r_walk[k] \in UpdateCall
        BY <1>0, <3>2, RefTyped
      <4>3. 1 \in Int /\ m - 1 \in Int
        OBVIOUS
      <4>4. /\ r_walk' \in Seq(UpdateCall) /\ Len(r_walk') = IF 1 <= m - 1 THEN m - 1 - 1 + 1 ELSE 0
            /\ \A k \in 1 .. m - 1 - 1 + 1 : r_walk'[k] = r_walk[1 + k - 1]
        BY ONLY <4>1, <4>2, <4>3, SubSeqProperties
      <4> QED
        BY <4>4
    <3>4. \A k \in 1 .. m - 1 : k \in 1 .. m
      OBVIOUS
    <3> QED
      BY <1>0, <1>1, <3>1, <3>2, <3>3, <3>4 DEF RefTypes, WalkInside
  <2> QED
    BY <2>1, <2>2, <2>3
<1>4. RefTypes'
    BY <1>0, <1>1, <1>3 DEF RefTypes
<1>5. /\ Balance(r_refs, r_holds, r_children, r_pool, r_work)' /\ RootKept' /\ Emptied'
      /\ Parents(r_refs, r_children, r_parent)'
    BY <1>0, <1>1 DEF Balance, RootKept, Emptied, Parents
<1> QED
    BY <1>3, <1>4, <1>5 DEF RefInv

LEMMA RefStep == RefInv /\ [RefNext]_refVars => RefInv'
<1> SUFFICES ASSUME RefInv, [RefNext]_refVars
             PROVE  RefInv'
    OBVIOUS
<1>1. CASE UNCHANGED refVars
    BY <1>1 DEF refVars, tree, RefInv, RefTypes, Balance, RootKept, Emptied, Parents, WalkInside
<1>2. ASSUME NEW o \in Objs, NEW inpool \in BOOLEAN, refCreate(o, inpool)
      PROVE  RefInv'
    BY <1>2, CreateStep
<1>3. ASSUME NEW o \in Objs, refRetain(o) \/ refRelease(o)
      PROVE  RefInv'
    BY <1>3, RetainStep, ReleaseCallStep
<1>4. ASSUME NEW o \in Objs, removeFromParent(o)
      PROVE  RefInv'
  <2>1. r_parent[o] \in All /\ delChild(r_parent[o], o)
    BY <1>4 DEF removeFromParent, RefInv, RefTypes, All
  <2> QED
    BY <2>1, DelChildStep
<1>5. ASSUME NEW p \in All, clearChildren(p)
      PROVE  RefInv'
    BY <1>5, ClearStep
<1>6. ASSUME NEW p \in All, NEW c \in Objs, addChild(p, c) \/ delChild(p, c)
      PROVE  RefInv'
    BY <1>6, AddChildStep, DelChildStep
<1>7. CASE release \/ releaseDeletes \/ poolClear
    BY <1>7, ReleaseStep, DeletesStep, PoolStep
<1>8. CASE updateRoot \/ updateChild \/ updateReturns
    BY <1>8, WalkStep
<1> QED
    BY <1>1, <1>2, <1>3, <1>4, <1>5, <1>6, <1>7, <1>8 DEF RefNext

\* Counts, tree and walk, for any number of objects: the strengthening of TreeKept and
\* WalkSafe (Ref::release and ~Ref, clearChildren, RefPool::clear, Ref::update).
THEOREM RefInvariant == RefSpec => []RefInv
<1> QED
    BY RefStarts, RefStep, PTL DEF RefSpec

\* The references of every object are those that the users, the lists of children, the pool
\* and the releases under way have, and parent_ names a living object that lists the child
\* (Ref::addChild, delChild and release).
THEOREM RefTreeKept == RefSpec => []TreeKept
<1>1. RefInv => TreeKept
  <2> SUFFICES ASSUME RefInv
               PROVE  TreeKept
    OBVIOUS
  <2>1. \A o \in All : Listed(o) = Pairs(r_children, o)
    BY DEF Listed, Pairs
  <2>2. RefsBalanced
    BY <2>1 DEF RefInv, Balance, RefsBalanced, Count
  <2>3. ParentLists
    BY DEF RefInv, Parents, ParentLists
  <2> QED
    BY <2>2, <2>3 DEF TreeKept
<1> QED
    BY <1>1, RefInvariant, PTL

\* A frame's walk of the updates stays inside the lists and the living, as long as no update
\* takes a child from a list that is being walked (Ref::update).
THEOREM RefWalkSafe == RefSpec => []WalkSafe
<1>1. RefInv => WalkSafe
    BY DEF RefInv, WalkInside, WalkSafe
<1> QED
    BY <1>1, RefInvariant, PTL

---------------------------------------------------------------------------------
(* base/Queue.h: MinQueue.                                                  *)

LEMMA Exchanged ==
    ASSUME NEW h \in Seq(HeapValues), NEW i \in 1 .. Len(h), NEW j \in 1 .. Len(h), i # j
    PROVE  /\ exchange(h, i, j) \in Seq(HeapValues) /\ Len(exchange(h, i, j)) = Len(h)
           /\ exchange(h, i, j)[i] = h[j] /\ exchange(h, i, j)[j] = h[i]
           /\ \A k \in 1 .. Len(h) : k # i /\ k # j => exchange(h, i, j)[k] = h[k]
           /\ \A v : Count(exchange(h, i, j), v) = Count(h, v)
<1>1. PICK g : g = exchange(h, i, j)
    OBVIOUS
<1>2. h[i] \in HeapValues /\ h[j] \in HeapValues /\ DOMAIN h = 1 .. Len(h) /\ Len(h) \in Nat
    BY ElementOfSeq, LenProperties
<1>3. /\ [h EXCEPT ![i] = h[j]] \in Seq(HeapValues)
      /\ Len([h EXCEPT ![i] = h[j]]) = Len(h)
      /\ \A k \in 1 .. Len(h) : [h EXCEPT ![i] = h[j]][k] = IF k = i THEN h[j] ELSE h[k]
    BY <1>2, ExceptSeq
<1>4. PICK e : e = [h EXCEPT ![i] = h[j]]
    OBVIOUS
<1>5. g = [e EXCEPT ![j] = h[i]]
    BY <1>1, <1>4 DEF exchange
<1>6. /\ g \in Seq(HeapValues) /\ Len(g) = Len(h)
      /\ \A k \in 1 .. Len(h) : g[k] = IF k = j THEN h[i] ELSE e[k]
    BY <1>2, <1>3, <1>4, <1>5, ExceptSeq
<1>7. \A k \in 1 .. Len(h) : g[k] = IF k = j THEN h[i] ELSE IF k = i THEN h[j] ELSE h[k]
    BY <1>3, <1>4, <1>6
<1>8. DOMAIN g = 1 .. Len(h)
    BY <1>6, LenProperties
<1>9. ASSUME NEW v
      PROVE  Count(g, v) = Count(h, v)
  <2> DEFINE swap(k) == IF k = i THEN j ELSE IF k = j THEN i ELSE k
             f == [k \in Entries(h, v) |-> swap(k)]
  <2>1. ASSUME NEW k \in 1 .. Len(h)
        PROVE  swap(k) \in 1 .. Len(h) /\ swap(swap(k)) = k /\ g[swap(k)] = h[k] /\ h[swap(k)] = g[k]
    BY <1>7
  <2>2. \A k : k \in Entries(h, v) <=> k \in 1 .. Len(h) /\ h[k] = v
    BY <1>2 DEF Entries
  <2>3. \A k : k \in Entries(g, v) <=> k \in 1 .. Len(h) /\ g[k] = v
    BY <1>8 DEF Entries
  <2> HIDE DEF swap
  <2>4. \A k \in Entries(h, v) : swap(k) \in Entries(g, v)
    BY <2>1, <2>2, <2>3
  <2>5. f \in [Entries(h, v) -> Entries(g, v)]
    BY <2>4
  <2>6. \A a, b \in Entries(h, v) : f[a] = f[b] => a = b
    BY <2>1, <2>2
  <2>7. \A y \in Entries(g, v) : \E x \in Entries(h, v) : f[x] = y
    BY <2>1, <2>2, <2>3
  <2>8. IsFiniteSet(Entries(h, v))
    BY EntriesFinite
  <2> HIDE DEF f
  <2> QED
    BY <2>5, <2>6, <2>7, <2>8, Moved DEF Count
<1> QED
    BY <1>1, <1>6, <1>7, <1>9

\* Wherever the parent is not excepted, it is not greater than its child.
Ordered(h, excepted) ==
    \A k \in 2 .. Len(h) : k \div 2 \notin excepted => h[k \div 2] <= h[k]

\* While the element at j sinks: no child of j is less than the parent of j.
Grand(h, j) == j \div 2 > 0 => \A k \in 2 .. Len(h) : k \div 2 = j => h[j \div 2] <= h[k]

LEMMA Parents2 ==
    ASSUME NEW k \in Nat, k >= 2
    PROVE  /\ k \div 2 \in Nat /\ 1 <= k \div 2 /\ k \div 2 < k
           /\ k = 2 * (k \div 2) \/ k = 2 * (k \div 2) + 1
OBVIOUS

LEMMA Halves ==
    ASSUME NEW k \in Nat
    PROVE  /\ k \div 2 \in Nat /\ k \div 2 <= k /\ (k > 0 => k \div 2 < k)
           /\ k = 2 * (k \div 2) \/ k = 2 * (k \div 2) + 1
OBVIOUS

LEMMA Targets ==
    ASSUME NEW h \in Seq(HeapValues), NEW j \in Nat, j > 0
    PROVE  /\ target(h, j) \in Nat /\ target(h, j) \in {2 * j, 2 * j + 1}
           /\ target(h, j) >= 2 /\ target(h, j) \div 2 = j
           /\ target(h, j) <= Len(h) => \A k \in 2 .. Len(h) : k \div 2 = j => h[target(h, j)] <= h[k]
           /\ ~ (target(h, j) <= Len(h)) => \A k \in 2 .. Len(h) : k \div 2 # j
<1>1. PICK n \in Nat : n = Len(h)
    BY LenProperties
<1>2. \A k \in 1 .. n : h[k] \in Int
    BY <1>1, ElementOfSeq, CollectionsAssumption
<1>3. PICK t : t = target(h, j)
    OBVIOUS
<1>4. t = IF 2 * j + 1 <= n /\ h[2 * j] > h[2 * j + 1] THEN 2 * j + 1 ELSE 2 * j
    BY <1>1, <1>3 DEF target
<1>5. t \in Nat /\ t \in {2 * j, 2 * j + 1} /\ t >= 2 /\ t \div 2 = j
    BY <1>4
<1>6. ASSUME NEW k \in 2 .. n, k \div 2 = j
      PROVE  t <= n /\ h[t] <= h[k]
  <2>1. k = 2 * j \/ k = 2 * j + 1
    BY <1>6
  <2>2. 2 * j \in 1 .. n
    BY <2>1
  <2>3. h[2 * j] \in Int
    BY <1>2, <2>2
  <2>4. CASE 2 * j + 1 <= n
    <3>1. 2 * j + 1 \in 1 .. n
      BY <2>4
    <3>2. h[2 * j + 1] \in Int
      BY <1>2, <3>1
    <3> QED
      BY <1>4, <2>1, <2>2, <2>3, <2>4, <3>2
  <2>5. CASE ~ (2 * j + 1 <= n)
    BY <1>4, <2>1, <2>2, <2>3, <2>5
  <2> QED
    BY <2>4, <2>5
<1> QED
    BY <1>1, <1>3, <1>5, <1>6

\* One turn of the loop: what was left out of order moves on to the child.
LEMMA Sinks ==
    ASSUME NEW h \in Seq(HeapValues), NEW j \in Nat, j > 0, sinks(h, j),
           NEW excepted, Ordered(h, excepted \cup {j}), j \div 2 \in excepted \/ Grand(h, j),
           \A x \in excepted : x \in Nat /\ x < j
    PROVE  /\ target(h, j) \in 1 .. Len(h) /\ j \in 1 .. Len(h) /\ target(h, j) # j /\ target(h, j) > j
           /\ Ordered(exchange(h, j, target(h, j)), excepted \cup {target(h, j)})
           /\ Grand(exchange(h, j, target(h, j)), target(h, j))
<1>0. PICK n \in Nat, t \in Nat : n = Len(h) /\ t = target(h, j)
    BY LenProperties, Targets
<1>1. PICK g : n = Len(h) /\ t = target(h, j) /\ g = exchange(h, j, t)
    BY <1>0
<1>2. j < n /\ t <= n /\ h[j] > h[t]
    BY <1>1 DEF sinks
<1>3. /\ t \div 2 = j /\ t >= 2 /\ t > j
      /\ \A k \in 2 .. n : k \div 2 = j => h[t] <= h[k]
  <2>1. /\ t \in {2 * j, 2 * j + 1} /\ t >= 2 /\ t \div 2 = j
        /\ t <= n => \A k \in 2 .. n : k \div 2 = j => h[t] <= h[k]
    BY <1>1, Targets
  <2>2. t > j
    BY <2>1
  <2> QED
    BY <1>2, <2>1, <2>2
<1>4. j \in 1 .. n /\ t \in 1 .. n /\ j # t
    BY <1>2, <1>3
<1>5. /\ g \in Seq(HeapValues) /\ Len(g) = n /\ g[j] = h[t] /\ g[t] = h[j]
      /\ \A k \in 1 .. n : k # j /\ k # t => g[k] = h[k]
    BY <1>1, <1>4, Exchanged
<1>6. \A k \in 1 .. n : h[k] \in Int
    BY <1>1, ElementOfSeq, CollectionsAssumption
<1>7. h[j] \in Int /\ h[t] \in Int
    BY <1>4, <1>6
<1>8. ASSUME NEW k \in 2 .. n
      PROVE  k \in Nat /\ k \div 2 \in 1 .. n /\ k \div 2 < k /\ k \in 1 .. n
    BY Parents2
<1>9. ASSUME NEW k \in 2 .. n, k \div 2 \notin excepted, k \div 2 # t
      PROVE  g[k \div 2] <= g[k]
  <2>1. CASE k \div 2 = j
    <3>1. CASE k = t
      BY <1>2, <1>5, <1>7, <2>1, <3>1
    <3>2. CASE k # t
      <4>1. k # j /\ k \in 1 .. n
        BY <1>8, <2>1
      <4>2. g[k] = h[k] /\ h[t] <= h[k]
        BY <1>3, <1>5, <2>1, <3>2, <4>1
      <4> QED
        BY <1>5, <2>1, <4>2
    <3> QED
      BY <3>1, <3>2
  <2>2. CASE k = j /\ k \div 2 # j
    <3>1. j \div 2 \in 1 .. n /\ j \div 2 # j /\ j \div 2 # t
      BY <1>8, <1>9, <2>2
    <3>2. g[j \div 2] = h[j \div 2]
      BY <1>5, <3>1
    <3>3. j \div 2 \notin excepted
      BY <1>9, <2>2
    <3>4. Grand(h, j)
      BY <3>3
    <3>5. t \in 2 .. n /\ t \div 2 = j /\ j \div 2 > 0
      BY <1>3, <1>4, <3>1
    <3>6. h[j \div 2] <= h[t]
      BY <1>1, <3>4, <3>5 DEF Grand
    <3> QED
      BY <1>5, <2>2, <3>2, <3>6
  <2>3. CASE k # j /\ k \div 2 # j
    <3>1. k # t
      BY <1>3, <2>3
    <3>2. g[k] = h[k] /\ g[k \div 2] = h[k \div 2]
      BY <1>5, <1>8, <1>9, <2>3, <3>1
    <3>3. k \div 2 \notin excepted \cup {j}
      BY <1>9, <2>3
    <3>4. h[k \div 2] <= h[k]
      BY <1>1, <3>3 DEF Ordered
    <3> QED
      BY <3>2, <3>4
  <2> QED
    BY <2>1, <2>2, <2>3
<1>10. Ordered(g, excepted \cup {t})
    BY <1>5, <1>9 DEF Ordered
<1>11. ASSUME NEW k \in 2 .. n, k \div 2 = t
       PROVE  g[j] <= g[k]
  <2>1. k # t /\ k # j /\ k \in 1 .. n
    BY <1>3, <1>8, <1>11
  <2>2. g[k] = h[k]
    BY <1>5, <2>1
  <2>3. t \notin excepted /\ t # j
    BY <1>3
  <2>4. h[t] <= h[k]
    BY <1>1, <1>11, <2>3 DEF Ordered
  <2> QED
    BY <1>5, <2>2, <2>4
<1>12. Grand(g, t)
    BY <1>3, <1>5, <1>11 DEF Grand
<1> QED
    BY <1>1, <1>3, <1>4, <1>10, <1>12

\* The loop ends where the order is right.
LEMMA Settles ==
    ASSUME NEW h \in Seq(HeapValues), NEW j \in Nat, j > 0, ~ sinks(h, j),
           NEW excepted, Ordered(h, excepted \cup {j})
    PROVE  Ordered(h, excepted)
<1>1. PICK n \in Nat, t \in Nat : n = Len(h) /\ t = target(h, j)
    BY LenProperties, Targets
<1>2. ASSUME NEW k \in 2 .. n, k \div 2 = j
      PROVE  h[j] <= h[k]
  <2>1. t <= n /\ h[t] <= h[k]
    BY <1>1, <1>2, Targets
  <2>2. j < n /\ j \in 1 .. n /\ k \in 1 .. n
    BY <1>2
  <2>3. t \in 1 .. n
    BY <1>1, <2>1, Targets
  <2>4. h[j] \in Int /\ h[t] \in Int /\ h[k] \in Int
    BY <1>1, <2>2, <2>3, ElementOfSeq, CollectionsAssumption
  <2>5. ~ (h[j] > h[t])
    BY <1>1, <2>1, <2>2 DEF sinks
  <2> QED
    BY <2>1, <2>4, <2>5
<1> QED
    BY <1>1, <1>2 DEF Ordered

\* In a heap whose order is right nothing is less than the root.
LEMMA RootLeast ==
    ASSUME NEW h \in Seq(HeapValues), Ordered(h, {})
    PROVE  \A k \in 1 .. Len(h) : h[1] <= h[k]
<1>1. PICK n \in Nat : n = Len(h)
    BY LenProperties
<1>2. \A k \in 1 .. n : h[k] \in Int
    BY <1>1, ElementOfSeq, CollectionsAssumption
<1> DEFINE Bad == {k \in 1 .. n : ~ (h[1] <= h[k])}
<1>3. SUFFICES ASSUME Bad # {}
               PROVE  FALSE
    BY <1>1
<1>4. PICK k \in Bad : \A y \in Bad : k <= y
  <2>1. Bad \subseteq Nat
    OBVIOUS
  <2> HIDE DEF Bad
  <2> QED
    BY <1>3, <2>1, Least
<1>5. k \in 1 .. n /\ ~ (h[1] <= h[k])
    OBVIOUS
<1>6. k # 1 /\ 1 \in 1 .. n
    BY <1>2, <1>5
<1>7. k \in 2 .. n /\ k \div 2 \in 1 .. n /\ k \div 2 < k
    BY <1>5, <1>6, Parents2
<1>8. h[k \div 2] <= h[k]
    BY <1>1, <1>7 DEF Ordered
<1>9. k \div 2 \notin Bad
    BY <1>4, <1>7
<1>10. h[1] <= h[k \div 2]
    BY <1>7, <1>9
<1>11. h[1] \in Int /\ h[k] \in Int /\ h[k \div 2] \in Int
    BY <1>2, <1>5, <1>6, <1>7
<1> QED
    BY <1>5, <1>8, <1>10, <1>11

HeapTypes ==
    /\ heap \in Seq(HeapValues) /\ h_down \in Nat /\ h_up \in Nat /\ h_up <= h_down
    /\ heapIn \in [HeapValues -> Nat]

\* What may be out of order above the element that sinks: where adjust goes on.
Rising == IF changed THEN {h_up \div 2} ELSE {}

HeapInv ==
    /\ HeapTypes
    /\ Ordered(heap, Rising \cup {h_down})
    /\ h_down \div 2 \in Rising \/ Grand(heap, h_down) \/ ~ changed
    /\ \A v \in HeapValues : Count(heap, v) = heapIn[v]
    /\ heapOut[1] = heapOut[2]

LEMMA HeapBegins == HeapInit => HeapInv
<1> SUFFICES ASSUME HeapInit
             PROVE  HeapInv
    OBVIOUS
<1>1. heap \in Seq(HeapValues) /\ Len(heap) = 0
    BY EmptySeq DEF HeapInit
<1>2. HeapTypes
    BY <1>1 DEF HeapInit, HeapTypes
<1>3. Ordered(heap, Rising \cup {h_down})
    BY <1>1 DEF Ordered
<1>4. ~ changed
    BY DEF HeapInit, changed
<1>5. \A v \in HeapValues : Count(heap, v) = heapIn[v]
    BY CountEmpty DEF HeapInit
<1>6. heapOut[1] = heapOut[2]
    BY DEF HeapInit
<1> QED
    BY <1>2, <1>3, <1>4, <1>5, <1>6 DEF HeapInv

\* At rest nothing is excepted.
LEMMA AtRest ==
    ASSUME HeapInv, h_down = 0
    PROVE  h_up = 0 /\ ~ changed /\ Ordered(heap, {})
<1>1. h_up = 0 /\ ~ changed
    BY DEF HeapInv, HeapTypes, changed
<1>2. Ordered(heap, {0})
    BY <1>1 DEF HeapInv, Rising
<1>3. Len(heap) \in Nat
    BY LenProperties DEF HeapInv, HeapTypes
<1>4. \A k \in 2 .. Len(heap) : k \div 2 # 0
    BY <1>3, Parents2
<1> QED
    BY <1>1, <1>2, <1>4 DEF Ordered

LEMMA SinkStep ==
    ASSUME HeapInv, adjustDown
    PROVE  HeapInv'
<1>1. PICK h, j, t, g : h = heap /\ j = h_down /\ t = target(heap, h_down) /\ g = exchange(h, j, t)
    OBVIOUS
<1>2. /\ h \in Seq(HeapValues) /\ j \in Nat /\ j > 0 /\ sinks(h, j) /\ t = target(h, j)
      /\ h_up \in Nat /\ h_up <= j /\ heapIn \in [HeapValues -> Nat]
      /\ heap' = g /\ h_down' = t /\ h_up' = h_up /\ heapIn' = heapIn /\ heapOut' = heapOut
    BY <1>1 DEF HeapInv, HeapTypes, adjustDown
<1>3. PICK up : up = h_up \div 2
    OBVIOUS
<1>4. up \in Nat /\ up <= h_up /\ (h_up > 0 => up < h_up) /\ j \div 2 \in Nat /\ j \div 2 < j
    BY <1>2, <1>3, Halves
<1>5. up < j
    BY <1>2, <1>4
<1> DEFINE E == {up}
<1>6. Ordered(h, E \cup {j}) /\ (j \div 2 \in E \/ Grand(h, j))
  <2>1. Rising \subseteq E
    BY <1>3 DEF Rising
  <2>2. Ordered(h, E \cup {j})
    BY <1>1, <2>1 DEF HeapInv, Ordered
  <2>3. CASE changed
    <3>1. h_down \div 2 \in Rising \/ Grand(heap, h_down)
      BY <2>3 DEF HeapInv
    <3> HIDE DEF E
    <3> QED
      BY <1>1, <2>1, <2>2, <3>1
  <2>4. CASE ~ changed
    <3>1. h_down = h_up
      BY <2>4 DEF changed
    <3>2. j \div 2 = up
      BY <1>1, <1>3, <3>1
    <3> QED
      BY <2>2, <3>2
  <2> QED
    BY <2>3, <2>4
<1>7. \A x \in E : x \in Nat /\ x < j
    BY <1>4, <1>5
<1> HIDE DEF E
<1>8. /\ t \in 1 .. Len(h) /\ j \in 1 .. Len(h) /\ t # j /\ t > j
      /\ Ordered(g, E \cup {t}) /\ Grand(g, t)
    BY <1>1, <1>2, <1>6, <1>7, Sinks
<1>9. g \in Seq(HeapValues) /\ \A v : Count(g, v) = Count(h, v)
    BY <1>1, <1>2, <1>8, Exchanged
<1>10. Len(h) \in Nat
    BY <1>2, LenProperties
<1>11. changed' /\ t \in Nat /\ h_up <= t
    BY <1>2, <1>8, <1>10 DEF changed
<1>12. Rising' = E
    BY <1>2, <1>3, <1>11 DEF Rising, E
<1>13. HeapTypes'
    BY <1>2, <1>9, <1>11 DEF HeapTypes
<1>14. \A v \in HeapValues : Count(g, v) = heapIn[v]
    BY <1>1, <1>9 DEF HeapInv
<1> QED
    BY <1>2, <1>8, <1>12, <1>13, <1>14 DEF HeapInv

LEMMA AdjustStep ==
    ASSUME HeapInv, adjust
    PROVE  HeapInv'
<1>1. /\ heap \in Seq(HeapValues) /\ h_down \in Nat /\ h_down > 0 /\ ~ sinks(heap, h_down)
      /\ Ordered(heap, Rising \cup {h_down})
    BY DEF HeapInv, HeapTypes, adjust
<1>2. Ordered(heap, Rising)
    BY <1>1, Settles
<1>3. PICK up : up = h_up'
    OBVIOUS
<1>4. up = (IF changed THEN h_up \div 2 ELSE 0) /\ h_down' = up
    BY <1>3 DEF adjust
<1>5. up \in Nat
    BY <1>4, Halves DEF HeapInv, HeapTypes
<1>6. ~ changed' /\ Rising' = {}
    BY <1>3, <1>4 DEF changed, Rising
<1>7. Rising \subseteq {up}
    BY <1>4 DEF Rising
<1>8. Ordered(heap, {up})
    BY <1>2, <1>7 DEF Ordered
<1>9. Ordered(heap', Rising' \cup {h_down'})
    BY <1>4, <1>6, <1>8 DEF adjust
<1>10. HeapTypes'
    BY <1>3, <1>4, <1>5 DEF adjust, HeapTypes, HeapInv
<1>11. \A v \in HeapValues : Count(heap', v) = heapIn'[v]
    BY DEF adjust, HeapInv
<1>12. heapOut'[1] = heapOut'[2]
    BY DEF adjust, HeapInv
<1> QED
    BY <1>6, <1>9, <1>10, <1>11, <1>12 DEF HeapInv

LEMMA PushStep ==
    ASSUME HeapInv, NEW v \in HeapValues, heapPush(v)
    PROVE  HeapInv'
<1>1. PICK h, g, n, up : h = heap /\ g = Append(h, v) /\ n = Len(h) /\ up = (n + 1) \div 2
    OBVIOUS
<1>2. h \in Seq(HeapValues) /\ n \in Nat /\ heapIn \in [HeapValues -> Nat]
    BY <1>1, LenProperties DEF HeapInv, HeapTypes
<1>3. /\ heap' = g /\ h_up' = up /\ h_down' = up
      /\ heapIn' = [heapIn EXCEPT ![v] = @ + 1] /\ heapOut' = heapOut
    BY <1>1 DEF heapPush
<1>4. Ordered(h, {})
    BY <1>1, AtRest DEF heapPush
<1>5. /\ g \in Seq(HeapValues) /\ Len(g) = n + 1 /\ \A i \in 1 .. n : g[i] = h[i]
    BY <1>1, <1>2, AppendProperties
<1>6. up \in Nat
    BY <1>1, <1>2, Halves
<1>7. ~ changed' /\ Rising' = {}
    BY <1>3 DEF changed, Rising
<1>8. ASSUME NEW k \in 2 .. n + 1, k \div 2 # up
      PROVE  g[k \div 2] <= g[k]
  <2>1. k # n + 1
    BY <1>1, <1>8
  <2>2. k \in 2 .. n /\ k \in 1 .. n
    BY <1>2, <2>1
  <2>3. k \div 2 \in 1 .. n
    BY <1>2, <2>2, Parents2
  <2>4. h[k \div 2] <= h[k]
    BY <1>1, <1>4, <2>2 DEF Ordered
  <2> QED
    BY <1>5, <2>2, <2>3, <2>4
<1>9. Ordered(g, {up})
    BY <1>5, <1>8 DEF Ordered
<1>10. Ordered(heap', Rising' \cup {h_down'})
    BY <1>3, <1>7, <1>9
<1>11. HeapTypes'
    BY <1>2, <1>3, <1>5, <1>6 DEF HeapTypes
<1>12. ASSUME NEW w \in HeapValues
       PROVE  Count(g, w) = heapIn'[w]
  <2>1. Count(g, w) = Count(h, w) + IF v = w THEN 1 ELSE 0
    BY <1>1, <1>2, CountAppend
  <2>2. Count(h, w) = heapIn[w] /\ heapIn[w] \in Nat
    BY <1>1, <1>2 DEF HeapInv
  <2>3. heapIn'[w] = IF v = w THEN heapIn[w] + 1 ELSE heapIn[w]
    BY <1>2, <1>3
  <2> QED
    BY <2>1, <2>2, <2>3
<1>13. heapOut'[1] = heapOut'[2]
    BY <1>3 DEF HeapInv
<1> QED
    BY <1>3, <1>7, <1>10, <1>11, <1>12, <1>13 DEF HeapInv

\* The root leaves and the last one takes its place.
LEMMA Popped ==
    ASSUME NEW h \in Seq(HeapValues), h # <<>>
    PROVE  /\ Front([h EXCEPT ![1] = Last(h)]) \in Seq(HeapValues)
           /\ Len(Front([h EXCEPT ![1] = Last(h)])) = Len(h) - 1
           /\ \A k \in 2 .. Len(h) - 1 : Front([h EXCEPT ![1] = Last(h)])[k] = h[k]
           /\ \A v : Count(h, v) = Count(Front([h EXCEPT ![1] = Last(h)]), v)
                                     + IF h[1] = v THEN 1 ELSE 0
<1>0. PICK n \in Nat : n = Len(h)
    BY LenProperties
<1>1. PICK e, g : n = Len(h) /\ e = [h EXCEPT ![1] = h[n]] /\ g = SubSeq(e, 1, n - 1)
    BY <1>0
<1>2. n \in Nat \ {0}
    BY <1>1, EmptySeq
<1>3. 1 \in 1 .. n /\ n \in 1 .. n /\ h[n] \in HeapValues /\ h[1] \in HeapValues
    BY <1>1, <1>2, ElementOfSeq
<1>4. /\ e \in Seq(HeapValues) /\ Len(e) = n
      /\ \A k \in 1 .. n : e[k] = IF k = 1 THEN h[n] ELSE h[k]
    BY <1>1, <1>3, ExceptSeq
<1>5. g = Front([h EXCEPT ![1] = Last(h)])
    BY <1>1, <1>4 DEF Front, Last
<1>6. 1 \in Int /\ n - 1 \in Int /\ \A k \in 1 .. n - 1 : e[k] \in HeapValues
    BY <1>2, <1>4, ElementOfSeq
<1>7. /\ g \in Seq(HeapValues) /\ Len(g) = IF 1 <= n - 1 THEN (n - 1) - 1 + 1 ELSE 0
      /\ \A k \in 1 .. (n - 1) - 1 + 1 : g[k] = e[1 + k - 1]
    BY ONLY <1>1, <1>6, SubSeqProperties
<1>8. Len(g) = n - 1 /\ \A k \in 1 .. n - 1 : g[k] = e[k]
    BY <1>2, <1>7
<1>9. \A k \in 2 .. n - 1 : g[k] = h[k]
    BY <1>4, <1>8
<1>10. ASSUME NEW v
       PROVE  Count(h, v) = Count(g, v) + IF h[1] = v THEN 1 ELSE 0
  <2>1. PICK z : z = Append(g, h[1])
    OBVIOUS
  <2>2. /\ z \in Seq(HeapValues) /\ Len(z) = n
        /\ (\A k \in 1 .. n - 1 : z[k] = g[k]) /\ z[n] = h[1]
    <3>1. /\ z \in Seq(HeapValues) /\ Len(z) = Len(g) + 1
          /\ (\A k \in 1 .. Len(g) : z[k] = g[k]) /\ z[Len(g) + 1] = h[1]
      BY <1>3, <1>7, <2>1, AppendProperties
    <3>2. (n - 1) + 1 = n
      BY <1>2
    <3> QED
      BY <1>8, <3>1, <3>2
  <2>3. Count(z, v) = Count(g, v) + IF h[1] = v THEN 1 ELSE 0
    BY <1>3, <1>7, <2>1, CountAppend
  <2>4. Count(z, v) = Count(h, v)
    <3>1. CASE n = 1
      <4>1. z[1] = h[1]
        BY <2>2, <3>1
      <4>2. \A k \in 1 .. Len(z) : z[k] = h[k]
        BY <2>2, <3>1, <4>1
      <4>3. z = h
        BY <1>1, <2>2, <4>2, SeqEqual
      <4> QED
        BY <4>3
    <3>2. CASE n # 1
      <4>0. PICK a \in 1 .. Len(h), b \in 1 .. Len(h) : a = 1 /\ b = n /\ a # b
        BY <1>1, <1>3, <3>2
      <4>1. PICK x : a = 1 /\ b = n /\ a # b /\ x = exchange(h, a, b)
        BY <4>0
      <4>2. /\ x \in Seq(HeapValues) /\ Len(x) = n /\ x[1] = h[n] /\ x[n] = h[1]
            /\ (\A k \in 1 .. n : k # 1 /\ k # n => x[k] = h[k]) /\ Count(x, v) = Count(h, v)
        <5>1. a # b /\ x = exchange(h, a, b)
          BY <4>1
        <5>2. x \in Seq(HeapValues) /\ Len(x) = Len(h) /\ \A w : Count(x, w) = Count(h, w)
          BY <5>1, Exchanged
        <5>3. /\ x[a] = h[b] /\ x[b] = h[a]
              /\ \A k \in 1 .. Len(h) : k # a /\ k # b => x[k] = h[k]
          BY <5>1, Exchanged
        <5> QED
          BY <1>1, <4>1, <5>2, <5>3
      <4>3. \A k \in 1 .. n : z[k] = x[k]
        <5>1. ASSUME NEW k \in 1 .. n, k # n
              PROVE  z[k] = x[k]
          <6>1. k \in 1 .. n - 1
            BY <1>2, <5>1
          <6>2. z[k] = IF k = 1 THEN h[n] ELSE h[k]
            BY <1>4, <1>8, <2>2, <6>1
          <6> QED
            BY <4>2, <5>1, <6>2
        <5> QED
          BY <2>2, <4>2, <5>1
      <4>4. z = x
        BY <2>2, <4>2, <4>3, SeqEqual
      <4> QED
        BY <4>2, <4>4
    <3> QED
      BY <3>1, <3>2
  <2> QED
    BY <2>3, <2>4
<1> QED
    BY <1>1, <1>5, <1>7, <1>8, <1>9, <1>10

LEMMA PopStep ==
    ASSUME HeapInv, heapPop
    PROVE  HeapInv'
<1>1. PICK h, g, n : h = heap /\ g = Front([h EXCEPT ![1] = Last(h)]) /\ n = Len(h)
    OBVIOUS
<1>2. h \in Seq(HeapValues) /\ h # <<>> /\ n \in Nat /\ heapIn \in [HeapValues -> Nat]
    BY <1>1, LenProperties DEF HeapInv, HeapTypes, heapPop
<1>3. /\ heap' = g /\ h_down' = 1 /\ h_up' = h_up
      /\ heapIn' = [heapIn EXCEPT ![h[1]] = @ - 1]
      /\ heapOut' = <<h[1], Min({v \in HeapValues : heapIn[v] > 0})>>
    BY <1>1 DEF heapPop
<1>4. h_up = 0 /\ Ordered(h, {})
    BY <1>1, AtRest DEF heapPop
<1>5. /\ g \in Seq(HeapValues) /\ Len(g) = n - 1 /\ \A k \in 2 .. n - 1 : g[k] = h[k]
      /\ \A v : Count(h, v) = Count(g, v) + IF h[1] = v THEN 1 ELSE 0
    BY <1>1, <1>2, Popped
<1>6. n > 0 /\ 1 \in 1 .. n
    BY <1>1, <1>2, EmptySeq
<1>7. h[1] \in HeapValues
    BY <1>1, <1>2, <1>6, ElementOfSeq
<1>8. ASSUME NEW k \in 2 .. n - 1, k \div 2 # 1
      PROVE  g[k \div 2] <= g[k]
  <2>1. k \in 2 .. n /\ k \in Nat
    BY <1>2
  <2>2. k \div 2 \in 2 .. n - 1
    BY <1>2, <1>8, Parents2
  <2>3. h[k \div 2] <= h[k]
    BY <1>1, <1>4, <2>1 DEF Ordered
  <2> QED
    BY <1>5, <2>2, <2>3
<1>9. Ordered(g, {0, 1})
    BY <1>5, <1>8 DEF Ordered
<1>10. changed' /\ Rising' = {0}
    BY <1>3, <1>4 DEF changed, Rising
<1>11. Ordered(heap', Rising' \cup {h_down'})
    BY <1>3, <1>9, <1>10 DEF Ordered
<1>12. h_down' \div 2 \in Rising'
    BY <1>3, <1>10
<1>13. ASSUME NEW w \in HeapValues
       PROVE  Count(g, w) = heapIn'[w] /\ heapIn'[w] \in Nat /\ (Count(h, w) > 0 <=> heapIn[w] > 0)
  <2>1. Count(h, w) = Count(g, w) + IF h[1] = w THEN 1 ELSE 0
    BY <1>5
  <2>2. Count(h, w) = heapIn[w] /\ Count(g, w) \in Nat
    BY <1>1, <1>5, EntriesFinite DEF HeapInv
  <2>3. heapIn'[w] = IF h[1] = w THEN heapIn[w] - 1 ELSE heapIn[w]
    BY <1>2, <1>3
  <2>4. heapIn[w] \in Nat
    BY <1>2
  <2> QED
    BY <2>1, <2>2, <2>3, <2>4
<1>14. heapIn' \in [HeapValues -> Nat]
    BY <1>2, <1>3, <1>13
<1>15. HeapTypes'
    BY <1>3, <1>4, <1>5, <1>14 DEF HeapTypes
<1>16. h[1] = Min({v \in HeapValues : heapIn[v] > 0})
  <2> DEFINE M == {v \in HeapValues : heapIn[v] > 0}
  <2>1. \A v \in HeapValues : v \in M <=> \E k \in 1 .. n : h[k] = v
    BY <1>1, <1>2, <1>13, CountPositive
  <2>2. h[1] \in M
    BY <1>6, <1>7, <2>1
  <2>3. \A v \in M : h[1] <= v
    BY <1>1, <1>2, <1>4, <2>1, RootLeast
  <2>4. M \subseteq Int
    BY CollectionsAssumption
  <2>5. ASSUME NEW x \in M, \A y \in M : x <= y
        PROVE  x = h[1]
    <3>1. x <= h[1] /\ h[1] <= x /\ x \in Int /\ h[1] \in Int
      BY <2>2, <2>3, <2>4, <2>5
    <3> QED
      BY <3>1
  <2> HIDE DEF M
  <2>6. h[1] = Min(M)
    BY <2>2, <2>3, <2>5 DEF Min
  <2> QED
    BY <2>6 DEF M
<1>17. heapOut'[1] = heapOut'[2]
    BY <1>3, <1>16
<1> QED
    BY <1>3, <1>11, <1>12, <1>13, <1>15, <1>17 DEF HeapInv

LEMMA HeapStep == HeapInv /\ [HeapNext]_heapVars => HeapInv'
<1> SUFFICES ASSUME HeapInv, [HeapNext]_heapVars
             PROVE  HeapInv'
    OBVIOUS
<1>1. CASE UNCHANGED heapVars
    BY <1>1 DEF heapVars, HeapInv, HeapTypes, Rising, changed, Ordered, Grand, Count, Entries
<1> QED
    BY <1>1, SinkStep, AdjustStep, PushStep, PopStep DEF HeapNext

LEMMA HeapShows == HeapInv => PopsLeast
BY DEF HeapInv, PopsLeast, Count, Entries

---------------------------------------------------------------------------------
(* base/Array.h.                                                            *)

LEMMA ElementsRemoveAt ==
    ASSUME NEW S, NEW s \in Seq(S), NEW m \in 1 .. Len(s)
    PROVE  /\ RemoveAt(s, m) \in Seq(S) /\ Len(RemoveAt(s, m)) = Len(s) - 1
           /\ \A k \in 1 .. Len(s) - 1 : RemoveAt(s, m)[k] = IF k < m THEN s[k] ELSE s[k + 1]
<1>1. PICK n \in Nat : n = Len(s)
    BY LenProperties
<1>2. \A i \in 1 .. n : s[i] \in S
    BY <1>1, ElementOfSeq
<1>0. PICK low \in Int, up \in Int : low = m - 1 /\ up = m + 1
    BY <1>1
<1>3. PICK u, v : u = SubSeq(s, 1, low) /\ v = SubSeq(s, up, n)
    OBVIOUS
<1>4. u \in Seq(S) /\ Len(u) = m - 1 /\ \A i \in 1 .. m - 1 : u[i] = s[i]
  <2>1. 1 \in Int /\ \A i \in 1 .. low : s[i] \in S
    BY <1>0, <1>1, <1>2
  <2>2. /\ u \in Seq(S) /\ Len(u) = (IF 1 <= low THEN low - 1 + 1 ELSE 0)
        /\ \A i \in 1 .. low - 1 + 1 : u[i] = s[1 + i - 1]
    BY ONLY low \in Int, <1>3, <2>1, SubSeqProperties
  <2>3. low - 1 + 1 = m - 1
    BY <1>0
  <2>4. Len(u) = m - 1
    BY <1>0, <2>2
  <2>5. ASSUME NEW i \in 1 .. m - 1
        PROVE  u[i] = s[i]
    <3>1. i \in 1 .. low - 1 + 1 /\ 1 + i - 1 = i
      BY <2>3
    <3>2. u[i] = s[1 + i - 1]
      BY <2>2, <3>1
    <3> QED
      BY <3>1, <3>2
  <2> QED
    BY <2>2, <2>4, <2>5
<1>5. v \in Seq(S) /\ Len(v) = n - m /\ \A i \in 1 .. n - m : v[i] = s[m + i]
  <2>1. n \in Int /\ \A i \in up .. n : s[i] \in S
    BY <1>0, <1>1, <1>2
  <2>2. /\ v \in Seq(S) /\ Len(v) = (IF up <= n THEN n - up + 1 ELSE 0)
        /\ \A i \in 1 .. n - up + 1 : v[i] = s[up + i - 1]
    BY ONLY up \in Int, <1>3, <2>1, SubSeqProperties
  <2>3. n - up + 1 = n - m
    BY <1>0, <1>1
  <2>4. Len(v) = n - m
    BY <1>0, <1>1, <2>2
  <2>5. ASSUME NEW i \in 1 .. n - m
        PROVE  v[i] = s[m + i]
    <3>1. i \in 1 .. n - up + 1 /\ up + i - 1 = m + i
      BY <1>0, <1>1
    <3>2. v[i] = s[up + i - 1]
      BY <2>2, <3>1
    <3> QED
      BY <3>1, <3>2
  <2> QED
    BY <2>2, <2>4, <2>5
<1>6. PICK t : t = u \o v
    OBVIOUS
<1>7. /\ t \in Seq(S) /\ Len(t) = Len(u) + Len(v)
      /\ \A i \in 1 .. Len(u) + Len(v) : t[i] = IF i <= Len(u) THEN u[i] ELSE v[i - Len(u)]
    BY ONLY <1>4, <1>5, <1>6, ConcatProperties
<1>8. Len(u) + Len(v) = n - 1
    BY <1>1, <1>4, <1>5
<1>9. ASSUME NEW k \in 1 .. n - 1
      PROVE  t[k] = IF k < m THEN s[k] ELSE s[k + 1]
  <2>1. t[k] = IF k <= m - 1 THEN u[k] ELSE v[k - (m - 1)]
    BY <1>4, <1>7, <1>8
  <2>2. CASE k < m
    <3>1. k \in 1 .. m - 1 /\ k <= m - 1
      BY <2>2
    <3> QED
      BY <1>4, <2>1, <2>2, <3>1
  <2>3. CASE ~ (k < m)
    <3>1. k - (m - 1) \in 1 .. n - m /\ m + (k - (m - 1)) = k + 1 /\ ~ (k <= m - 1)
      BY <1>1, <2>3
    <3>2. v[k - (m - 1)] = s[m + (k - (m - 1))]
      BY <1>5, <3>1
    <3> QED
      BY <2>1, <2>3, <3>1, <3>2
  <2> QED
    BY <2>2, <2>3
<1>10. t = RemoveAt(s, m)
    BY <1>0, <1>1, <1>3, <1>6 DEF RemoveAt
<1> QED
    BY <1>1, <1>7, <1>8, <1>9, <1>10

Following(s, k) == IF k < Len(s) THEN s[k + 1] ELSE -1
Preceding(s, k) == IF k > 1 THEN s[k - 1] ELSE -1

Distinct(s) == \A k, l \in 1 .. Len(s) : s[k] = s[l] => k = l

\* The items link exactly the indices of s, in its order.
Linked(items, s) ==
    /\ \A k \in 1 .. Len(s) : items[s[k]] = [next |-> Following(s, k), prev |-> Preceding(s, k)]
    /\ \A i \in Indices : (\A k \in 1 .. Len(s) : s[k] # i) => items[i] = NotFilled

ArrayInv ==
    /\ a_items \in [Indices -> [next : Int, prev : Int]] /\ a_order \in Seq(Indices)
    /\ Distinct(a_order) /\ Linked(a_items, a_order)
    /\ a_head = (IF a_order = <<>> THEN -1 ELSE a_order[1])
    /\ a_tail = (IF a_order = <<>> THEN -1 ELSE a_order[Len(a_order)])
    /\ a_count = Len(a_order)

LEMMA ArrayBegins == ArrayInit => ArrayInv
<1> SUFFICES ASSUME ArrayInit
             PROVE  ArrayInv
    OBVIOUS
<1>1. a_order = <<>> /\ a_order \in Seq(Indices) /\ Len(a_order) = 0
    BY EmptySeq DEF ArrayInit
<1>2. NotFilled \in [next : Int, prev : Int]
    BY DEF NotFilled
<1> QED
    BY <1>1, <1>2 DEF ArrayInit, ArrayInv, Distinct, Linked

\* No filled item has both links 0: the indices before and after it differ.
LEMMA FilledItems ==
    ASSUME ArrayInv, NEW i \in Indices
    PROVE  ~ itemEmpty(i) <=> \E k \in 1 .. Len(a_order) : a_order[k] = i
<1>1. PICK s, n : s = a_order /\ n = Len(s)
    OBVIOUS
<1>2. s \in Seq(Indices) /\ n \in Nat /\ Distinct(s) /\ Linked(a_items, s)
    BY <1>1, LenProperties DEF ArrayInv
<1>3. ASSUME NEW k \in 1 .. n, s[k] = i, itemEmpty(i)
      PROVE  FALSE
  <2>1. [next |-> Following(s, k), prev |-> Preceding(s, k)] = [next |-> 0, prev |-> 0]
    BY <1>1, <1>2, <1>3 DEF Linked, itemEmpty, NotFilled
  <2>2. Following(s, k) = 0 /\ Preceding(s, k) = 0
    BY <2>1
  <2>3. k < n /\ k > 1 /\ s[k + 1] = 0 /\ s[k - 1] = 0
    BY <1>1, <2>2 DEF Following, Preceding
  <2>4. k + 1 \in 1 .. n /\ k - 1 \in 1 .. n /\ k + 1 # k - 1
    BY <1>2, <2>3
  <2> QED
    BY <1>1, <1>2, <2>3, <2>4 DEF Distinct
<1>4. ASSUME \A k \in 1 .. n : s[k] # i
      PROVE  itemEmpty(i)
    BY <1>1, <1>2, <1>4 DEF Linked, itemEmpty
<1> QED
    BY <1>1, <1>3, <1>4

LEMMA SetStep ==
    ASSUME ArrayInv, NEW i \in Indices, arraySet(i)
    PROVE  ArrayInv'
<1>1. PICK s, t, n : s = a_order /\ n = Len(s) /\ t = Append(s, i)
    OBVIOUS
<1>2. /\ s \in Seq(Indices) /\ n \in Nat /\ Distinct(s) /\ Linked(a_items, s)
      /\ a_items \in [Indices -> [next : Int, prev : Int]]
      /\ \A k \in 1 .. n : s[k] \in Indices
    BY <1>1, LenProperties, ElementOfSeq DEF ArrayInv
<1>3. /\ t \in Seq(Indices) /\ Len(t) = n + 1 /\ t[n + 1] = i /\ t # <<>>
      /\ \A k \in 1 .. n : t[k] = s[k]
    BY <1>1, <1>2, AppendProperties
<1>4. \A k \in 1 .. n : s[k] # i
    BY <1>1, FilledItems DEF arraySet
<1>5. n = 0 <=> s = <<>>
    BY <1>1, <1>2, EmptySeq
<1>6. a_tail = IF n = 0 THEN -1 ELSE s[n]
    BY <1>1, <1>5 DEF ArrayInv
<1>7. a_head = IF n = 0 THEN -1 ELSE s[1]
    BY <1>1, <1>5 DEF ArrayInv
<1>8. Indices \subseteq Int /\ -1 \notin Indices
    BY CollectionsAssumption DEF Indices
<1>9. PICK its : its = a_items'
    OBVIOUS
<1>10. ASSUME NEW j \in Indices
       PROVE  its[j] = IF j = i THEN [next |-> -1, prev |-> a_tail]
                       ELSE IF j = a_tail THEN [a_items[j] EXCEPT !.next = i] ELSE a_items[j]
  <2>1. i # a_tail
    <3>1. n # 0 => n \in 1 .. n
      BY <1>2
    <3> QED
      BY <1>4, <1>6, <1>8, <3>1
  <2> QED
    BY <1>9, <2>1 DEF arraySet
<1>11. a_tail \in Int /\ i \in Int
    BY <1>2, <1>6, <1>8
<1>12. its \in [Indices -> [next : Int, prev : Int]]
  <2>1. its = [j \in Indices |-> its[j]]
    BY <1>9 DEF arraySet
  <2>2. ASSUME NEW j \in Indices
        PROVE  its[j] \in [next : Int, prev : Int]
    <3>1. PICK r \in [next : Int, prev : Int] : r = a_items[j]
      BY <1>2
    <3>2. /\ [next |-> -1, prev |-> a_tail] \in [next : Int, prev : Int]
          /\ [r EXCEPT !.next = i] \in [next : Int, prev : Int]
      BY <1>11
    <3> QED
      BY <1>10, <3>1, <3>2
  <2> QED
    BY <2>1, <2>2
<1>13. Distinct(t)
    BY <1>2, <1>3, <1>4, <1>1 DEF Distinct
<1>14. ASSUME NEW k \in 1 .. n + 1
       PROVE  its[t[k]] = [next |-> Following(t, k), prev |-> Preceding(t, k)]
  <2>1. CASE k = n + 1
    <3>1. Following(t, k) = -1
      BY <1>3, <2>1 DEF Following
    <3>2. Preceding(t, k) = a_tail
      <4>1. CASE n = 0
        BY <1>6, <2>1, <4>1 DEF Preceding
      <4>2. CASE n # 0
        <5>1. k - 1 = n /\ n \in 1 .. n /\ k > 1
          BY <1>2, <2>1, <4>2
        <5> QED
          BY <1>3, <1>6, <4>2, <5>1 DEF Preceding
      <4> QED
        BY <4>1, <4>2
    <3> QED
      BY <1>3, <1>10, <2>1, <3>1, <3>2
  <2>2. CASE k # n + 1
    <3>1. k \in 1 .. n /\ k \in Nat
      BY <1>2, <2>2
    <3>2. /\ a_items[s[k]] = [next |-> Following(s, k), prev |-> Preceding(s, k)]
          /\ s[k] \in Indices /\ s[k] # i /\ t[k] = s[k]
      BY <1>1, <1>2, <1>3, <1>4, <3>1 DEF Linked
    <3>3. Preceding(t, k) = Preceding(s, k)
      <4>1. k > 1 => k - 1 \in 1 .. n
        BY <1>2, <3>1
      <4> QED
        BY <1>3, <4>1 DEF Preceding
    <3>4. CASE k = n
      <4>1. Following(t, k) = i
        BY <1>2, <1>3, <3>4 DEF Following
      <4>2. s[k] = a_tail
        BY <1>6, <3>1, <3>4
      <4> QED
        BY <1>10, <3>2, <3>3, <4>1, <4>2
    <3>5. CASE k # n
      <4>1. k < n /\ k + 1 \in 1 .. n /\ k < n + 1 /\ n \in 1 .. n
        BY <1>2, <3>1, <3>5
      <4>2. Following(t, k) = Following(s, k)
        BY <1>1, <1>3, <4>1 DEF Following
      <4>3. s[k] # a_tail
        BY <1>1, <1>2, <1>6, <3>1, <3>5, <4>1 DEF Distinct
      <4> QED
        BY <1>10, <3>2, <3>3, <4>2, <4>3
    <3> QED
      BY <3>4, <3>5
  <2> QED
    BY <2>1, <2>2
<1>15. ASSUME NEW j \in Indices, \A k \in 1 .. n + 1 : t[k] # j
       PROVE  its[j] = NotFilled
  <2>1. j # i
    BY <1>2, <1>3, <1>15
  <2>2. \A k \in 1 .. n : s[k] # j
    BY <1>2, <1>3, <1>15
  <2>3. j # a_tail
    BY <1>2, <1>6, <1>8, <2>2
  <2> QED
    BY <1>1, <1>2, <1>10, <2>1, <2>2, <2>3 DEF Linked
<1>16. Linked(its, t)
    BY <1>3, <1>14, <1>15 DEF Linked
<1>17. a_head' = t[1]
  <2>1. CASE n = 0
    BY <1>3, <1>7, <2>1 DEF arraySet
  <2>2. CASE n # 0
    <3>1. 1 \in 1 .. n
      BY <1>2, <2>2
    <3>2. a_head \in Indices /\ t[1] = a_head
      BY <1>2, <1>3, <1>7, <2>2, <3>1
    <3> QED
      BY <1>8, <3>2 DEF arraySet
  <2> QED
    BY <2>1, <2>2
<1>18. a_order' = t /\ a_tail' = t[n + 1] /\ a_count' = n + 1
    BY <1>1, <1>3 DEF arraySet, ArrayInv
<1> QED
    BY <1>3, <1>9, <1>12, <1>13, <1>16, <1>17, <1>18 DEF ArrayInv

\* The neighbours of an item close up.
Removed(s, n, m, t) ==
    \A k \in 1 .. n - 1 : \A o : o = (IF k < m THEN k ELSE k + 1) =>
        /\ o \in 1 .. n /\ o # m /\ t[k] = s[o]
        /\ Following(t, k) = IF o = m - 1 THEN Following(s, m) ELSE Following(s, o)
        /\ Preceding(t, k) = IF o = m + 1 THEN Preceding(s, m) ELSE Preceding(s, o)

LEMMA Closed ==
    ASSUME NEW s \in Seq(Indices), NEW n \in Nat, n = Len(s), Distinct(s), NEW m \in 1 .. n,
           NEW t \in Seq(Indices), Len(t) = n - 1,
           \A k \in 1 .. n - 1 : t[k] = IF k < m THEN s[k] ELSE s[k + 1]
    PROVE  /\ Distinct(t) /\ Removed(s, n, m, t)
           /\ \A o \in 1 .. n : o # m => \E k \in 1 .. n - 1 : t[k] = s[o]
<1>1. ASSUME NEW k \in 1 .. n - 1, NEW o, o = IF k < m THEN k ELSE k + 1
      PROVE  o \in 1 .. n /\ o # m /\ t[k] = s[o]
    BY <1>1
<1>2. Distinct(t)
  <2>1. ASSUME NEW k \in 1 .. n - 1, NEW l \in 1 .. n - 1, t[k] = t[l]
        PROVE  k = l
    <3>1. PICK a, b : a = (IF k < m THEN k ELSE k + 1) /\ b = (IF l < m THEN l ELSE l + 1)
      OBVIOUS
    <3>2. a \in 1 .. n /\ b \in 1 .. n /\ t[k] = s[a] /\ t[l] = s[b]
      BY <1>1, <3>1
    <3>3. a = b
      BY <2>1, <3>2 DEF Distinct
    <3> QED
      BY <3>1, <3>3
  <2> QED
    BY <2>1 DEF Distinct
<1>3. ASSUME NEW k \in 1 .. n - 1, NEW o, o = IF k < m THEN k ELSE k + 1
      PROVE  Following(t, k) = IF o = m - 1 THEN Following(s, m) ELSE Following(s, o)
  <2>1. CASE k = n - 1
    <3>1. Following(t, k) = -1
      BY <2>1 DEF Following
    <3>2. CASE o = m - 1
      <4>1. m = n
        BY <1>3, <2>1, <3>2
      <4> QED
        BY <3>1, <3>2, <4>1 DEF Following
    <3>3. CASE o # m - 1
      <4>1. o = n
        BY <1>3, <2>1, <3>3
      <4> QED
        BY <3>1, <3>3, <4>1 DEF Following
    <3> QED
      BY <3>2, <3>3
  <2>2. CASE k # n - 1
    <3>1. k < n - 1 /\ k + 1 \in 1 .. n - 1
      BY <2>2
    <3>2. Following(t, k) = t[k + 1]
      BY <3>1 DEF Following
    <3>3. t[k + 1] = IF k + 1 < m THEN s[k + 1] ELSE s[(k + 1) + 1]
      BY <3>1
    <3>4. CASE o = m - 1
      <4>1. k + 1 = m /\ m < n /\ ~ (k + 1 < m) /\ (k + 1) + 1 = m + 1
        BY <1>3, <3>1, <3>4
      <4> QED
        BY <3>2, <3>3, <3>4, <4>1 DEF Following
    <3>5. CASE o # m - 1
      <4>1. o < n /\ t[k + 1] = s[o + 1]
        <5>1. CASE k < m
          <6>1. o = k /\ k + 1 < m
            BY <1>3, <3>5, <5>1
          <6> QED
            BY <3>1, <3>3, <6>1
        <5>2. CASE ~ (k < m)
          <6>1. o = k + 1 /\ ~ (k + 1 < m)
            BY <1>3, <5>2
          <6> QED
            BY <3>1, <3>3, <6>1
        <5> QED
          BY <5>1, <5>2
      <4> QED
        BY <3>2, <3>5, <4>1 DEF Following
    <3> QED
      BY <3>4, <3>5
  <2> QED
    BY <2>1, <2>2
<1>4. ASSUME NEW k \in 1 .. n - 1, NEW o, o = IF k < m THEN k ELSE k + 1
      PROVE  Preceding(t, k) = IF o = m + 1 THEN Preceding(s, m) ELSE Preceding(s, o)
  <2>1. CASE k = 1
    <3>1. Preceding(t, k) = -1
      BY <2>1 DEF Preceding
    <3>2. CASE o = m + 1
      <4>1. m = 1
        BY <1>4, <2>1, <3>2
      <4> QED
        BY <3>1, <3>2, <4>1 DEF Preceding
    <3>3. CASE o # m + 1
      <4>1. o = 1
        BY <1>4, <2>1, <3>3
      <4> QED
        BY <3>1, <3>3, <4>1 DEF Preceding
    <3> QED
      BY <3>2, <3>3
  <2>2. CASE k # 1
    <3>1. k > 1 /\ k - 1 \in 1 .. n - 1
      BY <2>2
    <3>2. Preceding(t, k) = t[k - 1]
      BY <3>1 DEF Preceding
    <3>3. t[k - 1] = IF k - 1 < m THEN s[k - 1] ELSE s[(k - 1) + 1]
      BY <3>1
    <3>4. CASE o = m + 1
      <4>1. k = m /\ m > 1 /\ k - 1 < m
        BY <1>4, <3>1, <3>4
      <4> QED
        BY <3>2, <3>3, <3>4, <4>1 DEF Preceding
    <3>5. CASE o # m + 1
      <4>1. o > 1 /\ t[k - 1] = s[o - 1]
        <5>1. CASE k < m
          <6>1. o = k /\ k - 1 < m
            BY <1>4, <5>1
          <6> QED
            BY <3>1, <3>3, <6>1
        <5>2. CASE ~ (k < m)
          <6>1. o = k + 1 /\ ~ (k - 1 < m) /\ (k - 1) + 1 = o - 1
            BY <1>4, <3>5, <5>2
          <6> QED
            BY <3>1, <3>3, <6>1
        <5> QED
          BY <5>1, <5>2
      <4> QED
        BY <3>2, <3>5, <4>1 DEF Preceding
    <3> QED
      BY <3>4, <3>5
  <2> QED
    BY <2>1, <2>2
<1>5. ASSUME NEW o \in 1 .. n, o # m
      PROVE  \E k \in 1 .. n - 1 : t[k] = s[o]
  <2>1. CASE o < m
    <3>1. o \in 1 .. n - 1
      BY <2>1
    <3> QED
      BY <2>1, <3>1
  <2>2. CASE ~ (o < m)
    <3>1. o - 1 \in 1 .. n - 1 /\ ~ (o - 1 < m) /\ (o - 1) + 1 = o
      BY <1>5, <2>2
    <3> QED
      BY <3>1
  <2> QED
    BY <2>1, <2>2
<1> QED
    BY <1>1, <1>2, <1>3, <1>4, <1>5 DEF Removed

LEMMA DelStep ==
    ASSUME ArrayInv, NEW i \in Indices, arrayDel(i)
    PROVE  ArrayInv'
<1>0. PICK n \in Nat : n = Len(a_order)
    BY LenProperties DEF ArrayInv
<1>1. PICK s, it, its : s = a_order /\ n = Len(s) /\ it = a_items[i] /\ its = a_items'
    BY <1>0
<1>2. /\ s \in Seq(Indices) /\ n \in Nat /\ Distinct(s) /\ Linked(a_items, s)
      /\ a_items \in [Indices -> [next : Int, prev : Int]]
      /\ \A k \in 1 .. n : s[k] \in Indices
    BY <1>1, LenProperties, ElementOfSeq DEF ArrayInv
<1>3. PICK m \in 1 .. n : s[m] = i /\ RemoveFirst(s, i) = RemoveAt(s, m)
  <2> DEFINE I == {k \in 1 .. Len(s) : s[k] = i}
  <2>1. I # {} /\ \E k \in 1 .. Len(s) : s[k] = i
    BY <1>1, FilledItems DEF arrayDel
  <2>2. I \subseteq Nat
    OBVIOUS
  <2> HIDE DEF I
  <2>3. Min(I) \in I
    BY <2>1, <2>2, Least
  <2> USE DEF I
  <2>4. RemoveFirst(s, i) = RemoveAt(s, Min(I))
    BY <2>1 DEF RemoveFirst, SelectInSeq
  <2> QED
    BY <1>1, <2>3, <2>4
<1>4. PICK t : t = RemoveAt(s, m) /\ a_order' = t
    BY <1>1, <1>3 DEF arrayDel
<1>5. /\ t \in Seq(Indices) /\ Len(t) = n - 1
      /\ \A k \in 1 .. n - 1 : t[k] = IF k < m THEN s[k] ELSE s[k + 1]
    BY <1>1, <1>2, <1>4, ElementsRemoveAt
<1>6. /\ Distinct(t) /\ Removed(s, n, m, t)
      /\ \A o \in 1 .. n : o # m => \E k \in 1 .. n - 1 : t[k] = s[o]
  <2>1. n = Len(s) /\ s \in Seq(Indices) /\ Distinct(s)
    BY <1>1, <1>2
  <2> QED
    BY <1>5, <2>1, Closed
<1>7. it.next = Following(s, m) /\ it.prev = Preceding(s, m)
  <2>1. a_items[s[m]] = [next |-> Following(s, m), prev |-> Preceding(s, m)]
    BY <1>1, <1>2 DEF Linked
  <2> QED
    BY <1>1, <1>3, <2>1
<1>8. Indices \subseteq Int /\ -1 \notin Indices
    BY CollectionsAssumption DEF Indices
<1>9. ASSUME NEW k \in 1 .. n
      PROVE  (s[k] = it.next <=> k = m + 1) /\ (s[k] = it.prev <=> k = m - 1)
  <2>1. s[k] \in Indices
    BY <1>2
  <2>2. m < n => m + 1 \in 1 .. n
    OBVIOUS
  <2>3. m > 1 => m - 1 \in 1 .. n
    OBVIOUS
  <2>4. s[k] = it.next <=> k = m + 1
    <3>1. CASE m < n
      BY <1>1, <1>2, <1>7, <2>2, <3>1 DEF Following, Distinct
    <3>2. CASE ~ (m < n)
      BY <1>1, <1>7, <1>8, <2>1, <3>2 DEF Following
    <3> QED
      BY <3>1, <3>2
  <2>5. s[k] = it.prev <=> k = m - 1
    <3>1. CASE m > 1
      BY <1>1, <1>2, <1>7, <2>3, <3>1 DEF Preceding, Distinct
    <3>2. CASE ~ (m > 1)
      BY <1>1, <1>7, <1>8, <2>1, <3>2 DEF Preceding
    <3> QED
      BY <3>1, <3>2
  <2> QED
    BY <2>4, <2>5
<1>10. it.next # i /\ it.prev # i
    BY <1>3, <1>9
<1>11. it.next \in Indices => it.next # it.prev
  <2>1. it.next \in Indices => m < n /\ m + 1 \in 1 .. n /\ it.next = s[m + 1]
    BY <1>1, <1>7, <1>8 DEF Following
  <2> QED
    BY <1>9, <2>1
<1>12. ASSUME NEW j \in Indices
       PROVE  its[j] = IF j = i THEN NotFilled
                       ELSE IF j = it.prev THEN [a_items[j] EXCEPT !.next = it.next]
                       ELSE IF j = it.next THEN [a_items[j] EXCEPT !.prev = it.prev]
                       ELSE a_items[j]
    BY <1>1, <1>10, <1>11 DEF arrayDel, unlinked
<1>13. it \in [next : Int, prev : Int]
    BY <1>1, <1>2
<1>14. its \in [Indices -> [next : Int, prev : Int]]
  <2>1. its = [j \in Indices |-> its[j]]
    BY <1>1 DEF arrayDel, unlinked
  <2>2. ASSUME NEW j \in Indices
        PROVE  its[j] \in [next : Int, prev : Int]
    <3>1. PICK r \in [next : Int, prev : Int] : r = a_items[j]
      BY <1>2
    <3>2. NotFilled \in [next : Int, prev : Int]
      BY DEF NotFilled
    <3>3. it.next \in Int /\ it.prev \in Int
      BY <1>13
    <3>4. /\ [r EXCEPT !.next = it.next] \in [next : Int, prev : Int]
          /\ [r EXCEPT !.prev = it.prev] \in [next : Int, prev : Int]
      BY <3>3
    <3> QED
      BY <1>12, <3>1, <3>2, <3>4
  <2> QED
    BY <2>1, <2>2
<1>15. ASSUME NEW k \in 1 .. n - 1
       PROVE  its[t[k]] = [next |-> Following(t, k), prev |-> Preceding(t, k)]
  <2>1. PICK o : o = (IF k < m THEN k ELSE k + 1)
    OBVIOUS
  <2>2. /\ o \in 1 .. n /\ o # m /\ t[k] = s[o]
        /\ Following(t, k) = IF o = m - 1 THEN Following(s, m) ELSE Following(s, o)
        /\ Preceding(t, k) = IF o = m + 1 THEN Preceding(s, m) ELSE Preceding(s, o)
    BY <1>6, <2>1 DEF Removed
  <2>3. /\ a_items[s[o]] = [next |-> Following(s, o), prev |-> Preceding(s, o)]
        /\ s[o] \in Indices
    BY <1>1, <1>2, <2>2 DEF Linked
  <2>4. s[o] # i
    BY <1>1, <1>2, <1>3, <2>2 DEF Distinct
  <2>5. (s[o] = it.next <=> o = m + 1) /\ (s[o] = it.prev <=> o = m - 1)
    BY <1>9, <2>2
  <2>6. m + 1 # m - 1
    OBVIOUS
  <2>7. CASE o = m - 1
    <3>1. its[t[k]] = [a_items[s[o]] EXCEPT !.next = it.next]
      BY <1>12, <2>2, <2>3, <2>4, <2>5, <2>7
    <3>2. Following(t, k) = it.next /\ Preceding(t, k) = Preceding(s, o)
      BY <1>7, <2>2, <2>6, <2>7
    <3> QED
      BY <2>3, <3>1, <3>2
  <2>8. CASE o = m + 1
    <3>1. its[t[k]] = [a_items[s[o]] EXCEPT !.prev = it.prev]
      BY <1>12, <2>2, <2>3, <2>4, <2>5, <2>6, <2>8
    <3>2. Following(t, k) = Following(s, o) /\ Preceding(t, k) = it.prev
      BY <1>7, <2>2, <2>6, <2>8
    <3> QED
      BY <2>3, <3>1, <3>2
  <2>9. CASE o # m - 1 /\ o # m + 1
    BY <1>12, <2>2, <2>3, <2>4, <2>5, <2>9
  <2> QED
    BY <2>7, <2>8, <2>9
<1>16. ASSUME NEW j \in Indices, \A k \in 1 .. n - 1 : t[k] # j
       PROVE  its[j] = NotFilled
  <2>1. CASE j = i
    BY <1>12, <2>1
  <2>2. CASE j # i
    <3>1. \A o \in 1 .. n : s[o] # j
      BY <1>3, <1>6, <1>16, <2>2
    <3>2. a_items[j] = NotFilled
      BY <1>1, <1>2, <3>1 DEF Linked
    <3>3. j # it.next
      <4>1. it.next \in Indices => m + 1 \in 1 .. n /\ it.next = s[m + 1]
        BY <1>1, <1>7, <1>8 DEF Following
      <4> QED
        BY <3>1, <4>1
    <3>4. j # it.prev
      <4>1. it.prev \in Indices => m - 1 \in 1 .. n /\ it.prev = s[m - 1]
        BY <1>1, <1>7, <1>8 DEF Preceding
      <4> QED
        BY <3>1, <4>1
    <3> QED
      BY <1>12, <2>2, <3>2, <3>3, <3>4
  <2> QED
    BY <2>1, <2>2
<1>17. Linked(its, t)
    BY <1>5, <1>15, <1>16 DEF Linked
<1>18. n > 0 /\ s # <<>> /\ a_head = s[1] /\ a_tail = s[n] /\ 1 \in 1 .. n /\ n \in 1 .. n
  <2>1. n > 0 /\ 1 \in 1 .. n /\ n \in 1 .. n
    OBVIOUS
  <2>2. s # <<>>
    BY <1>1, <1>2, <2>1, EmptySeq
  <2> QED
    BY <1>1, <2>1, <2>2 DEF ArrayInv
<1>19. n = 1 <=> t = <<>>
    BY <1>5, EmptySeq
<1>20. a_head' = IF t = <<>> THEN -1 ELSE t[1]
  <2>1. CASE m = 1
    <3>1. a_head' = Following(s, 1)
      BY <1>1, <1>3, <1>7, <1>18, <2>1 DEF arrayDel
    <3>2. n # 1 => 1 \in 1 .. n - 1 /\ t[1] = s[2]
      BY <1>5, <2>1
    <3> QED
      BY <1>1, <1>19, <3>1, <3>2 DEF Following
  <2>2. CASE m # 1
    <3>1. n # 1 /\ 1 \in 1 .. n - 1 /\ 1 < m
      BY <2>2
    <3>2. t[1] = s[1]
      BY <1>5, <3>1
    <3>3. s[1] # i
      BY <1>1, <1>2, <1>3, <1>18, <2>2 DEF Distinct
    <3> QED
      BY <1>18, <1>19, <3>1, <3>2, <3>3 DEF arrayDel
  <2> QED
    BY <2>1, <2>2
<1>21. a_tail' = IF t = <<>> THEN -1 ELSE t[n - 1]
  <2>1. CASE m = n
    <3>1. a_tail' = Preceding(s, n)
      BY <1>1, <1>3, <1>7, <1>18, <2>1 DEF arrayDel
    <3>2. n # 1 => n - 1 \in 1 .. n - 1 /\ t[n - 1] = s[n - 1]
      BY <1>5, <2>1
    <3> QED
      BY <1>18, <1>19, <3>1, <3>2 DEF Preceding
  <2>2. CASE m # n
    <3>1. n # 1 /\ n - 1 \in 1 .. n - 1 /\ ~ (n - 1 < m) /\ (n - 1) + 1 = n
      BY <2>2
    <3>2. t[n - 1] = s[n]
      BY <1>5, <3>1
    <3>3. s[n] # i
      BY <1>1, <1>2, <1>3, <1>18, <2>2 DEF Distinct
    <3> QED
      BY <1>18, <1>19, <3>1, <3>2, <3>3 DEF arrayDel
  <2> QED
    BY <2>1, <2>2
<1>22. a_count' = n - 1
    BY <1>1 DEF arrayDel, ArrayInv
<1> QED
    BY <1>1, <1>4, <1>5, <1>6, <1>14, <1>17, <1>20, <1>21, <1>22 DEF ArrayInv

LEMMA ArrayStep == ArrayInv /\ [ArrayNext]_arrayVars => ArrayInv'
<1> SUFFICES ASSUME ArrayInv, [ArrayNext]_arrayVars
             PROVE  ArrayInv'
    OBVIOUS
<1>1. CASE arrayClear
  <2>1. ArrayInit'
    BY <1>1 DEF arrayClear, ArrayInit
  <2> QED
    BY <2>1, ArrayBegins, PTL
<1>2. CASE UNCHANGED arrayVars
    BY <1>2 DEF arrayVars, ArrayInv
<1> QED
    BY <1>1, <1>2, SetStep, DelStep DEF ArrayNext

LEMMA ArrayShows == ArrayInv => ArrayInOrder
<1> SUFFICES ASSUME ArrayInv
             PROVE  ArrayInOrder
    OBVIOUS
<1>1. arrayBegin = IF a_order = <<>> THEN -1 ELSE a_order[1]
    BY DEF ArrayInv, arrayBegin
<1>2. \A k \in 1 .. Len(a_order) :
          itemAfter(a_order[k]) = IF k < Len(a_order) THEN a_order[k + 1] ELSE -1
  <2> SUFFICES ASSUME NEW k \in 1 .. Len(a_order)
               PROVE  itemAfter(a_order[k]) = Following(a_order, k)
    BY DEF Following
  <2>1. a_items[a_order[k]] = [next |-> Following(a_order, k), prev |-> Preceding(a_order, k)]
    BY DEF ArrayInv, Linked
  <2> QED
    BY <2>1 DEF itemAfter
<1>3. a_count = Len(a_order)
    BY DEF ArrayInv
<1>4. {i \in Indices : ~ itemEmpty(i)} = Range(a_order)
  <2>1. a_order \in Seq(Indices)
    BY DEF ArrayInv
  <2>2. Range(a_order) = {a_order[k] : k \in 1 .. Len(a_order)}
    BY <2>1, RangeEquality
  <2>3. \A k \in 1 .. Len(a_order) : a_order[k] \in Indices
    BY <2>1, ElementOfSeq
  <2> QED
    BY <2>2, <2>3, FilledItems
<1> QED
    BY <1>1, <1>2, <1>3, <1>4 DEF ArrayInOrder

\* MinQueue (base/Queue.h) pops the least of what it holds, whatever was pushed and popped,
\* and Array (base/Array.h) lists its filled items in the order they were filled: for every
\* length, and for every set of integers.
THEOREM CollectionsKept == CollectionsSpec => []CollectionsOrdered
<1>1. HeapInit /\ ArrayInit => HeapInv /\ ArrayInv
    BY HeapBegins, ArrayBegins
<1>2. HeapInv /\ ArrayInv /\ [CollectionsNext]_<<heapVars, arrayVars>> => HeapInv' /\ ArrayInv'
    BY HeapStep, ArrayStep DEF CollectionsNext
<1>3. HeapInv /\ ArrayInv => CollectionsOrdered
    BY HeapShows, ArrayShows DEF CollectionsOrdered
<1> QED
    BY <1>1, <1>2, <1>3, PTL DEF CollectionsSpec
=================================================================================
