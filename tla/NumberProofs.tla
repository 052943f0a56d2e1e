------------------------------ MODULE NumberProofs ------------------------------
(***************************************************************************)
(* kit/Timer.cpp, kit/Buffer.cpp and lstring.c: the parts whose proofs go  *)
(* by induction over numbers, and the facts about recursion, powers and    *)
(* remainders they share.                                                  *)
(*                                                                         *)
(* For every number of wheels and slots, every delay and every order of    *)
(* ticks and calls, from outside and from handlers: a handler is lost only *)
(* to a delTimer, a timer that has yet to fire has its node in exactly one *)
(* place, and timers fire in their time.  For every width of a value and   *)
(* of its groups, and every size: a buffer's user reads what was written,  *)
(* and the pool gives no buffer away that is in use.  For any texts and    *)
(* sizes: the string table has each short string once, where it belongs.   *)
(***************************************************************************)
EXTENDS Timer, Buffer, LuaString, TLAPS, SequenceTheorems, FiniteSetTheorems, WellFoundedInduction

---------------------------------------------------------------------------------
(* Numbers.                                                                  *)

\* A set of numbers has a least one.
LEMMA LeastNumber ==
    ASSUME NEW spot, spot \subseteq Nat, spot # {}
    PROVE  \E x \in spot : \A k \in spot : x <= k
<1>1. PICK x \in spot : \A y \in spot : ~ (<<y, x>> \in OpToRel(<, Nat))
    BY WFMin, NatLessThanWellFounded
<1>2. \A y \in spot : ~ (y < x)
    BY <1>1 DEF OpToRel
<1>3. \A y \in spot : x <= y
    BY <1>2
<1> QED
    BY <1>3

\* Induction over the numbers with some property, as a set.
LEMMA AllNumbers ==
    ASSUME NEW good \in SUBSET Nat, 0 \in good, \A n \in good : n + 1 \in good
    PROVE  good = Nat
<1> DEFINE bad == Nat \ good
<1>1. SUFFICES ASSUME bad # {} PROVE FALSE
    OBVIOUS
<1>2. PICK x \in bad : \A y \in bad : x <= y
    BY <1>1, LeastNumber
<1>3. x \in Nat /\ x # 0
    BY <1>2
<1>4. x - 1 \in Nat /\ x - 1 \notin bad
    BY <1>2, <1>3
<1>5. x - 1 \in good /\ x - 1 + 1 = x
    BY <1>3, <1>4
<1> QED
    BY <1>2, <1>5

\* There is a function of the numbers with a given beginning and step.
Iterated(S, base, step) ==
    \E f \in [Nat -> S] : f[0] = base /\ \A n \in Nat : f[n + 1] = step[<<n, f[n]>>]

LEMMA Recursion ==
    ASSUME NEW S, NEW base \in S, NEW step \in [Nat \X S -> S]
    PROVE  Iterated(S, base, step)
<1> DEFINE Builds(f, n) == f[0] = base /\ \A k \in 0 .. n - 1 : f[k + 1] = step[<<k, f[k]>>]
           some == {n \in Nat : \E f \in [Nat -> S] : Builds(f, n)}
<1>1. 0 \in some
    <2>1. [k \in Nat |-> base] \in [Nat -> S] /\ Builds([k \in Nat |-> base], 0)
      OBVIOUS
    <2> QED
      BY <2>1
<1>2. ASSUME NEW n \in some PROVE n + 1 \in some
  <2>1. PICK f \in [Nat -> S] : Builds(f, n)
    OBVIOUS
  <2>2. PICK g : g = [k \in Nat |-> IF k = n + 1 THEN step[<<n, f[n]>>] ELSE f[k]]
    OBVIOUS
  <2>3. n \in Nat /\ f[n] \in S /\ step[<<n, f[n]>>] \in S
    OBVIOUS
  <2>4. g \in [Nat -> S]
    BY <2>2, <2>3
  <2>5. Builds(g, n + 1)
    <3>1. g[0] = base
      BY <2>1, <2>2, <2>3
    <3>2. ASSUME NEW k \in 0 .. n PROVE g[k + 1] = step[<<k, g[k]>>]
      <4>1. k \in Nat /\ k + 1 \in Nat /\ k # n + 1 /\ g[k] = f[k]
        BY <2>2, <2>3, <3>2
      <4>2. CASE k = n
        BY <2>2, <4>1, <4>2
      <4>3. CASE k # n
        <5>1. k \in 0 .. n - 1 /\ k + 1 # n + 1
          BY <2>3, <3>2, <4>3
        <5>2. g[k + 1] = f[k + 1]
          BY <2>2, <4>1, <5>1
        <5> QED
          BY <2>1, <4>1, <5>1, <5>2
      <4> QED
        BY <4>2, <4>3
    <3>3. 0 .. (n + 1) - 1 = 0 .. n
      BY <2>3
    <3> QED
      BY <3>1, <3>2, <3>3
  <2> QED
    BY <2>3, <2>4, <2>5
<1>3. some = Nat
    BY <1>1, <1>2, AllNumbers
<1>4. ASSUME NEW n \in Nat, NEW m \in Nat, n <= m,
             NEW f \in [Nat -> S], Builds(f, n), NEW g \in [Nat -> S], Builds(g, m)
      PROVE  f[n] = g[n]
  <2> DEFINE same == {k \in Nat : k <= n => f[k] = g[k]}
  <2>1. 0 \in same
    BY <1>4
  <2>2. ASSUME NEW k \in same PROVE k + 1 \in same
    <3>1. CASE k + 1 <= n
      <4>1. k \in 0 .. n - 1 /\ k \in 0 .. m - 1 /\ f[k] = g[k] /\ k + 1 \in Nat
        BY <1>4, <3>1
      <4> QED
        BY <1>4, <4>1
    <3> QED
      BY <3>1
  <2> HIDE DEF same
  <2>3. same \in SUBSET Nat
    BY DEF same
  <2>4. same = Nat
    BY <2>1, <2>2, <2>3, AllNumbers
  <2>5. n \in same
    BY <2>4
  <2> QED
    BY <2>5 DEF same
<1>5. \A n \in Nat : \E f \in [Nat -> S] : Builds(f, n)
    BY <1>3
<1> DEFINE pick(n) == CHOOSE f \in [Nat -> S] : Builds(f, n)
<1>6. \A n \in Nat : pick(n) \in [Nat -> S] /\ Builds(pick(n), n)
    BY <1>5
<1> HIDE DEF pick
<1>7. PICK h : h = [n \in Nat |-> pick(n)[n]]
    OBVIOUS
<1>8. h \in [Nat -> S]
    BY <1>6, <1>7
<1>9. h[0] = base
    BY <1>6, <1>7
<1>10. ASSUME NEW n \in Nat PROVE h[n + 1] = step[<<n, h[n]>>]
  <2>1. n + 1 \in Nat /\ n <= n + 1 /\ n \in 0 .. (n + 1) - 1
    OBVIOUS
  <2>2. pick(n)[n] = pick(n + 1)[n]
    BY <1>4, <1>6, <2>1, ZenonT(60)
  <2>3. h[n + 1] = pick(n + 1)[n + 1] /\ h[n] = pick(n)[n]
    BY <1>7, <2>1
  <2> QED
    BY <1>6, <2>1, <2>2, <2>3
<1> QED
    BY <1>8, <1>9, <1>10 DEF Iterated

\* A number is a quotient and a remainder, in one way only.
LEMMA Divides ==
    ASSUME NEW a \in Nat, NEW d \in Nat, d > 0
    PROVE  \E q, r \in Nat : a = d * q + r /\ r < d /\ a \div d = q /\ a % d = r
<1>1. a \div d \in Int /\ a % d \in 0 .. d - 1 /\ a = d * (a \div d) + (a % d)
    OBVIOUS
<1>2. PICK q \in Int, r \in Nat : q = a \div d /\ r = a % d /\ r < d
    BY <1>1
<1>3. a = d * q + r
    BY <1>1, <1>2
<1>4. q >= 0
  <2>1. CASE q <= -1
    <3>1. d * q <= - d
      BY <2>1
    <3> QED
      BY <1>2, <1>3, <3>1
  <2> QED
    BY <1>2, <2>1
<1> QED
    BY <1>2, <1>3, <1>4

LEMMA DivideOnce ==
    ASSUME NEW d \in Nat, NEW q \in Nat, NEW r \in Nat, r < d
    PROVE  (d * q + r) \div d = q /\ (d * q + r) % d = r
<1>1. PICK a \in Nat : a = d * q + r
    OBVIOUS
<1>2. PICK q1 \in Nat, r1 \in Nat : a = d * q1 + r1 /\ r1 < d /\ a \div d = q1 /\ a % d = r1
    BY Divides
<1>3. d * q + r = d * q1 + r1
    BY <1>1, <1>2
<1>4. ~ (q < q1)
  <2> SUFFICES ASSUME q < q1 PROVE FALSE
    OBVIOUS
  <2>1. PICK k \in Nat : q1 = q + 1 + k
    BY q1 - q - 1 \in Nat
  <2>2. d * q1 = d * q + d + d * k /\ d * k >= 0
    BY <2>1
  <2> QED
    BY <1>3, <2>2
<1>5. ~ (q1 < q)
  <2> SUFFICES ASSUME q1 < q PROVE FALSE
    OBVIOUS
  <2>1. PICK k \in Nat : q = q1 + 1 + k
    BY q - q1 - 1 \in Nat
  <2>2. d * q = d * q1 + d + d * k /\ d * k >= 0
    BY <2>1
  <2> QED
    BY <1>2, <1>3, <2>2
<1>6. q = q1
    BY <1>4, <1>5
<1>7. r = r1
    BY <1>3, <1>6
<1> QED
    BY <1>1, <1>2, <1>6, <1>7

\* The remainders of a number by growing powers gain a digit each.
LEMMA Digit ==
    ASSUME NEW u \in Nat, NEW w \in Nat, NEW c \in Nat, w > 0, c > 0
    PROVE  u % (w * c) = (u % w) + ((u \div w) % c) * w
<1>1. PICK q, r \in Nat : u = w * q + r /\ r < w /\ u \div w = q /\ u % w = r
    BY Divides
<1>2. PICK q2, r2 \in Nat : q = c * q2 + r2 /\ r2 < c /\ q \div c = q2 /\ q % c = r2
    BY Divides
<1>3. PICK d \in Nat : d = w * c
    OBVIOUS
<1>4. PICK s \in Nat : s = w * r2 + r
    OBVIOUS
<1>5. u = d * q2 + s
  <2>1. w * (c * q2 + r2) = (w * c) * q2 + w * r2
    OBVIOUS
  <2> QED
    BY <1>1, <1>2, <1>3, <1>4, <2>1
<1>6. s < d
  <2>1. PICK k \in Nat : c = r2 + 1 + k
    BY <1>2, c - r2 - 1 \in Nat
  <2>2. w * c = w * r2 + w + w * k /\ w * k >= 0
    BY <2>1
  <2> QED
    BY <1>1, <1>3, <1>4, <2>2
<1>7. u % d = s
    BY <1>5, <1>6, DivideOnce
<1> QED
    BY <1>1, <1>2, <1>3, <1>4, <1>7

\* The powers of W.
LEMMA Powers ==
    /\ power \in [Nat -> Nat] /\ power[0] = 1
    /\ \A n \in Nat : power[n + 1] = power[n] * W /\ power[n] > 0
<1>1. PICK step : step = [x \in Nat \X Nat |-> x[2] * W]
    OBVIOUS
<1>0. W \in Nat /\ W > 0
    BY TimerAssumption
<1>2. step \in [Nat \X Nat -> Nat] /\ \A n, k \in Nat : step[<<n, k>>] = k * W
    BY <1>0, <1>1
<1>3. 1 \in Nat
    OBVIOUS
<1>4. Iterated(Nat, 1, step)
    BY ONLY <1>2, <1>3, Recursion
<1>5. PICK f \in [Nat -> Nat] : f[0] = 1 /\ \A n \in Nat : f[n + 1] = step[<<n, f[n]>>]
    BY <1>4 DEF Iterated
<1>6. \A n \in Nat : f[n + 1] = f[n] * W
    BY <1>2, <1>5
<1>7. \A n \in Nat : f[n] = IF n = 0 THEN 1 ELSE f[n - 1] * W
  <2> TAKE n \in Nat
  <2>1. CASE n # 0
    <3>1. n - 1 \in Nat /\ (n - 1) + 1 = n
      BY <2>1
    <3> QED
      BY <1>6, <2>1, <3>1
  <2> QED
    BY <1>5, <2>1
<1>8. f = [n \in Nat |-> IF n = 0 THEN 1 ELSE f[n - 1] * W]
    BY <1>7
<1>9. power = [n \in Nat |-> IF n = 0 THEN 1 ELSE power[n - 1] * W]
    BY <1>8 DEF power
<1>10. power[0] = 1
    BY <1>9
<1>11. ASSUME NEW n \in Nat PROVE power[n + 1] = power[n] * W
    BY <1>9
<1>12. \A n \in Nat : power[n] \in Nat /\ power[n] > 0
  <2>1. PICK good : good = {n \in Nat : power[n] \in Nat /\ power[n] > 0}
    OBVIOUS
  <2>2. 0 \in good /\ \A n \in good : n + 1 \in good
    <3>1. ASSUME NEW n \in good PROVE n + 1 \in good
      <4>1. PICK a \in Nat : a = power[n] /\ a > 0
        BY <2>1
      <4>2. a * W \in Nat /\ a * W > 0
        BY ONLY <1>0, <4>1
      <4> QED
        BY <1>11, <2>1, <4>1, <4>2
    <3> QED
      BY <1>10, <2>1, <3>1
  <2>3. good \in SUBSET Nat
    BY <2>1
  <2>4. good = Nat
    BY ONLY <2>2, <2>3, AllNumbers
  <2> QED
    BY ONLY <2>1, <2>4
<1>13. power \in [Nat -> Nat]
    BY <1>9, <1>12
<1> QED
    BY <1>10, <1>11, <1>12, <1>13

\* A node's digits are uint8_t, and a delay's remainders by the powers gain a digit each.
LEMMA Digits ==
    ASSUME NEW d \in Nat, NEW i \in Nat
    PROVE  /\ bits(d, i) \in 0 .. W - 1
           /\ d % power[i] \in Nat /\ d % power[i] < power[i]
           /\ d % power[i + 1] = (d % power[i]) + bits(d, i) * power[i]
<1>1. W \in Nat /\ W > 0
    BY TimerAssumption
<1>2. PICK w \in Nat : w = power[i] /\ w > 0 /\ power[i + 1] = w * W
    BY Powers
<1>3. PICK q \in Nat, r \in Nat : q = d \div w /\ r = d % w /\ r < w
    BY <1>2, Divides
<1>4. bits(d, i) = q % W
    BY <1>2, <1>3 DEF bits
<1>5. q % W \in 0 .. W - 1
    BY ONLY <1>1, <1>3
<1>6. d % (w * W) = (d % w) + ((d \div w) % W) * w
    BY ONLY <1>1, <1>2, Digit, d \in Nat, w \in Nat, SMTT(30)
<1> QED
    BY <1>2, <1>3, <1>4, <1>5, <1>6

\* Digits that are 0 leave the remainder as it is.
LEMMA SameBelow ==
    ASSUME NEW d \in Nat, NEW i \in Nat, NEW m \in Nat, i <= m,
           \A j \in i .. m - 1 : bits(d, j) = 0
    PROVE  d % power[m] = d % power[i]
<1>1. PICK good : good = {n \in Nat : i <= n /\ n <= m => d % power[n] = d % power[i]}
    OBVIOUS
<1>2. good \in SUBSET Nat
    BY <1>1
<1>3. 0 \in good
  <2>1. i <= 0 => i = 0
    OBVIOUS
  <2> QED
    BY <1>1, <2>1
<1>4. ASSUME NEW n \in good PROVE n + 1 \in good
  <2>1. n \in Nat /\ n + 1 \in Nat
    BY <1>1
  <2>2. CASE i <= n /\ n + 1 <= m
    <3>1. n \in i .. m - 1 /\ n <= m
      BY <2>1, <2>2
    <3>2. bits(d, n) = 0 /\ d % power[n] = d % power[i]
      BY <1>1, <2>2, <3>1
    <3>3. d % power[n + 1] = (d % power[n]) + bits(d, n) * power[n] /\ d % power[n] \in Nat
      BY <2>1, Digits
    <3>4. PICK x \in Nat, w \in Nat : x = d % power[n] /\ w = power[n]
      BY <2>1, <3>3, Powers
    <3>5. x + 0 * w = x
      OBVIOUS
    <3> QED
      BY <1>1, <2>1, <3>2, <3>3, <3>4, <3>5
  <2>3. CASE ~ (i <= n /\ n + 1 <= m)
    <3>1. i <= n + 1 /\ n + 1 <= m => n + 1 = i
      BY <2>1, <2>3
    <3> QED
      BY <1>1, <2>1, <3>1
  <2> QED
    BY <2>2, <2>3
<1>5. m \in good
  <2>1. good = Nat
    BY ONLY <1>2, <1>3, <1>4, AllNumbers
  <2> QED
    BY <2>1
<1> QED
    BY <1>1, <1>5

\* A delay that callers may give is made of its digits.
LEMMA AllDigits ==
    ASSUME NEW d \in Delays \cup Cycles
    PROVE  d \in Nat /\ K \in Nat /\ d % power[K] = d
<1>1. K \in Nat /\ d \in 0 .. power[K] - 1
    BY TimerAssumption
<1>2. PICK w \in Nat : w = power[K] /\ w > 0
    BY <1>1, Powers
<1>3. d \in Nat /\ d < w
    BY <1>1, <1>2
<1>4. d % w = d
    BY ONLY <1>2, <1>3
<1> QED
    BY <1>1, <1>2, <1>3, <1>4

\* A delay other than 0 has a digit other than 0.
LEMMA DigitTypes ==
    ASSUME NEW d \in Delays \cup Cycles
    PROVE  /\ \A i \in Wheels : bits(d, i) \in TimerSlots
           /\ d > 0 => \E i \in Wheels : bits(d, i) > 0
<1>1. d \in Nat /\ K \in Nat /\ d % power[K] = d
    BY AllDigits
<1>2. Wheels \subseteq Nat /\ Wheels = 0 .. K - 1
    BY <1>1 DEF Wheels
<1>3. \A i \in Wheels : bits(d, i) \in TimerSlots
    BY <1>1, <1>2, Digits DEF TimerSlots
<1>4. ASSUME \A i \in Wheels : ~ (bits(d, i) > 0) PROVE d = 0
  <2>1. \A i \in 0 .. K - 1 : bits(d, i) = 0
    <3>1. ASSUME NEW i \in Wheels PROVE bits(d, i) = 0
      <4>1. bits(d, i) \in 0 .. W - 1 /\ ~ (bits(d, i) > 0) /\ W \in Nat
        BY <1>1, <1>2, <1>4, Digits, TimerAssumption
      <4> QED
        BY ONLY <4>1
    <3> QED
      BY <1>2, <3>1
  <2>2. 0 \in Nat /\ 0 <= K
    BY <1>1
  <2>3. d % power[K] = d % power[0]
    BY <1>1, <2>1, <2>2, SameBelow
  <2>4. d % 1 = 0
    BY <1>1
  <2> QED
    BY <1>1, <2>3, <2>4, Powers
<1>5. d > 0 => \E i \in Wheels : bits(d, i) > 0
    BY <1>1, <1>4
<1> QED
    BY <1>3, <1>5

---------------------------------------------------------------------------------
(* Handlers.                                                                 *)

Buckets == 0 .. MapSize - 1

MapTypes ==
    /\ id_ \in Nat /\ deleted \subseteq 1 .. id_
    /\ handler_map_ \in [Buckets -> Seq(Nat)]

\* A chain holds ids that were given and not deleted, each in its bucket and once.
Chains ==
    \A b \in Buckets :
        /\ \A k \in 1 .. Len(handler_map_[b]) :
              /\ handler_map_[b][k] \in 1 .. id_ /\ handler_map_[b][k] \notin deleted
              /\ bucket(handler_map_[b][k]) = b
        /\ \A k, l \in 1 .. Len(handler_map_[b]) :
              handler_map_[b][k] = handler_map_[b][l] => k = l

\* An id without a handler shares its bucket with a deleted one.
Taken == \A id \in 1 .. id_ : hasHandler(id) \/ \E k \in deleted : bucket(k) = bucket(id)

HandlersInv == MapTypes /\ Chains /\ Taken

LEMMA BucketType == \A id \in Nat : bucket(id) \in Buckets
  BY TimerAssumption DEF bucket, Buckets

\* What an item leaves when it is taken out of its chain: the chain's others.
LEMMA Unlinked ==
    ASSUME NEW S, NEW s \in Seq(S), NEW j \in 1 .. Len(s)
    PROVE  /\ RemoveAt(s, j) \in Seq(S)
           /\ \A k \in 1 .. Len(RemoveAt(s, j)) : \E l \in 1 .. Len(s) :
                 RemoveAt(s, j)[k] = s[l] /\ l = (IF k < j THEN k ELSE k + 1)
           /\ \A l \in 1 .. Len(s) : l # j => \E k \in 1 .. Len(RemoveAt(s, j)) :
                 RemoveAt(s, j)[k] = s[l]
<1> DEFINE t == RemoveAt(s, j)
<1>1. Len(s) \in Nat /\ j \in Nat /\ 1 <= j /\ j <= Len(s)
    OBVIOUS
<1>2. /\ t \in Seq(S) /\ Len(t) = Len(s) - 1
      /\ \A k \in 1 .. Len(s) - 1 : t[k] = IF k < j THEN s[k] ELSE s[k + 1]
  <2> DEFINE u == SubSeq(s, 1, j - 1)
             v == SubSeq(s, j + 1, Len(s))
  <2>1. /\ u \in Seq(S) /\ Len(u) = j - 1 /\ \A k \in 1 .. j - 1 : u[k] = s[k]
    <3>1. 1 \in 1 .. Len(s) + 1 /\ j - 1 \in 0 .. Len(s)
      BY <1>1
    <3> QED
      BY <1>1, <3>1
  <2>2. /\ v \in Seq(S) /\ Len(v) = Len(s) - j
        /\ \A k \in 1 .. Len(s) - j : v[k] = s[j + k]
    <3>1. j + 1 \in 1 .. Len(s) + 1 /\ Len(s) \in j .. Len(s)
      BY <1>1
    <3>2. v \in Seq(S) /\ Len(v) = Len(s) - (j + 1) + 1
      BY <3>1, SubSeqProperties
    <3>3. \A k \in 1 .. Len(s) - j : v[k] = s[(j + 1) + k - 1]
      BY <1>1, <3>1, <3>2, SubSeqProperties
    <3>4. Len(s) - (j + 1) + 1 = Len(s) - j /\ \A k \in 1 .. Len(s) - j : (j + 1) + k - 1 = j + k
      BY ONLY <1>1
    <3> HIDE DEF v
    <3> QED
      BY <3>2, <3>3, <3>4
  <2> HIDE DEF u, v
  <2>3. t = u \o v
    BY DEF RemoveAt, u, v
  <2>4. /\ u \o v \in Seq(S) /\ Len(u \o v) = Len(s) - 1
    <3>1. Len(u \o v) = Len(u) + Len(v) /\ u \o v \in Seq(S)
      BY <2>1, <2>2, ConcatProperties
    <3> QED
      BY <1>1, <2>1, <2>2, <3>1
  <2>5. ASSUME NEW k \in 1 .. Len(s) - 1
        PROVE  (u \o v)[k] = IF k < j THEN s[k] ELSE s[k + 1]
    <3>1. (u \o v)[k] = IF k <= Len(u) THEN u[k] ELSE v[k - Len(u)]
      <4>1. k \in 1 .. Len(u) + Len(v)
        BY <1>1, <2>1, <2>2
      <4> QED
        BY <2>1, <2>2, <4>1, ConcatProperties
    <3>2. CASE k < j
      BY <1>1, <2>1, <3>1, <3>2
    <3>3. CASE ~ (k < j)
      <4>1. k - (j - 1) \in 1 .. Len(s) - j /\ j + (k - (j - 1)) = k + 1 /\ ~ (k <= j - 1)
        BY <1>1, <3>3
      <4> QED
        BY <2>1, <2>2, <3>1, <3>3, <4>1
    <3> QED
      BY <3>2, <3>3
  <2> QED
    BY <2>3, <2>4, <2>5
<1> HIDE DEF t
<1>3. ASSUME NEW k \in 1 .. Len(t)
      PROVE  \E l \in 1 .. Len(s) : t[k] = s[l] /\ l = (IF k < j THEN k ELSE k + 1)
  <2>1. k \in 1 .. Len(s) - 1 /\ k \in 1 .. Len(s) /\ k + 1 \in 1 .. Len(s)
    <3>1. k \in 1 .. Len(s) - 1
      BY <1>2
    <3> QED
      BY ONLY <1>1, <3>1
  <2> QED
    BY <1>2, <2>1
<1>4. ASSUME NEW l \in 1 .. Len(s), l # j PROVE \E k \in 1 .. Len(t) : t[k] = s[l]
  <2>1. CASE l < j
    <3>1. l \in 1 .. Len(s) - 1
      BY <1>1, <2>1
    <3> QED
      BY <1>2, <2>1, <3>1
  <2>2. CASE ~ (l < j)
    <3>1. l - 1 \in 1 .. Len(s) - 1 /\ ~ (l - 1 < j) /\ (l - 1) + 1 = l
      BY <1>1, <1>4, <2>2
    <3> QED
      BY <1>2, <3>1
  <2> QED
    BY <2>1, <2>2
<1> QED
    BY <1>2, <1>3, <1>4 DEF t

LEMMA HandlersInit == TimerInit => HandlersInv
<1> SUFFICES ASSUME TimerInit PROVE HandlersInv
    OBVIOUS
<1>1. id_ = 0 /\ deleted = {} /\ handler_map_ = [b \in 0 .. MapSize - 1 |-> <<>>]
    BY DEF TimerInit
<1>2. <<>> \in Seq(Nat) /\ Len(<<>>) = 0
    BY EmptySeq
<1>3. MapTypes
    BY <1>1, <1>2 DEF MapTypes, Buckets
<1>4. Chains
    BY <1>1, <1>2 DEF Chains, Buckets
<1>5. Taken
    BY <1>1 DEF Taken
<1> QED
    BY <1>3, <1>4, <1>5 DEF HandlersInv

\* addTimer puts a new id at the end of its chain.
LEMMA HandlersAdd ==
    ASSUME HandlersInv, NEW delay \in Delays, NEW cycle \in Cycles, addTimer(delay, cycle)
    PROVE  HandlersInv'
<1> DEFINE new == id_ + 1
           b0  == bucket(new)
<1>1. /\ id_' = new /\ UNCHANGED deleted
      /\ handler_map_' = [handler_map_ EXCEPT ![b0] = Append(@, new)]
    BY DEF addTimer, set
<1>2. /\ id_ \in Nat /\ new \in Nat /\ new = id_ + 1 /\ deleted \subseteq 1 .. id_
      /\ handler_map_ \in [Buckets -> Seq(Nat)]
    BY DEF HandlersInv, MapTypes
<1>3. b0 \in Buckets
    BY <1>2, BucketType
<1>x. PICK n \in Nat, c \in Buckets : n = new /\ c = b0
    BY <1>2, <1>3
<1>y. bucket(n) = c /\ id_' = n /\ handler_map_' = [handler_map_ EXCEPT ![c] = Append(@, n)]
    BY <1>1, <1>x
<1>4. /\ handler_map_[c] \in Seq(Nat) /\ handler_map_'[c] = Append(handler_map_[c], n)
      /\ \A b \in Buckets : b # c => handler_map_'[b] = handler_map_[b]
    BY <1>2, <1>y
<1>5. /\ Len(handler_map_[c]) \in Nat /\ Len(handler_map_'[c]) = Len(handler_map_[c]) + 1
      /\ handler_map_'[c][Len(handler_map_[c]) + 1] = n
      /\ \A k \in 1 .. Len(handler_map_[c]) : handler_map_'[c][k] = handler_map_[c][k]
    BY <1>4, AppendProperties
<1>6. MapTypes'
  <2>1. Append(handler_map_[c], n) \in Seq(Nat)
    BY <1>4, AppendProperties
  <2> QED
    BY <1>1, <1>2, <1>y, <2>1 DEF MapTypes
<1>7. \A id \in 1 .. id_ : id \in 1 .. n /\ id # n
    BY <1>2, <1>x
<1>8. n \in 1 .. n /\ n \notin deleted
    BY <1>2, <1>x
<1>9. Chains'
  <2> SUFFICES ASSUME NEW b \in Buckets
               PROVE  /\ \A k \in 1 .. Len(handler_map_'[b]) :
                            /\ handler_map_'[b][k] \in 1 .. n
                            /\ handler_map_'[b][k] \notin deleted
                            /\ bucket(handler_map_'[b][k]) = b
                      /\ \A k, l \in 1 .. Len(handler_map_'[b]) :
                            handler_map_'[b][k] = handler_map_'[b][l] => k = l
      BY <1>1, <1>y DEF Chains, bucket
  <2>1. /\ \A k \in 1 .. Len(handler_map_[b]) :
              /\ handler_map_[b][k] \in 1 .. id_ /\ handler_map_[b][k] \notin deleted
              /\ bucket(handler_map_[b][k]) = b
        /\ \A k, l \in 1 .. Len(handler_map_[b]) :
              handler_map_[b][k] = handler_map_[b][l] => k = l
    BY DEF HandlersInv, Chains
  <2>2. CASE b # c
    BY <1>4, <1>7, <2>1, <2>2
  <2>3. CASE b = c
    <3>1. \A k \in 1 .. Len(handler_map_'[c]) :
             k \in 1 .. Len(handler_map_[c]) \/ k = Len(handler_map_[c]) + 1
      BY <1>5
    <3>2. ASSUME NEW k \in 1 .. Len(handler_map_'[c])
          PROVE  /\ handler_map_'[c][k] \in 1 .. n
                 /\ handler_map_'[c][k] \notin deleted
                 /\ bucket(handler_map_'[c][k]) = c
      BY <1>5, <1>7, <1>8, <1>y, <2>1, <2>3, <3>1
    <3>3. ASSUME NEW k \in 1 .. Len(handler_map_'[c]), NEW l \in 1 .. Len(handler_map_'[c]),
                 handler_map_'[c][k] = handler_map_'[c][l]
          PROVE  k = l
      BY <1>5, <1>7, <2>1, <2>3, <3>1, <3>3
    <3> QED
      BY <2>3, <3>2, <3>3
  <2> QED
    BY <2>2, <2>3
<1>10. Taken'
  <2> SUFFICES ASSUME NEW id \in 1 .. n
               PROVE  hasHandler(id)' \/ \E k \in deleted : bucket(k) = bucket(id)
      BY <1>1, <1>y DEF Taken, bucket
  <2>1. CASE id = n
    <3>1. Len(handler_map_[c]) + 1 \in 1 .. Len(handler_map_'[c])
      BY <1>5
    <3>2. Contains(handler_map_'[c], n)
      BY <1>5, <3>1 DEF Contains
    <3> QED
      BY <1>y, <2>1, <3>2 DEF hasHandler, bucket
  <2>2. CASE id # n
    <3>1. id \in 1 .. id_ /\ id \in Nat
      BY <1>2, <1>x, <2>2
    <3>2. CASE hasHandler(id)
      <4>1. bucket(id) \in Buckets
        BY <3>1, BucketType
      <4>2. PICK k \in 1 .. Len(handler_map_[bucket(id)]) : handler_map_[bucket(id)][k] = id
        BY <3>2 DEF hasHandler, Contains
      <4>3. k \in 1 .. Len(handler_map_'[bucket(id)]) /\ handler_map_'[bucket(id)][k] = id
        <5>1. CASE bucket(id) = c
          BY <1>5, <4>2, <5>1
        <5>2. CASE bucket(id) # c
          BY <1>4, <4>1, <4>2, <5>2
        <5> QED
          BY <5>1, <5>2
      <4>4. Contains(handler_map_'[bucket(id)], id)
        BY <4>3 DEF Contains
      <4> QED
        BY <4>4 DEF hasHandler, bucket
    <3> QED
      BY <3>1, <3>2 DEF HandlersInv, Taken
  <2> QED
    BY <2>1, <2>2
<1> QED
    BY <1>6, <1>9, <1>10 DEF HandlersInv

\* delTimer takes the id out of its chain, with the others when it is the first.
LEMMA HandlersDel ==
    ASSUME HandlersInv, NEW id \in Ids, delTimer(id)
    PROVE  HandlersInv'
<1> DEFINE c     == bucket(id)
           chain == handler_map_[c]
           at    == CHOOSE k \in DOMAIN chain : chain[k] = id
           left  == IF ~ hasHandler(id) THEN chain
                    ELSE IF at = 1 THEN <<>> ELSE RemoveAt(chain, at)
<1>1. /\ UNCHANGED id_ /\ deleted' = deleted \cup {id} /\ id <= id_
      /\ handler_map_' = [handler_map_ EXCEPT ![c] = left]
    BY DEF delTimer, del
<1>2. /\ id_ \in Nat /\ deleted \subseteq 1 .. id_ /\ id \in Nat /\ id \in 1 .. id_
      /\ handler_map_ \in [Buckets -> Seq(Nat)] /\ c \in Buckets /\ chain \in Seq(Nat)
  <2>1. id_ \in Nat /\ deleted \subseteq 1 .. id_ /\ handler_map_ \in [Buckets -> Seq(Nat)]
    BY DEF HandlersInv, MapTypes
  <2>2. id \in Nat /\ id \in 1 .. id_
    BY <1>1, <2>1 DEF Ids
  <2>3. c \in Buckets
    BY <2>2, BucketType
  <2> QED
    BY <2>1, <2>2, <2>3
<1>3. /\ \A k \in 1 .. Len(chain) :
            chain[k] \in 1 .. id_ /\ chain[k] \notin deleted /\ bucket(chain[k]) = c
      /\ \A k, l \in 1 .. Len(chain) : chain[k] = chain[l] => k = l
    BY <1>2 DEF HandlersInv, Chains
<1> HIDE DEF c
<1>4. /\ left \in Seq(Nat)
      /\ \A k \in 1 .. Len(left) :
            left[k] \in 1 .. id_ /\ left[k] \notin deleted /\ left[k] # id /\ bucket(left[k]) = c
      /\ \A k, l \in 1 .. Len(left) : left[k] = left[l] => k = l
  <2>1. CASE ~ hasHandler(id)
    <3>1. left = chain
      BY <2>1
    <3>2. \A k \in 1 .. Len(chain) : chain[k] # id
      BY <2>1 DEF hasHandler, Contains, c
    <3> HIDE DEF chain, left
    <3> QED
      BY <1>2, <1>3, <3>1, <3>2
  <2>2. CASE hasHandler(id)
    <3>0. DOMAIN chain = 1 .. Len(chain)
      BY <1>2
    <3>1. at \in 1 .. Len(chain) /\ chain[at] = id
      BY <2>2, <3>0 DEF hasHandler, Contains, c
    <3>2. CASE at = 1
      BY <2>2, <3>2, EmptySeq
    <3>3. CASE at # 1
      <4>1. left = RemoveAt(chain, at)
        BY <2>2, <3>3
      <4> HIDE DEF left, at, chain
      <4>2. /\ left \in Seq(Nat)
            /\ \A k \in 1 .. Len(left) : \E l \in 1 .. Len(chain) :
                  left[k] = chain[l] /\ l = (IF k < at THEN k ELSE k + 1)
        BY <1>2, <3>1, <4>1, Unlinked
      <4>3. ASSUME NEW k \in 1 .. Len(left)
            PROVE  /\ left[k] \in 1 .. id_ /\ left[k] \notin deleted /\ left[k] # id
                   /\ bucket(left[k]) = c
        <5>1. PICK l \in 1 .. Len(chain) : left[k] = chain[l] /\ l = (IF k < at THEN k ELSE k + 1)
          BY <4>2
        <5>2. l # at
          BY <3>1, <5>1
        <5> QED
          BY <1>3, <3>1, <5>1, <5>2
      <4>4. ASSUME NEW k \in 1 .. Len(left), NEW l \in 1 .. Len(left), left[k] = left[l]
            PROVE  k = l
        <5>1. PICK i \in 1 .. Len(chain) : left[k] = chain[i] /\ i = (IF k < at THEN k ELSE k + 1)
          BY <4>2
        <5>2. PICK j \in 1 .. Len(chain) : left[l] = chain[j] /\ j = (IF l < at THEN l ELSE l + 1)
          BY <4>2
        <5>3. i = j
          BY <1>3, <4>4, <5>1, <5>2
        <5> QED
          BY <3>1, <5>1, <5>2, <5>3
      <4> QED
        BY <4>2, <4>3, <4>4
    <3> QED
      BY <3>2, <3>3
  <2> QED
    BY <2>1, <2>2
<1>5. PICK d \in Buckets, rest \in Seq(Nat) : d = c /\ rest = left
    BY <1>2, <1>4
<1> HIDE DEF left
<1>6. handler_map_' = [handler_map_ EXCEPT ![d] = rest] /\ bucket(id) = d
    BY <1>1, <1>5 DEF c
<1>7. /\ handler_map_'[d] = rest
      /\ \A b \in Buckets : b # d => handler_map_'[b] = handler_map_[b]
    BY <1>2, <1>6
<1>8. MapTypes'
    BY <1>1, <1>2, <1>6 DEF MapTypes
<1>9. Chains'
  <2> SUFFICES ASSUME NEW b \in Buckets
               PROVE  /\ \A k \in 1 .. Len(handler_map_'[b]) :
                            /\ handler_map_'[b][k] \in 1 .. id_
                            /\ handler_map_'[b][k] \notin deleted \cup {id}
                            /\ bucket(handler_map_'[b][k]) = b
                      /\ \A k, l \in 1 .. Len(handler_map_'[b]) :
                            handler_map_'[b][k] = handler_map_'[b][l] => k = l
      BY <1>1 DEF Chains, bucket
  <2>1. CASE b = d
    BY <1>4, <1>5, <1>7, <2>1
  <2>2. CASE b # d
    <3>1. /\ \A k \in 1 .. Len(handler_map_[b]) :
                /\ handler_map_[b][k] \in 1 .. id_ /\ handler_map_[b][k] \notin deleted
                /\ bucket(handler_map_[b][k]) = b
          /\ \A k, l \in 1 .. Len(handler_map_[b]) :
                handler_map_[b][k] = handler_map_[b][l] => k = l
      BY DEF HandlersInv, Chains
    <3> QED
      BY <1>6, <1>7, <2>2, <3>1
  <2> QED
    BY <2>1, <2>2
<1>10. Taken'
  <2> SUFFICES ASSUME NEW j \in 1 .. id_
               PROVE  hasHandler(j)' \/ \E k \in deleted \cup {id} : bucket(k) = bucket(j)
      BY <1>1 DEF Taken, bucket
  <2>1. j \in Nat /\ bucket(j) \in Buckets
    BY <1>2, BucketType
  <2>2. CASE bucket(j) = d
    BY <1>6, <2>2
  <2>3. CASE bucket(j) # d
    <3>1. hasHandler(j) => hasHandler(j)'
      <4>1. handler_map_'[bucket(j)] = handler_map_[bucket(j)]
        BY <1>7, <2>1, <2>3
      <4> QED
        BY <4>1 DEF hasHandler, bucket
    <3> QED
      BY <3>1 DEF HandlersInv, Taken
  <2> QED
    BY <2>2, <2>3
<1> QED
    BY <1>8, <1>9, <1>10 DEF HandlersInv

LEMMA HandlersStep == ASSUME HandlersInv, [TimerNext]_timerVars PROVE HandlersInv'
<1>1. CASE \E delay \in Delays, cycle \in Cycles : addTimer(delay, cycle)
    BY <1>1, HandlersAdd
<1>2. CASE \E id \in Ids : delTimer(id)
    BY <1>2, HandlersDel
<1>3. CASE \/ tick \/ moveDown \/ handleTimer \/ wheelingEnds
           \/ \E ret \in BOOLEAN : handlerReturns(ret)
           \/ UNCHANGED timerVars
  <2>1. UNCHANGED <<id_, handler_map_, deleted>>
    BY <1>3 DEF tick, moveDown, handleTimer, wheelingEnds, handlerReturns, timerVars
  <2> QED
    BY <2>1 DEF HandlersInv, MapTypes, Chains, Taken, hasHandler, bucket
<1> QED
    BY <1>1, <1>2, <1>3 DEF TimerNext

\* A handler goes only with a delTimer, of its own id or of one that shares its bucket,
\* and with its own it goes for good.
THEOREM TimerHandlers == TimerSpec => []HandlersKept
<1>1. TimerSpec => []HandlersInv
    BY HandlersInit, HandlersStep, PTL DEF TimerSpec
<1>2. HandlersInv => HandlersKept
  <2> SUFFICES ASSUME HandlersInv, NEW id \in 1 .. id_
               PROVE  /\ id \in deleted => ~ hasHandler(id)
                      /\ hasHandler(id) \/ \E k \in deleted : bucket(k) = bucket(id)
      BY DEF HandlersKept
  <2>1. bucket(id) \in Buckets
    BY BucketType DEF HandlersInv, MapTypes
  <2> QED
    BY <2>1 DEF HandlersInv, Chains, Taken, hasHandler, Contains
<1> QED
    BY <1>1, <1>2, PTL

---------------------------------------------------------------------------------
(* Nodes.                                                                    *)

Node == [id : Nat, delay : Delays \cup Cycles, cycle : Cycles]
Lists == [Wheels -> [TimerSlots -> Seq(Node)]]

\* N are the lists of the slots, P what is left to walk, X the slot that is being walked:
\* its list is stale.  No id is in two places ...
Once(N, i, s, j, t) ==
    \A k \in 1 .. Len(N[i][s]), l \in 1 .. Len(N[j][t]) :
       N[i][s][k].id = N[j][t][l].id => i = j /\ s = t /\ k = l

Spread(N, P, X) ==
    /\ \A i, j \in Wheels, s, t \in TimerSlots :
          <<i, s>> \notin X /\ <<j, t>> \notin X => Once(N, i, s, j, t)
    /\ \A k, l \in 1 .. Len(P) : P[k].id = P[l].id => k = l
    /\ \A i \in Wheels, s \in TimerSlots : <<i, s>> \notin X =>
          \A k \in 1 .. Len(N[i][s]), l \in 1 .. Len(P) : N[i][s][k].id # P[l].id

\* ... and id is in none, or in some.
Apart(N, P, X, id) ==
    /\ \A i \in Wheels, s \in TimerSlots : <<i, s>> \notin X =>
          \A k \in 1 .. Len(N[i][s]) : N[i][s][k].id # id
    /\ \A l \in 1 .. Len(P) : P[l].id # id

Held(N, P, X, id) ==
    \/ \E i \in Wheels, s \in TimerSlots : <<i, s>> \notin X /\
          \E k \in 1 .. Len(N[i][s]) : N[i][s][k].id = id
    \/ \E l \in 1 .. Len(P) : P[l].id = id

\* All ids have been given.
Numbered(N, P, n) ==
    /\ \A i \in Wheels, s \in TimerSlots : \A k \in 1 .. Len(N[i][s]) : N[i][s][k].id \in 1 .. n
    /\ \A l \in 1 .. Len(P) : P[l].id \in 1 .. n

\* The walk takes its first node.
LEMMA TailAt ==
    ASSUME NEW P \in Seq(Node), P # <<>>
    PROVE  /\ Tail(P) \in Seq(Node) /\ Head(P) \in Node /\ Head(P) = P[1] /\ 1 \in 1 .. Len(P)
           /\ \A l \in 1 .. Len(Tail(P)) : l + 1 \in 1 .. Len(P) /\ Tail(P)[l] = P[l + 1]
           /\ \A l \in 1 .. Len(P) : l = 1 \/ (l - 1 \in 1 .. Len(Tail(P)) /\ Tail(P)[l - 1] = P[l])
<1>1. /\ Tail(P) \in Seq(Node) /\ Head(P) \in Node /\ Len(Tail(P)) = Len(P) - 1
      /\ \A i \in 1 .. Len(Tail(P)) : Tail(P)[i] = P[i + 1]
    BY HeadTailProperties
<1>2. Len(P) \in Nat \ {0} /\ Head(P) = P[1]
    BY EmptySeq
<1>3. 1 \in 1 .. Len(P) /\ \A l \in 1 .. Len(Tail(P)) : l + 1 \in 1 .. Len(P)
    BY ONLY <1>1, <1>2
<1>4. \A l \in 1 .. Len(P) : l = 1 \/ (l - 1 \in 1 .. Len(Tail(P)) /\ (l - 1) + 1 = l)
    BY ONLY <1>1, <1>2
<1>5. ASSUME NEW l \in 1 .. Len(P)
      PROVE  l = 1 \/ (l - 1 \in 1 .. Len(Tail(P)) /\ Tail(P)[l - 1] = P[l])
    BY <1>1, <1>4
<1> QED
    BY <1>1, <1>2, <1>3, <1>5

LEMMA SpreadTail ==
    ASSUME NEW N, NEW X, NEW P \in Seq(Node), P # <<>>, Spread(N, P, X)
    PROVE  Spread(N, Tail(P), X) /\ Apart(N, Tail(P), X, Head(P).id)
<1>1. Spread(N, Tail(P), X)
  <2>1. ASSUME NEW k \in 1 .. Len(Tail(P)), NEW l \in 1 .. Len(Tail(P)),
               Tail(P)[k].id = Tail(P)[l].id
        PROVE  k = l
    <3>1. k + 1 = l + 1
      BY <2>1, TailAt DEF Spread
    <3> QED
      BY <3>1
  <2>2. ASSUME NEW i \in Wheels, NEW s \in TimerSlots, <<i, s>> \notin X,
               NEW k \in 1 .. Len(N[i][s]), NEW l \in 1 .. Len(Tail(P))
        PROVE  N[i][s][k].id # Tail(P)[l].id
    BY <2>2, TailAt DEF Spread
  <2> QED
    BY <2>1, <2>2 DEF Spread
<1>2. Apart(N, Tail(P), X, Head(P).id)
  <2>1. ASSUME NEW i \in Wheels, NEW s \in TimerSlots, <<i, s>> \notin X,
               NEW k \in 1 .. Len(N[i][s])
        PROVE  N[i][s][k].id # Head(P).id
    BY <2>1, TailAt DEF Spread
  <2>2. ASSUME NEW l \in 1 .. Len(Tail(P)) PROVE Tail(P)[l].id # Head(P).id
    <3>1. l + 1 \in 1 .. Len(P) /\ l + 1 # 1
      BY TailAt
    <3> QED
      BY <3>1, TailAt DEF Spread
  <2> QED
    BY <2>1, <2>2 DEF Apart
<1> QED
    BY <1>1, <1>2

LEMMA HeldTail ==
    ASSUME NEW N, NEW X, NEW P \in Seq(Node), P # <<>>, NEW id, Held(N, P, X, id),
           id # Head(P).id
    PROVE  Held(N, Tail(P), X, id)
<1>1. ASSUME NEW l \in 1 .. Len(P), P[l].id = id PROVE Held(N, Tail(P), X, id)
  <2>1. l # 1
    BY <1>1, TailAt
  <2>2. l - 1 \in 1 .. Len(Tail(P)) /\ Tail(P)[l - 1].id = id
    BY <1>1, <2>1, TailAt
  <2> QED
    BY <2>2 DEF Held
<1> QED
    BY <1>1 DEF Held

\* addNode makes a node the first of a list.
Placed(N, N2, i, s, node) == N2 = [N EXCEPT ![i][s] = <<node>> \o @]

LEMMA PlacedAt ==
    ASSUME NEW N \in Lists, NEW i \in Wheels, NEW s \in TimerSlots, NEW node \in Node,
           NEW N2, Placed(N, N2, i, s, node)
    PROVE  /\ N2 \in Lists
           /\ \A j \in Wheels, t \in TimerSlots : j # i \/ t # s => N2[j][t] = N[j][t]
           /\ 1 \in 1 .. Len(N2[i][s]) /\ N2[i][s][1] = node
           /\ \A k \in 1 .. Len(N[i][s]) :
                 k + 1 \in 1 .. Len(N2[i][s]) /\ N2[i][s][k + 1] = N[i][s][k]
           /\ \A k \in 1 .. Len(N2[i][s]) :
                 k = 1 \/ (k - 1 \in 1 .. Len(N[i][s]) /\ N2[i][s][k] = N[i][s][k - 1])
<1> DEFINE old == N[i][s]
           new == <<node>> \o old
<1>1. old \in Seq(Node) /\ Len(old) \in Nat
    BY LenProperties DEF Lists
<1>2. /\ new \in Seq(Node) /\ Len(new) = 1 + Len(old) /\ new[1] = node
      /\ \A k \in 1 .. Len(old) : new[1 + k] = old[k]
  <2> HIDE DEF old
  <2>1. <<node>> \in Seq(Node) /\ Len(<<node>>) = 1 /\ <<node>>[1] = node
    OBVIOUS
  <2>2. /\ new \in Seq(Node) /\ Len(new) = Len(<<node>>) + Len(old)
        /\ \A k \in 1 .. Len(<<node>>) + Len(old) :
              new[k] = IF k <= Len(<<node>>) THEN <<node>>[k] ELSE old[k - Len(<<node>>)]
    BY <1>1, <2>1, ConcatProperties
  <2> HIDE DEF new
  <2>3. /\ 1 \in 1 .. 1 + Len(old) /\ 1 <= 1
        /\ \A k \in 1 .. Len(old) : 1 + k \in 1 .. 1 + Len(old) /\ ~ (1 + k <= 1) /\ (1 + k) - 1 = k
    BY ONLY <1>1
  <2> QED
    BY <2>1, <2>2, <2>3
<1>3. N2[i][s] = new /\ N2 \in Lists
  <2> HIDE DEF new
  <2>1. N2 = [N EXCEPT ![i][s] = new]
    BY DEF Placed, new
  <2> QED
    BY <1>2, <2>1 DEF Lists
<1>4. \A j \in Wheels, t \in TimerSlots : j # i \/ t # s => N2[j][t] = N[j][t]
    BY DEF Placed, Lists
<1> HIDE DEF old, new
<1>5. /\ 1 \in 1 .. Len(new)
      /\ \A k \in 1 .. Len(old) : k + 1 \in 1 .. Len(new) /\ new[k + 1] = old[k]
  <2>1. /\ 1 \in 1 .. Len(new)
        /\ \A k \in 1 .. Len(old) : k + 1 \in 1 .. Len(new) /\ k + 1 = 1 + k
    BY ONLY <1>1, <1>2
  <2> QED
    BY <1>2, <2>1
<1>6. ASSUME NEW k \in 1 .. Len(new)
      PROVE  k = 1 \/ (k - 1 \in 1 .. Len(old) /\ new[k] = old[k - 1])
  <2>1. k = 1 \/ (k - 1 \in 1 .. Len(old) /\ 1 + (k - 1) = k)
    BY <1>1, <1>2
  <2> QED
    BY <1>2, <2>1
<1> QED
    BY <1>2, <1>3, <1>4, <1>5, <1>6 DEF old

\* So every place but the new node's is one there was.
WasAt(N, N2, i, s, j, t, k) ==
    \/ j = i /\ t = s /\ k = 1
    \/ \E m \in 1 .. Len(N[j][t]) :
          N2[j][t][k] = N[j][t][m] /\ k = (IF j = i /\ t = s THEN m + 1 ELSE m)

LEMMA PlacedWas ==
    ASSUME NEW N \in Lists, NEW i \in Wheels, NEW s \in TimerSlots, NEW node \in Node,
           NEW N2, Placed(N, N2, i, s, node),
           NEW j \in Wheels, NEW t \in TimerSlots, NEW k \in 1 .. Len(N2[j][t])
    PROVE  WasAt(N, N2, i, s, j, t, k)
<1>1. CASE j = i /\ t = s
  <2>1. k = 1 \/ (k - 1 \in 1 .. Len(N[i][s]) /\ N2[i][s][k] = N[i][s][k - 1])
    BY <1>1, PlacedAt
  <2>2. (k - 1) + 1 = k
    OBVIOUS
  <2> QED
    BY <1>1, <2>1, <2>2 DEF WasAt
<1>2. CASE ~ (j = i /\ t = s)
    BY <1>2, PlacedAt DEF WasAt
<1> QED
    BY <1>1, <1>2

LEMMA SpreadPlaced ==
    ASSUME NEW N \in Lists, NEW P \in Seq(Node), NEW X, Spread(N, P, X),
           NEW i \in Wheels, NEW s \in TimerSlots, NEW node \in Node,
           Apart(N, P, X, node.id), NEW N2, Placed(N, N2, i, s, node)
    PROVE  Spread(N2, P, X)
<1>0. N2[i][s][1] = node
    BY PlacedAt
<1>1. ASSUME NEW j \in Wheels, NEW t \in TimerSlots, <<j, t>> \notin X,
             NEW u \in Wheels, NEW v \in TimerSlots, <<u, v>> \notin X
      PROVE  Once(N2, j, t, u, v)
  <2> SUFFICES ASSUME NEW k \in 1 .. Len(N2[j][t]), NEW l \in 1 .. Len(N2[u][v]),
                      N2[j][t][k].id = N2[u][v][l].id
               PROVE  j = u /\ t = v /\ k = l
      BY DEF Once
  <2>0. Once(N, j, t, u, v)
    BY <1>1 DEF Spread
  <2>1. WasAt(N, N2, i, s, j, t, k) /\ WasAt(N, N2, i, s, u, v, l)
    BY PlacedWas
  <2>2. CASE (j = i /\ t = s /\ k = 1) /\ (u = i /\ v = s /\ l = 1)
    BY <2>2
  <2>3. ASSUME NEW m \in 1 .. Len(N[u][v]), N2[u][v][l] = N[u][v][m],
               j = i /\ t = s /\ k = 1
        PROVE  FALSE
    BY <1>0, <1>1, <2>3 DEF Apart
  <2>4. ASSUME NEW m \in 1 .. Len(N[j][t]), N2[j][t][k] = N[j][t][m],
               u = i /\ v = s /\ l = 1
        PROVE  FALSE
    BY <1>0, <1>1, <2>4 DEF Apart
  <2>5. ASSUME NEW m \in 1 .. Len(N[j][t]), N2[j][t][k] = N[j][t][m],
               k = (IF j = i /\ t = s THEN m + 1 ELSE m),
               NEW n \in 1 .. Len(N[u][v]), N2[u][v][l] = N[u][v][n],
               l = (IF u = i /\ v = s THEN n + 1 ELSE n)
        PROVE  j = u /\ t = v /\ k = l
    <3>1. N[j][t][m].id = N[u][v][n].id
      BY <2>5
    <3>2. j = u /\ t = v /\ m = n
      BY <2>0, <3>1 DEF Once
    <3>3. CASE j = i /\ t = s
      <4>1. k = m + 1 /\ l = n + 1
        BY <2>5, <3>2, <3>3
      <4> QED
        BY <3>2, <4>1
    <3>4. CASE ~ (j = i /\ t = s)
      <4>1. k = m /\ l = n
        BY <2>5, <3>2, <3>4
      <4> QED
        BY <3>2, <4>1
    <3> QED
      BY <3>3, <3>4
  <2> QED
    BY <2>1, <2>2, <2>3, <2>4, <2>5 DEF WasAt
<1>2. ASSUME NEW j \in Wheels, NEW t \in TimerSlots, <<j, t>> \notin X, NEW k \in 1 .. Len(N2[j][t]),
             NEW l \in 1 .. Len(P)
      PROVE  N2[j][t][k].id # P[l].id
  <2>1. WasAt(N, N2, i, s, j, t, k)
    BY PlacedWas
  <2>2. CASE j = i /\ t = s /\ k = 1
    BY <1>0, <2>2 DEF Apart
  <2>3. ASSUME NEW m \in 1 .. Len(N[j][t]), N2[j][t][k] = N[j][t][m]
        PROVE  N2[j][t][k].id # P[l].id
    BY <1>2, <2>3 DEF Spread
  <2> QED
    BY <2>1, <2>2, <2>3 DEF WasAt
<1>3. \A k, l \in 1 .. Len(P) : P[k].id = P[l].id => k = l
    BY Zenon DEF Spread
<1>5. \A j \in Wheels, t \in TimerSlots : <<j, t>> \notin X =>
         \A k \in 1 .. Len(N2[j][t]), l \in 1 .. Len(P) : N2[j][t][k].id # P[l].id
    BY <1>2, Zenon
<1> QED
    BY <1>1, <1>3, <1>5 DEF Spread

LEMMA HeldPlaced ==
    ASSUME NEW N \in Lists, NEW P, NEW X, NEW id,
           NEW i \in Wheels, NEW s \in TimerSlots, <<i, s>> \notin X, NEW node \in Node,
           NEW N2, Placed(N, N2, i, s, node), Held(N, P, X, id) \/ id = node.id
    PROVE  Held(N2, P, X, id)
<1>1. CASE id = node.id
    BY <1>1, PlacedAt DEF Held
<1>2. ASSUME NEW j \in Wheels, NEW t \in TimerSlots, <<j, t>> \notin X,
             NEW k \in 1 .. Len(N[j][t]), N[j][t][k].id = id
      PROVE  Held(N2, P, X, id)
  <2>1. CASE j = i /\ t = s
    <3>1. k + 1 \in 1 .. Len(N2[i][s]) /\ N2[i][s][k + 1].id = id
      BY <1>2, <2>1, PlacedAt
    <3> QED
      BY <3>1 DEF Held
  <2>2. CASE ~ (j = i /\ t = s)
    <3>1. N2[j][t] = N[j][t]
      BY <2>2, PlacedAt
    <3> QED
      BY <1>2, <3>1 DEF Held
  <2> QED
    BY <2>1, <2>2
<1>3. CASE \E l \in 1 .. Len(P) : P[l].id = id
    BY <1>3 DEF Held
<1> QED
    BY <1>1, <1>2, <1>3 DEF Held

LEMMA NumberedPlaced ==
    ASSUME NEW N \in Lists, NEW P, NEW n, Numbered(N, P, n),
           NEW i \in Wheels, NEW s \in TimerSlots, NEW node \in Node, node.id \in 1 .. n,
           NEW N2, Placed(N, N2, i, s, node)
    PROVE  Numbered(N2, P, n)
<1>1. ASSUME NEW j \in Wheels, NEW t \in TimerSlots, NEW k \in 1 .. Len(N2[j][t])
      PROVE  N2[j][t][k].id \in 1 .. n
  <2>1. WasAt(N, N2, i, s, j, t, k)
    BY PlacedWas
  <2>2. CASE j = i /\ t = s /\ k = 1
    <3>1. N2[j][t][k] = node
      BY <2>2, PlacedAt
    <3> QED
      BY <3>1
  <2>3. ASSUME NEW m \in 1 .. Len(N[j][t]), N2[j][t][k] = N[j][t][m]
        PROVE  N2[j][t][k].id \in 1 .. n
    BY <2>3 DEF Numbered
  <2> QED
    BY <2>1, <2>2, <2>3 DEF WasAt
<1> QED
    BY <1>1 DEF Numbered

\* The walked slot is emptied, and the walk of another begins.
Cleared(N, N2, i, s) == N2 = [N EXCEPT ![i][s] = <<>>]

LEMMA Emptied ==
    ASSUME NEW N \in Lists, NEW i \in Wheels, NEW s \in TimerSlots,
           NEW X, X \subseteq {<<i, s>>}, Spread(N, <<>>, X), NEW n, Numbered(N, <<>>, n),
           NEW N2, Cleared(N, N2, i, s)
    PROVE  /\ N2 \in Lists /\ Spread(N2, <<>>, {}) /\ Numbered(N2, <<>>, n)
           /\ \A id : Held(N, <<>>, {<<i, s>>}, id) => Held(N2, <<>>, {}, id)
<1>0. <<>> \in Seq(Node) /\ Len(<<>>) = 0
    BY EmptySeq
<1>1. /\ N2 \in Lists /\ N2[i][s] = <<>>
      /\ \A j \in Wheels, t \in TimerSlots : j # i \/ t # s => N2[j][t] = N[j][t]
    BY <1>0 DEF Lists, Cleared
<1>2. \A j \in Wheels, t \in TimerSlots : \A k \in 1 .. Len(N2[j][t]) :
         <<j, t>> # <<i, s>> /\ <<j, t>> \notin X /\ N2[j][t] = N[j][t]
    BY <1>0, <1>1
<1>3. Spread(N2, <<>>, {})
  <2>1. ASSUME NEW j \in Wheels, NEW t \in TimerSlots, NEW u \in Wheels, NEW v \in TimerSlots
        PROVE  Once(N2, j, t, u, v)
    <3> SUFFICES ASSUME NEW k \in 1 .. Len(N2[j][t]), NEW l \in 1 .. Len(N2[u][v]),
                        N2[j][t][k].id = N2[u][v][l].id
                 PROVE  j = u /\ t = v /\ k = l
        BY DEF Once
    <3>1. /\ N2[j][t] = N[j][t] /\ <<j, t>> \notin X
          /\ N2[u][v] = N[u][v] /\ <<u, v>> \notin X
      BY <1>2
    <3>2. k \in 1 .. Len(N[j][t]) /\ l \in 1 .. Len(N[u][v]) /\ N[j][t][k].id = N[u][v][l].id
      BY <3>1
    <3>3. Once(N, j, t, u, v)
      BY <3>1 DEF Spread
    <3> QED
      BY <3>2, <3>3 DEF Once
  <2>2. \A k \in 1 .. Len(<<>>) : FALSE
    BY <1>0
  <2> QED
    BY <2>1, <2>2 DEF Spread
<1>5. Numbered(N2, <<>>, n)
  <2>1. ASSUME NEW j \in Wheels, NEW t \in TimerSlots, NEW k \in 1 .. Len(N2[j][t])
        PROVE  N2[j][t][k].id \in 1 .. n
    <3>1. N2[j][t] = N[j][t]
      BY <1>2
    <3> QED
      BY <3>1 DEF Numbered
  <2>2. \A k \in 1 .. Len(<<>>) : FALSE
    BY <1>0
  <2> QED
    BY <2>1, <2>2, Zenon DEF Numbered
<1>4. ASSUME NEW id, Held(N, <<>>, {<<i, s>>}, id) PROVE Held(N2, <<>>, {}, id)
    BY <1>0, <1>1, <1>4 DEF Held
<1> QED
    BY <1>1, <1>3, <1>4, <1>5

LEMMA WalkBegins ==
    ASSUME NEW N \in Lists, NEW i \in Wheels, NEW s \in TimerSlots,
           Spread(N, <<>>, {}), NEW n, Numbered(N, <<>>, n)
    PROVE  /\ N[i][s] \in Seq(Node) /\ Spread(N, N[i][s], {<<i, s>>})
           /\ Numbered(N, N[i][s], n)
           /\ \A id : Held(N, <<>>, {}, id) => Held(N, N[i][s], {<<i, s>>}, id)
<1>0. Len(<<>>) = 0
    BY EmptySeq
<1>1. N[i][s] \in Seq(Node)
    BY DEF Lists
<1>2. \A j \in Wheels, t \in TimerSlots : <<j, t>> \notin {<<i, s>>} => j # i \/ t # s
    OBVIOUS
<1>3. Spread(N, N[i][s], {<<i, s>>})
    BY <1>2 DEF Spread, Once
<1>4. Numbered(N, N[i][s], n)
    BY DEF Numbered
<1>5. ASSUME NEW id, Held(N, <<>>, {}, id) PROVE Held(N, N[i][s], {<<i, s>>}, id)
    BY <1>0, <1>5 DEF Held
<1> QED
    BY <1>1, <1>3, <1>4, <1>5

---------------------------------------------------------------------------------
(* addNode.                                                                  *)

\* From a digit other than 0 a node goes to a slot other than the one its wheel is at.
LEMMA Turned ==
    \A w \in Nat \ {0} : \A a \in 0 .. w - 1, b \in 1 .. w - 1 :
        (a + b) % w \in (0 .. w - 1) \ {a}
<1> SUFFICES ASSUME NEW w \in Nat \ {0}, NEW a \in 0 .. w - 1, NEW b \in 1 .. w - 1
             PROVE  (a + b) % w \in 0 .. w - 1 /\ (a + b) % w # a
    OBVIOUS
<1>1. CASE a + b < w
  <2>1. (a + b) % w = a + b
    BY <1>1
  <2> QED
    BY <2>1, <1>1
<1>2. CASE a + b >= w
  <2>1. (a + b) % w = a + b - w
    BY <1>2
  <2> QED
    BY <2>1, <1>2
<1> QED
    BY <1>1, <1>2

LEMMA Highest ==
    ASSUME NEW top \in Int, NEW L, L \subseteq 0 .. top, L # {}
    PROVE  \E i \in L : \A j \in L : j <= i
<1> DEFINE T == {top - i : i \in L}
<1>1. T \subseteq Nat /\ T # {}
  <2>1. ASSUME NEW i \in L PROVE top - i \in Nat
    <3>1. i \in 0 .. top
      OBVIOUS
    <3> QED
      BY ONLY top \in Int, <3>1
  <2> QED
    BY <2>1
<1>2. PICK x \in T : \A y \in T : ~ (<<y, x>> \in OpToRel(<, Nat))
    BY <1>1, WFMin, NatLessThanWellFounded
<1>3. \A y \in T : ~ (y < x)
    BY <1>1, <1>2 DEF OpToRel
<1>4. PICK i \in L : x = top - i
    OBVIOUS
<1>5. ASSUME NEW j \in L PROVE j <= i
  <2>1. ~ (top - j < top - i)
    BY <1>3, <1>4
  <2>2. i \in Int /\ j \in Int
    OBVIOUS
  <2> QED
    BY ONLY top \in Int, <2>1, <2>2
<1> QED
    BY <1>5

TopOf(top, node) == CHOOSE i \in Levels(top, node) : \A j \in Levels(top, node) : j <= i

LEMMA Goes ==
    ASSUME pos \in [Wheels -> TimerSlots], NEW top \in Int, top < K, NEW node \in Node,
           Levels(top, node) # {}
    PROVE  /\ TopOf(top, node) \in Wheels
           /\ slot(TopOf(top, node), node) \in TimerSlots \ {pos[TopOf(top, node)]}
<1>1. Levels(top, node) \subseteq 0 .. top
    BY DEF Levels
<1>2. \E i \in Levels(top, node) : \A j \in Levels(top, node) : j <= i
    BY <1>1, Highest
<1>3. TopOf(top, node) \in Levels(top, node)
    BY <1>2 DEF TopOf
<1> DEFINE i == TopOf(top, node)
           a == pos[i]
           b == bits(node.delay, i)
<1>4. i \in 0 .. top /\ bits(node.delay, i) > 0
    BY <1>3 DEF Levels
<1> HIDE DEF i
<1>5. K \in Nat \ {0} /\ W \in Nat \ {0, 1}
    BY TimerAssumption
<1>6. i \in Wheels
    BY <1>4, <1>5 DEF Wheels
<1>7. node.delay \in Delays \cup Cycles
    BY DEF Node
<1>8. bits(node.delay, i) \in TimerSlots /\ pos[i] \in TimerSlots
    BY <1>6, <1>7, DigitTypes
<1>9. b \in 1 .. W - 1 /\ a \in 0 .. W - 1
    BY <1>4, <1>5, <1>8 DEF TimerSlots
<1> HIDE DEF a, b
<1>10. (a + b) % W \in (0 .. W - 1) \ {a}
    BY <1>5, <1>9, Turned
<1> QED
    BY <1>6, <1>10 DEF slot, TimerSlots, i, a, b

\* What waits in one list only adds to its slot.
LEMMA AddNode ==
    ASSUME pos \in [Wheels -> TimerSlots], NEW top \in Int, top < K, NEW node \in Node,
           Levels(top, node) # {}, addNode(top, node)
    PROVE  \E i \in Wheels, s \in TimerSlots :
              /\ i = TopOf(top, node) /\ s = slot(i, node) /\ s # pos[i]
              /\ Placed(nodes, nodes', i, s, node)
<1>1. PICK i \in Wheels, s \in TimerSlots :
         i = TopOf(top, node) /\ s = slot(i, node) /\ s # pos[i]
    BY Goes
<1>2. Placed(nodes, nodes', i, s, node)
    BY <1>1 DEF addNode, TopOf, Placed
<1> QED
    BY <1>1, <1>2

---------------------------------------------------------------------------------
(* A handler that is there was there.                                        *)

LEMMA BackDel ==
    ASSUME HandlersInv, NEW id \in Ids, delTimer(id), NEW j \in 1 .. id_, hasHandler(j)'
    PROVE  hasHandler(j)
<1> DEFINE c     == bucket(id)
           chain == handler_map_[c]
           at    == CHOOSE k \in DOMAIN chain : chain[k] = id
           left  == IF ~ hasHandler(id) THEN chain
                    ELSE IF at = 1 THEN <<>> ELSE RemoveAt(chain, at)
<1>1. handler_map_' = [handler_map_ EXCEPT ![c] = left] /\ id <= id_
    BY DEF delTimer, del
<1>2. /\ handler_map_ \in [Buckets -> Seq(Nat)] /\ c \in Buckets /\ chain \in Seq(Nat)
      /\ bucket(j) \in Buckets
  <2>1. id_ \in Nat /\ handler_map_ \in [Buckets -> Seq(Nat)]
    BY DEF HandlersInv, MapTypes
  <2>2. c \in Buckets /\ bucket(j) \in Buckets
    BY <2>1, BucketType DEF Ids
  <2> QED
    BY <2>1, <2>2
<1>3. PICK k \in 1 .. Len(handler_map_'[bucket(j)]) : handler_map_'[bucket(j)][k] = j
    BY DEF hasHandler, Contains, bucket
<1>4. CASE bucket(j) # c
    BY <1>1, <1>2, <1>3, <1>4 DEF hasHandler, Contains
<1>5. CASE bucket(j) = c
  <2>1. handler_map_'[bucket(j)] = left
    BY <1>1, <1>2, <1>5
  <2>2. CASE ~ hasHandler(id)
    BY <1>3, <1>5, <2>1, <2>2 DEF hasHandler, Contains
  <2>3. CASE hasHandler(id)
    <3>0. DOMAIN chain = 1 .. Len(chain)
      BY <1>2
    <3>1. at \in 1 .. Len(chain) /\ chain[at] = id
      BY <2>3, <3>0 DEF hasHandler, Contains, c
    <3>2. CASE at = 1
      BY <1>3, <2>1, <2>3, <3>2, EmptySeq
    <3>3. CASE at # 1
      <4>1. left = RemoveAt(chain, at)
        BY <2>3, <3>3
      <4> HIDE DEF left, at, chain
      <4>2. \E l \in 1 .. Len(chain) : left[k] = chain[l]
        BY <1>2, <1>3, <2>1, <3>1, <4>1, Unlinked, SMTT(30)
      <4>3. \E l \in 1 .. Len(chain) : chain[l] = j
        BY <1>3, <2>1, <4>2
      <4> QED
        BY <1>5, <4>3 DEF hasHandler, Contains, chain, c
    <3> QED
      BY <3>2, <3>3
  <2> QED
    BY <2>2, <2>3
<1> QED
    BY <1>4, <1>5

LEMMA BackAdd ==
    ASSUME HandlersInv, NEW delay \in Delays, NEW cycle \in Cycles, addTimer(delay, cycle),
           NEW j \in 1 .. id_, hasHandler(j)'
    PROVE  hasHandler(j)
<1>1. /\ id_ \in Nat /\ handler_map_ \in [Buckets -> Seq(Nat)]
    BY DEF HandlersInv, MapTypes
<1>2. bucket(j) \in Buckets /\ bucket(id_ + 1) \in Buckets
    BY <1>1, BucketType
<1>3. PICK n \in Nat, c \in Buckets : n = id_ + 1 /\ c = bucket(id_ + 1)
    BY <1>1, <1>2
<1>4. handler_map_' = [handler_map_ EXCEPT ![c] = Append(@, n)]
    BY <1>3 DEF addTimer, set
<1>5. PICK k \in 1 .. Len(handler_map_'[bucket(j)]) : handler_map_'[bucket(j)][k] = j
    BY DEF hasHandler, Contains, bucket
<1>6. CASE bucket(j) # c
    BY <1>1, <1>2, <1>4, <1>5, <1>6 DEF hasHandler, Contains
<1>7. CASE bucket(j) = c
  <2>1. handler_map_[c] \in Seq(Nat) /\ handler_map_'[c] = Append(handler_map_[c], n)
    BY <1>1, <1>4
  <2>2. /\ Len(handler_map_[c]) \in Nat /\ Len(handler_map_'[c]) = Len(handler_map_[c]) + 1
        /\ handler_map_'[c][Len(handler_map_[c]) + 1] = n
        /\ \A l \in 1 .. Len(handler_map_[c]) : handler_map_'[c][l] = handler_map_[c][l]
    BY <2>1, AppendProperties
  <2>3. j # n
    BY <1>1, <1>3
  <2>4. k # Len(handler_map_[c]) + 1
    BY <1>5, <1>7, <2>2, <2>3
  <2>5. k \in 1 .. Len(handler_map_[c]) /\ handler_map_[c][k] = j
    BY <1>5, <1>7, <2>2, <2>4
  <2> QED
    BY <1>7, <2>5 DEF hasHandler, Contains
<1> QED
    BY <1>6, <1>7

---------------------------------------------------------------------------------
(* The nodes of a timer.                                                     *)

NodeTypes ==
    /\ id_ \in Nat /\ pos \in [Wheels -> TimerSlots] /\ nodes \in Lists
    /\ p \in Seq(Node) /\ index \in Wheels /\ pc \in {"idle", "walk", "handler"}
    /\ due \subseteq 1 .. id_
    /\ (pc = "idle" => p = <<>>) /\ (pc = "handler" => p # <<>>)

\* A timer that has yet to fire, and whose handler is there, has a node.
Kept == \A id \in due : hasHandler(id) => Held(nodes, p, InWalk, id)

NodesInv ==
    /\ NodeTypes
    /\ Numbered(nodes, p, id_)
    /\ Spread(nodes, p, InWalk)
    /\ Kept

LEMMA ZeroWheel == 0 \in Wheels /\ K \in Nat /\ K - 1 \in Int /\ K - 1 < K
  BY TimerAssumption DEF Wheels

LEMMA NodesInit == TimerInit => NodesInv
<1> SUFFICES ASSUME TimerInit PROVE NodesInv
    OBVIOUS
<1>1. /\ id_ = 0 /\ pos \in [Wheels -> TimerSlots] /\ p = <<>> /\ index = 0 /\ pc = "idle"
      /\ due = {} /\ nodes = [i \in Wheels |-> [s \in TimerSlots |-> <<>>]]
    BY DEF TimerInit
<1>2. <<>> \in Seq(Node) /\ Len(<<>>) = 0
    BY EmptySeq
<1>3. NodeTypes
    BY <1>1, <1>2, ZeroWheel DEF NodeTypes, Lists
<1>4. \A i \in Wheels, s \in TimerSlots : nodes[i][s] = <<>>
    BY <1>1
<1>5. Numbered(nodes, p, id_)
    BY <1>1, <1>2, <1>4 DEF Numbered
<1>6. Spread(nodes, p, InWalk)
    BY <1>1, <1>2, <1>4 DEF Spread, Once
<1>7. Kept
    BY <1>1 DEF Kept
<1> QED
    BY <1>3, <1>5, <1>6, <1>7 DEF NodesInv

\* What is said of a node that is put in place, for addTimer, moveDown and handlerReturns:
\* P is what is left to walk then.
LEMMA PutInPlace ==
    ASSUME NEW N \in Lists, NEW P \in Seq(Node), NEW X, Spread(N, P, X),
           NEW n, Numbered(N, P, n),
           NEW node \in Node, node.id \in 1 .. n, Apart(N, P, X, node.id),
           NEW i \in Wheels, NEW s \in TimerSlots, <<i, s>> \notin X,
           NEW N2, Placed(N, N2, i, s, node)
    PROVE  /\ N2 \in Lists /\ Spread(N2, P, X) /\ Numbered(N2, P, n)
           /\ \A id : Held(N, P, X, id) \/ id = node.id => Held(N2, P, X, id)
<1>1. N2 \in Lists
    BY PlacedAt
<1>2. Spread(N2, P, X)
    BY SpreadPlaced
<1>3. Numbered(N2, P, n)
    BY NumberedPlaced
<1>4. ASSUME NEW id, Held(N, P, X, id) \/ id = node.id PROVE Held(N2, P, X, id)
    BY <1>4, HeldPlaced
<1> QED
    BY <1>1, <1>2, <1>3, <1>4

LEMMA NumberedMore ==
    ASSUME NEW N, NEW P, NEW n \in Nat, Numbered(N, P, n), NEW X
    PROVE  Numbered(N, P, n + 1) /\ Apart(N, P, X, n + 1)
<1>1. \A m \in 1 .. n : m \in 1 .. n + 1 /\ m # n + 1
    OBVIOUS
<1>2. Numbered(N, P, n + 1)
    BY <1>1 DEF Numbered
<1>3. Apart(N, P, X, n + 1)
    BY <1>1 DEF Numbered, Apart
<1> QED
    BY <1>2, <1>3

LEMMA NumberedTail ==
    ASSUME NEW N, NEW P \in Seq(Node), P # <<>>, NEW n, Numbered(N, P, n)
    PROVE  Numbered(N, Tail(P), n) /\ Head(P).id \in 1 .. n
<1>1. Head(P).id \in 1 .. n
    BY TailAt DEF Numbered
<1>2. ASSUME NEW l \in 1 .. Len(Tail(P)) PROVE Tail(P)[l].id \in 1 .. n
    BY TailAt DEF Numbered
<1>3. Numbered(N, Tail(P), n)
    BY <1>2, Zenon DEF Numbered
<1> QED
    BY <1>1, <1>3

LEMMA NodesAdd ==
    ASSUME HandlersInv, NodesInv, NEW delay \in Delays, NEW cycle \in Cycles,
           addTimer(delay, cycle)
    PROVE  NodesInv'
<1>1. PICK n \in Nat : n = id_
    BY DEF NodesInv, NodeTypes
<1>2. PICK node : node = [id |-> n + 1, delay |-> delay, cycle |-> cycle]
    OBVIOUS
<1>3. node \in Node /\ node.id = n + 1 /\ n + 1 \in 1 .. n + 1 /\ n + 1 \in Nat
    BY <1>1, <1>2 DEF Node
<1>4. /\ id_' = n + 1 /\ UNCHANGED <<pos, index, p, pc>>
      /\ \/ UNCHANGED <<nodes, due>>
         \/ /\ Levels(K - 1, node) # {} /\ addNode(K - 1, node) /\ due' = due \cup {n + 1}
    BY <1>1, <1>2, SMTT(90) DEF addTimer, addNode, Levels, slot
<1>5. /\ NodeTypes /\ Numbered(nodes, p, n) /\ Spread(nodes, p, InWalk) /\ Kept
    BY <1>1 DEF NodesInv
<1>6. InWalk' = InWalk
    BY <1>4 DEF InWalk
<1>7. Numbered(nodes, p, n + 1) /\ Apart(nodes, p, InWalk, n + 1)
    BY <1>5, NumberedMore
<1>8. \A id \in due : hasHandler(id)' => Held(nodes, p, InWalk, id)
    BY <1>5, BackAdd DEF Kept, NodeTypes
<1>9. \A m \in 1 .. n : m \in 1 .. n + 1
    OBVIOUS
<1>10. CASE UNCHANGED <<nodes, due>>
  <2>1. NodeTypes'
    BY <1>1, <1>3, <1>4, <1>5, <1>9, <1>10 DEF NodeTypes
  <2>2. Kept'
    BY <1>4, <1>6, <1>8, <1>10 DEF Kept
  <2> QED
    BY <1>4, <1>5, <1>6, <1>7, <1>10, <2>1, <2>2 DEF NodesInv
<1>11. CASE Levels(K - 1, node) # {} /\ addNode(K - 1, node) /\ due' = due \cup {n + 1}
  <2>1. PICK i \in Wheels, s \in TimerSlots : s # pos[i] /\ Placed(nodes, nodes', i, s, node)
    BY <1>3, <1>5, <1>11, AddNode, ZeroWheel DEF NodeTypes
  <2>2. <<i, s>> \notin InWalk
    BY <2>1 DEF InWalk
  <2>3. /\ nodes' \in Lists /\ Spread(nodes', p, InWalk) /\ Numbered(nodes', p, n + 1)
        /\ \A id : Held(nodes, p, InWalk, id) \/ id = n + 1 => Held(nodes', p, InWalk, id)
    BY <1>3, <1>5, <1>7, <2>1, <2>2, PutInPlace DEF NodeTypes
  <2>4. NodeTypes'
    BY <1>1, <1>3, <1>4, <1>5, <1>9, <1>11, <2>3 DEF NodeTypes
  <2>5. Kept'
    BY <1>4, <1>6, <1>8, <1>11, <2>3 DEF Kept
  <2> QED
    BY <1>4, <1>6, <2>3, <2>4, <2>5 DEF NodesInv
<1> QED
    BY <1>4, <1>10, <1>11

LEMMA NodesDel ==
    ASSUME HandlersInv, NodesInv, NEW id \in Ids, delTimer(id)
    PROVE  NodesInv'
<1>1. UNCHANGED <<id_, pos, nodes, index, p, pc>> /\ due' = due \ {id}
    BY DEF delTimer
<1>2. InWalk' = InWalk
    BY <1>1 DEF InWalk
<1>3. NodeTypes'
    BY <1>1 DEF NodesInv, NodeTypes
<1>4. \A j \in due : hasHandler(j)' => Held(nodes, p, InWalk, j)
    BY BackDel DEF NodesInv, Kept, NodeTypes
<1>5. Kept'
    BY <1>1, <1>2, <1>4 DEF Kept
<1> QED
    BY <1>1, <1>2, <1>3, <1>5 DEF NodesInv

LEMMA NodesTick ==
    ASSUME NodesInv, tick
    PROVE  NodesInv'
<1>1. /\ pc = "idle" /\ index' = 0 /\ pos' = [pos EXCEPT ![0] = (@ + 1) % W]
      /\ p' = nodes[0][pos'[0]] /\ pc' = "walk"
      /\ UNCHANGED <<id_, nodes, handler_map_, due>>
    BY DEF tick, wheeling
<1>2. /\ id_ \in Nat /\ pos \in [Wheels -> TimerSlots] /\ nodes \in Lists /\ p = <<>>
      /\ InWalk = {} /\ Numbered(nodes, <<>>, id_) /\ Spread(nodes, <<>>, {})
      /\ due \subseteq 1 .. id_ /\ \A id \in due : hasHandler(id) => Held(nodes, <<>>, {}, id)
    BY <1>1 DEF NodesInv, NodeTypes, Kept, InWalk
<1>3. PICK s \in TimerSlots : s = (pos[0] + 1) % W
  <2>1. pos[0] \in 0 .. W - 1 /\ W \in Nat \ {0, 1}
    BY <1>2, ZeroWheel, TimerAssumption DEF TimerSlots
  <2>2. (pos[0] + 1) % W \in 0 .. W - 1
    BY ONLY <2>1
  <2> QED
    BY <2>2 DEF TimerSlots
<1>4. /\ pos' \in [Wheels -> TimerSlots] /\ pos'[0] = s /\ p' = nodes[0][s]
      /\ InWalk' = {<<0, s>>}
    BY <1>1, <1>2, <1>3, ZeroWheel DEF InWalk
<1>5. /\ nodes[0][s] \in Seq(Node) /\ Spread(nodes, nodes[0][s], {<<0, s>>})
      /\ Numbered(nodes, nodes[0][s], id_)
      /\ \A id : Held(nodes, <<>>, {}, id) => Held(nodes, nodes[0][s], {<<0, s>>}, id)
    BY <1>2, ZeroWheel, WalkBegins
<1>6. NodeTypes'
    BY <1>1, <1>2, <1>4, <1>5, ZeroWheel DEF NodeTypes
<1>7. Kept'
    BY <1>1, <1>2, <1>4, <1>5 DEF Kept, hasHandler, bucket
<1> QED
    BY <1>1, <1>4, <1>5, <1>6, <1>7 DEF NodesInv

\* The facts of a walk that takes its first node.
LEMMA WalkTakes ==
    ASSUME NodesInv, p # <<>>
    PROVE  /\ id_ \in Nat /\ nodes \in Lists
           /\ Tail(p) \in Seq(Node) /\ Head(p) \in Node /\ Head(p).id \in 1 .. id_
           /\ Spread(nodes, Tail(p), InWalk) /\ Numbered(nodes, Tail(p), id_)
           /\ Apart(nodes, Tail(p), InWalk, Head(p).id)
           /\ \A id \in due : hasHandler(id) /\ id # Head(p).id => Held(nodes, Tail(p), InWalk, id)
<1>1. /\ id_ \in Nat /\ nodes \in Lists /\ p \in Seq(Node) /\ Spread(nodes, p, InWalk)
      /\ Numbered(nodes, p, id_) /\ \A id \in due : hasHandler(id) => Held(nodes, p, InWalk, id)
    BY DEF NodesInv, NodeTypes, Kept
<1>2. Tail(p) \in Seq(Node) /\ Head(p) \in Node
    BY <1>1, TailAt
<1>3. Spread(nodes, Tail(p), InWalk) /\ Apart(nodes, Tail(p), InWalk, Head(p).id)
    BY <1>1, SpreadTail
<1>4. Numbered(nodes, Tail(p), id_) /\ Head(p).id \in 1 .. id_
    BY <1>1, NumberedTail
<1>5. ASSUME NEW id \in due, hasHandler(id), id # Head(p).id
      PROVE  Held(nodes, Tail(p), InWalk, id)
    BY <1>1, <1>5, HeldTail
<1> QED
    BY <1>1, <1>2, <1>3, <1>4, <1>5

LEMMA NodesMove ==
    ASSUME NodesInv, moveDown
    PROVE  NodesInv'
<1>1. /\ pc = "walk" /\ p # <<>> /\ Levels(index - 1, Head(p)) # {} /\ p' = Tail(p)
      /\ UNCHANGED <<id_, pos, handler_map_, index, pc, due>>
    BY DEF moveDown
<1>2. /\ id_ \in Nat /\ nodes \in Lists
      /\ Tail(p) \in Seq(Node) /\ Head(p) \in Node /\ Head(p).id \in 1 .. id_
      /\ Spread(nodes, Tail(p), InWalk) /\ Numbered(nodes, Tail(p), id_)
      /\ Apart(nodes, Tail(p), InWalk, Head(p).id)
      /\ \A id \in due : hasHandler(id) /\ id # Head(p).id => Held(nodes, Tail(p), InWalk, id)
    BY <1>1, WalkTakes
<1>3. PICK node \in Node, top \in Int : node = Head(p) /\ top = index - 1 /\ top < K
    BY <1>2, TimerAssumption DEF NodesInv, NodeTypes, Wheels
<1>4. Levels(top, node) # {} /\ addNode(top, node)
    BY <1>1, <1>3 DEF moveDown, addNode, Levels, slot
<1>5. pos \in [Wheels -> TimerSlots] /\ index \in Wheels /\ due \subseteq 1 .. id_
    BY DEF NodesInv, NodeTypes
<1>6. PICK i \in Wheels, s \in TimerSlots : s # pos[i] /\ Placed(nodes, nodes', i, s, node)
    BY <1>3, <1>4, <1>5, AddNode
<1>7. <<i, s>> \notin InWalk
    BY <1>6 DEF InWalk
<1>8. /\ nodes' \in Lists /\ Spread(nodes', Tail(p), InWalk) /\ Numbered(nodes', Tail(p), id_)
      /\ \A id : Held(nodes, Tail(p), InWalk, id) \/ id = node.id => Held(nodes', Tail(p), InWalk, id)
    BY <1>2, <1>3, <1>6, <1>7, PutInPlace
<1>9. InWalk' = InWalk
    BY <1>1 DEF InWalk
<1>10. NodeTypes'
    BY <1>1, <1>2, <1>5, <1>8 DEF NodeTypes
<1>11. Kept'
    BY <1>1, <1>2, <1>3, <1>8, <1>9 DEF Kept, hasHandler, bucket
<1> QED
    BY <1>1, <1>8, <1>9, <1>10, <1>11 DEF NodesInv

LEMMA NodesHandle ==
    ASSUME NodesInv, handleTimer
    PROVE  NodesInv'
<1>1. /\ pc = "walk" /\ p # <<>>
      /\ \/ pc' = "handler" /\ UNCHANGED p
         \/ ~ hasHandler(Head(p).id) /\ p' = Tail(p) /\ UNCHANGED pc
      /\ UNCHANGED <<id_, pos, nodes, handler_map_, index, due>>
    BY DEF handleTimer
<1>2. InWalk' = InWalk
    BY <1>1 DEF InWalk
<1>3. /\ Tail(p) \in Seq(Node)
      /\ Spread(nodes, Tail(p), InWalk) /\ Numbered(nodes, Tail(p), id_)
      /\ \A id \in due : hasHandler(id) /\ id # Head(p).id => Held(nodes, Tail(p), InWalk, id)
    BY <1>1, WalkTakes
<1>4. NodeTypes'
    BY <1>1, <1>3 DEF NodesInv, NodeTypes
<1>5. CASE pc' = "handler" /\ UNCHANGED p
  <2>1. Kept'
    BY <1>1, <1>2, <1>5 DEF NodesInv, Kept, hasHandler, bucket
  <2> QED
    BY <1>1, <1>2, <1>4, <1>5, <2>1 DEF NodesInv
<1>6. CASE ~ hasHandler(Head(p).id) /\ p' = Tail(p)
  <2>1. \A id \in due : hasHandler(id) => Held(nodes, Tail(p), InWalk, id)
    BY <1>3, <1>6
  <2>2. Kept'
    BY <1>1, <1>2, <1>6, <2>1 DEF Kept, hasHandler, bucket
  <2> QED
    BY <1>1, <1>2, <1>3, <1>4, <1>6, <2>2 DEF NodesInv
<1> QED
    BY <1>1, <1>5, <1>6

LEMMA NodesReturn ==
    ASSUME NodesInv, NEW ret \in BOOLEAN, handlerReturns(ret)
    PROVE  NodesInv'
<1> DEFINE again == [Head(p) EXCEPT !.delay = Head(p).cycle]
<1>1. /\ pc = "handler" /\ p' = Tail(p) /\ pc' = "walk"
      /\ \/ again.cycle > 0 /\ addNode(K - 1, again) /\ UNCHANGED due
         \/ due' = due \ {again.id} /\ UNCHANGED nodes
      /\ UNCHANGED <<id_, pos, handler_map_, index>>
    BY DEF handlerReturns
<1>2. p # <<>> /\ pos \in [Wheels -> TimerSlots] /\ index \in Wheels /\ due \subseteq 1 .. id_
    BY <1>1 DEF NodesInv, NodeTypes
<1>3. /\ id_ \in Nat /\ nodes \in Lists
      /\ Tail(p) \in Seq(Node) /\ Head(p) \in Node /\ Head(p).id \in 1 .. id_
      /\ Spread(nodes, Tail(p), InWalk) /\ Numbered(nodes, Tail(p), id_)
      /\ Apart(nodes, Tail(p), InWalk, Head(p).id)
      /\ \A id \in due : hasHandler(id) /\ id # Head(p).id => Held(nodes, Tail(p), InWalk, id)
    BY <1>2, WalkTakes
<1>4. PICK node \in Node : node = again
    BY <1>3 DEF Node
<1>5. node.id = Head(p).id /\ node.cycle = node.delay /\ node.delay \in Cycles
    BY <1>3, <1>4 DEF Node
<1>6. \/ node.cycle > 0 /\ addNode(K - 1, node) /\ UNCHANGED due
      \/ due' = due \ {node.id} /\ UNCHANGED nodes
    BY <1>1, <1>4 DEF addNode, Levels, slot
<1> HIDE DEF again
<1>7. InWalk' = InWalk
    BY <1>1 DEF InWalk
<1>8. CASE node.cycle > 0 /\ addNode(K - 1, node) /\ UNCHANGED due
  <2>1. Levels(K - 1, node) # {}
    <3>1. \E i \in Wheels : bits(node.delay, i) > 0
      BY <1>5, <1>8, DigitTypes
    <3> QED
      BY <3>1 DEF Levels, Wheels
  <2>2. PICK i \in Wheels, s \in TimerSlots : s # pos[i] /\ Placed(nodes, nodes', i, s, node)
    BY <1>2, <1>8, <2>1, AddNode, ZeroWheel
  <2>3. <<i, s>> \notin InWalk
    BY <2>2 DEF InWalk
  <2>4. /\ nodes' \in Lists /\ Spread(nodes', Tail(p), InWalk) /\ Numbered(nodes', Tail(p), id_)
        /\ \A id : Held(nodes, Tail(p), InWalk, id) \/ id = node.id
              => Held(nodes', Tail(p), InWalk, id)
    BY <1>3, <1>5, <2>2, <2>3, PutInPlace
  <2>5. NodeTypes'
    BY <1>1, <1>2, <1>3, <1>8, <2>4 DEF NodeTypes
  <2>6. Kept'
    BY <1>1, <1>3, <1>5, <1>7, <1>8, <2>4 DEF Kept, hasHandler, bucket
  <2> QED
    BY <1>1, <1>7, <2>4, <2>5, <2>6 DEF NodesInv
<1>9. CASE due' = due \ {node.id} /\ UNCHANGED nodes
  <2>1. NodeTypes'
    BY <1>1, <1>2, <1>3, <1>9 DEF NodeTypes
  <2>2. Kept'
    BY <1>1, <1>3, <1>5, <1>7, <1>9 DEF Kept, hasHandler, bucket
  <2> QED
    BY <1>1, <1>3, <1>7, <1>9, <2>1, <2>2 DEF NodesInv
<1> QED
    BY <1>6, <1>8, <1>9

LEMMA NodesEnd ==
    ASSUME NodesInv, wheelingEnds
    PROVE  NodesInv'
<1>1. /\ pc = "walk" /\ p = <<>> /\ nodes' = [nodes EXCEPT ![index][pos[index]] = <<>>]
      /\ UNCHANGED <<id_, handler_map_, due>>
      /\ \/ /\ pos[index] = 0 /\ index < K - 1 /\ index' = index + 1 /\ pc' = "walk"
            /\ pos' = [pos EXCEPT ![index + 1] = (@ + 1) % W]
            /\ p' = nodes[index + 1][pos'[index + 1]]
         \/ pc' = "idle" /\ index' = 0 /\ UNCHANGED <<pos, p>>
    BY DEF wheelingEnds, wheeling
<1>2. /\ id_ \in Nat /\ pos \in [Wheels -> TimerSlots] /\ nodes \in Lists /\ index \in Wheels
      /\ due \subseteq 1 .. id_
    BY DEF NodesInv, NodeTypes
<1>3. PICK i \in Wheels, s \in TimerSlots : i = index /\ s = pos[index]
    BY <1>2
<1>4. /\ InWalk = {<<i, s>>} /\ Numbered(nodes, <<>>, id_) /\ Spread(nodes, <<>>, {<<i, s>>})
      /\ \A id \in due : hasHandler(id) => Held(nodes, <<>>, {<<i, s>>}, id)
    BY <1>1, <1>3 DEF NodesInv, Kept, InWalk
<1>5. /\ nodes' \in Lists /\ Spread(nodes', <<>>, {}) /\ Numbered(nodes', <<>>, id_)
      /\ \A id : Held(nodes, <<>>, {<<i, s>>}, id) => Held(nodes', <<>>, {}, id)
      /\ \A j \in Wheels, t \in TimerSlots : j # i \/ t # s => nodes'[j][t] = nodes[j][t]
  <2>1. PICK N, N2, X, n : N = nodes /\ N2 = nodes' /\ X = {<<i, s>>} /\ n = id_
    OBVIOUS
  <2>2. Cleared(N, N2, i, s)
    BY <1>1, <1>3, <2>1 DEF Cleared
  <2>3. /\ N \in Lists /\ Spread(N, <<>>, X) /\ Numbered(N, <<>>, n)
        /\ X \subseteq {<<i, s>>}
    BY <1>2, <1>4, <2>1
  <2>4. N2 \in Lists /\ Spread(N2, <<>>, {}) /\ Numbered(N2, <<>>, n)
    BY <2>2, <2>3, Emptied
  <2>5. \A id : Held(N, <<>>, {<<i, s>>}, id) => Held(N2, <<>>, {}, id)
    BY <2>2, <2>3, Emptied
  <2>6. \A j \in Wheels, t \in TimerSlots : j # i \/ t # s => N2[j][t] = N[j][t]
    BY <2>2, <2>3 DEF Cleared, Lists
  <2> QED
    BY <2>1, <2>4, <2>5, <2>6
<1>6. \A id \in due : hasHandler(id) => Held(nodes', <<>>, {}, id)
    BY <1>4, <1>5
<1>7. CASE /\ pos[index] = 0 /\ index < K - 1 /\ index' = index + 1 /\ pc' = "walk"
           /\ pos' = [pos EXCEPT ![index + 1] = (@ + 1) % W]
           /\ p' = nodes[index + 1][pos'[index + 1]]
  <2>1. PICK j \in Wheels : j = index + 1 /\ j # i
    BY <1>2, <1>3, <1>7, TimerAssumption DEF Wheels
  <2>2. PICK t \in TimerSlots : t = (pos[j] + 1) % W
    <3>1. pos[j] \in 0 .. W - 1 /\ W \in Nat \ {0, 1}
      BY <1>2, TimerAssumption DEF TimerSlots
    <3>2. (pos[j] + 1) % W \in 0 .. W - 1
      BY ONLY <3>1
    <3> QED
      BY <3>2 DEF TimerSlots
  <2>3. /\ pos' \in [Wheels -> TimerSlots] /\ pos'[j] = t /\ index' = j
        /\ InWalk' = {<<j, t>>}
    BY <1>2, <1>7, <2>1, <2>2 DEF InWalk
  <2>4. p' = nodes'[j][t]
    BY <1>5, <1>7, <2>1, <2>3
  <2>5. /\ p' \in Seq(Node) /\ Spread(nodes', p', {<<j, t>>}) /\ Numbered(nodes', p', id_)
        /\ \A id : Held(nodes', <<>>, {}, id) => Held(nodes', p', {<<j, t>>}, id)
    BY <1>5, <2>4, WalkBegins
  <2>6. NodeTypes'
    BY <1>1, <1>2, <1>5, <1>7, <2>3, <2>5 DEF NodeTypes
  <2>7. Kept'
    BY <1>1, <1>6, <2>3, <2>5 DEF Kept, hasHandler, bucket
  <2> QED
    BY <1>1, <2>3, <2>5, <2>6, <2>7 DEF NodesInv
<1>8. CASE pc' = "idle" /\ index' = 0 /\ UNCHANGED <<pos, p>>
  <2>1. InWalk' = {} /\ p' = <<>>
    BY <1>1, <1>8 DEF InWalk
  <2>2. NodeTypes'
    BY <1>1, <1>2, <1>5, <1>8, <2>1, EmptySeq, ZeroWheel DEF NodeTypes
  <2>3. Kept'
    BY <1>1, <1>6, <2>1 DEF Kept, hasHandler, bucket
  <2> QED
    BY <1>1, <1>5, <2>1, <2>2, <2>3 DEF NodesInv
<1> QED
    BY <1>1, <1>7, <1>8

LEMMA NodesStep ==
    ASSUME HandlersInv, NodesInv, [TimerNext]_timerVars
    PROVE  NodesInv'
<1>1. CASE \E delay \in Delays, cycle \in Cycles : addTimer(delay, cycle)
    BY <1>1, NodesAdd
<1>2. CASE \E id \in Ids : delTimer(id)
    BY <1>2, NodesDel
<1>3. CASE tick
    BY <1>3, NodesTick
<1>4. CASE moveDown
    BY <1>4, NodesMove
<1>5. CASE handleTimer
    BY <1>5, NodesHandle
<1>6. CASE wheelingEnds
    BY <1>6, NodesEnd
<1>7. CASE \E ret \in BOOLEAN : handlerReturns(ret)
    BY <1>7, NodesReturn
<1>8. CASE UNCHANGED timerVars
    BY <1>8 DEF timerVars, NodesInv, NodeTypes, Kept, InWalk, hasHandler, bucket
<1> QED
    BY <1>1, <1>2, <1>3, <1>4, <1>5, <1>6, <1>7, <1>8 DEF TimerNext

\* In exactly one place.
LEMMA OnePlace ==
    ASSUME NodesInv, NEW id \in due, hasHandler(id)
    PROVE  LET elsewhere == Waiting(id) \ InWalk
               toCome    == {i \in DOMAIN p : p[i].id = id}
           IN  \/ toCome = {} /\ \E w \in elsewhere : elsewhere = {w}
               \/ elsewhere = {} /\ \E i \in toCome : toCome = {i}
<1> DEFINE elsewhere == Waiting(id) \ InWalk
           toCome    == {i \in DOMAIN p : p[i].id = id}
<1>1. nodes \in Lists /\ p \in Seq(Node) /\ Spread(nodes, p, InWalk) /\ Held(nodes, p, InWalk, id)
    BY DEF NodesInv, NodeTypes, Kept
<1>2. \A w : w \in elsewhere <=>
         /\ w \in Wheels \X TimerSlots /\ w \notin InWalk
         /\ \E k \in 1 .. Len(nodes[w[1]][w[2]]) : nodes[w[1]][w[2]][k].id = id
  <2>1. \A w \in Wheels \X TimerSlots :
           nodes[w[1]][w[2]] \in Seq(Node) /\ w[1] \in Wheels /\ w[2] \in TimerSlots
    BY <1>1 DEF Lists
  <2>2. \A w \in Wheels \X TimerSlots :
           (\E n \in Range(nodes[w[1]][w[2]]) : n.id = id)
              <=> \E k \in 1 .. Len(nodes[w[1]][w[2]]) : nodes[w[1]][w[2]][k].id = id
    BY <2>1 DEF Range
  <2> QED
    BY <2>2 DEF Waiting
<1>3. \A l : l \in toCome <=> l \in 1 .. Len(p) /\ p[l].id = id
    BY <1>1
<1> HIDE DEF elsewhere, toCome
<1>4. ASSUME NEW i \in Wheels, NEW s \in TimerSlots, <<i, s>> \notin InWalk,
             NEW k \in 1 .. Len(nodes[i][s]), nodes[i][s][k].id = id
      PROVE  toCome = {} /\ elsewhere = {<<i, s>>}
  <2>1. \A l \in 1 .. Len(p) : p[l].id # id
    BY <1>1, <1>4 DEF Spread
  <2>2. <<i, s>> \in elsewhere
    BY <1>2, <1>4
  <2>3. ASSUME NEW w \in elsewhere PROVE w = <<i, s>>
    <3>1. w \in Wheels \X TimerSlots /\ w \notin InWalk
      BY <1>2
    <3>2. PICK l \in 1 .. Len(nodes[w[1]][w[2]]) : nodes[w[1]][w[2]][l].id = id
      BY <1>2
    <3>3. PICK j \in Wheels, t \in TimerSlots : w = <<j, t>> /\ w[1] = j /\ w[2] = t
      BY <3>1
    <3>4. Once(nodes, i, s, j, t)
      BY <1>1, <1>4, <3>1, <3>3 DEF Spread
    <3>5. i = j /\ s = t
      BY <1>4, <3>2, <3>3, <3>4 DEF Once
    <3> QED
      BY <3>3, <3>5
  <2> QED
    BY <1>3, <2>1, <2>2, <2>3
<1>5. ASSUME NEW l \in 1 .. Len(p), p[l].id = id
      PROVE  elsewhere = {} /\ toCome = {l}
  <2>1. ASSUME NEW w \in elsewhere PROVE FALSE
    <3>1. w \in Wheels \X TimerSlots /\ w \notin InWalk
      BY <1>2
    <3>2. PICK k \in 1 .. Len(nodes[w[1]][w[2]]) : nodes[w[1]][w[2]][k].id = id
      BY <1>2
    <3>3. PICK j \in Wheels, t \in TimerSlots : w = <<j, t>> /\ w[1] = j /\ w[2] = t
      BY <3>1
    <3> QED
      BY <1>1, <1>5, <3>1, <3>2, <3>3 DEF Spread
  <2>2. \A k \in 1 .. Len(p) : p[k].id = id => k = l
    BY <1>1, <1>5 DEF Spread
  <2> QED
    BY <1>3, <1>5, <2>1, <2>2
<1>6. \/ toCome = {} /\ \E w \in elsewhere : elsewhere = {w}
      \/ elsewhere = {} /\ \E l \in toCome : toCome = {l}
    BY <1>1, <1>4, <1>5 DEF Held
<1> QED
    BY <1>6 DEF elsewhere, toCome

\* Whatever handlers add and delete in the middle of a walk, a timer that has yet to fire
\* has its node in one slot that no walk empties, or once among those left to walk.
THEOREM TimerNodes == TimerSpec => []NoneForgotten
<1>1. TimerSpec => [](HandlersInv /\ NodesInv)
    BY HandlersInit, HandlersStep, NodesInit, NodesStep, PTL DEF TimerSpec
<1>2. NodesInv => NoneForgotten
    BY OnePlace DEF NoneForgotten
<1> QED
    BY <1>1, <1>2, PTL

---------------------------------------------------------------------------------
(* When nodes fire.                                                          *)

\* Handlers of n's timer may run at tick x when a[n.id] is the tick it was armed.
Meets(n, a, x) ==
    /\ TopLevel(n.delay) \in Wheels
    /\ (a[n.id] + n.delay) - power[TopLevel(n.delay)] <= x /\ x <= a[n.id] + n.delay

\* T[i][s] is the tick at which wheel i, now at q[i], comes to slot s: a node that waits
\* there has its lower digits to go from then on.  Those left to walk, of wheel m, have
\* theirs to go from tick t on.
Timely(N, X, P, a, T, q, t, m) ==
    /\ \A i \in Wheels, s \in TimerSlots : <<i, s>> \notin X =>
          \A k \in 1 .. Len(N[i][s]) :
             s # q[i] /\ Meets(N[i][s][k], a, T[i][s] + (N[i][s][k].delay % power[i]))
    /\ \A l \in 1 .. Len(P) : Meets(P[l], a, t + (P[l].delay % power[m]))

LEMMA TimelyTail ==
    ASSUME NEW N, NEW X, NEW P \in Seq(Node), P # <<>>, NEW a, NEW T, NEW q, NEW t, NEW m,
           Timely(N, X, P, a, T, q, t, m)
    PROVE  Timely(N, X, Tail(P), a, T, q, t, m) /\ Meets(Head(P), a, t + (Head(P).delay % power[m]))
<1>1. ASSUME NEW l \in 1 .. Len(Tail(P)) PROVE Meets(Tail(P)[l], a, t + (Tail(P)[l].delay % power[m]))
  <2>1. l + 1 \in 1 .. Len(P) /\ Tail(P)[l] = P[l + 1]
    BY TailAt
  <2>2. Meets(P[l + 1], a, t + (P[l + 1].delay % power[m]))
    BY <2>1 DEF Timely
  <2> QED
    BY <2>1, <2>2
<1>2. Meets(Head(P), a, t + (Head(P).delay % power[m]))
  <2>1. 1 \in 1 .. Len(P) /\ Head(P) = P[1]
    BY TailAt
  <2>2. Meets(P[1], a, t + (P[1].delay % power[m]))
    BY <2>1 DEF Timely
  <2> QED
    BY <2>1, <2>2
<1> QED
  <2>1. \A i \in Wheels, s \in TimerSlots : <<i, s>> \notin X =>
          \A k \in 1 .. Len(N[i][s]) :
             s # q[i] /\ Meets(N[i][s][k], a, T[i][s] + (N[i][s][k].delay % power[i]))
    BY Zenon DEF Timely
  <2> QED
    BY <1>1, <1>2, <2>1, Zenon DEF Timely

\* A node is put in place, and its timer armed: the others keep their ticks.
LEMMA TimelyPlaced ==
    ASSUME NEW N \in Lists, NEW X, NEW P \in Seq(Node), NEW a, NEW T, NEW q, NEW t, NEW m,
           Timely(N, X, P, a, T, q, t, m),
           NEW i \in Wheels, NEW s \in TimerSlots, s # q[i], NEW node \in Node,
           NEW N2, Placed(N, N2, i, s, node), Apart(N, P, X, node.id),
           NEW n, Numbered(N, P, n), NEW b, \A id \in 1 .. n : id # node.id => b[id] = a[id],
           Meets(node, b, T[i][s] + (node.delay % power[i]))
    PROVE  Timely(N2, X, P, b, T, q, t, m)
<1>1. ASSUME NEW j \in Wheels, NEW u \in TimerSlots, <<j, u>> \notin X, NEW k \in 1 .. Len(N2[j][u])
      PROVE  u # q[j] /\ Meets(N2[j][u][k], b, T[j][u] + (N2[j][u][k].delay % power[j]))
  <2>1. WasAt(N, N2, i, s, j, u, k)
    BY PlacedWas
  <2>2. CASE j = i /\ u = s /\ k = 1
    <3>1. N2[j][u][k] = node
      BY <2>2, PlacedAt
    <3> QED
      BY <2>2, <3>1
  <2>3. ASSUME NEW l \in 1 .. Len(N[j][u]), N2[j][u][k] = N[j][u][l]
        PROVE  u # q[j] /\ Meets(N2[j][u][k], b, T[j][u] + (N2[j][u][k].delay % power[j]))
    <3>1. PICK o : o = N[j][u][l]
      OBVIOUS
    <3>2. u # q[j] /\ Meets(o, a, T[j][u] + (o.delay % power[j]))
      BY <1>1, <3>1 DEF Timely
    <3>3. b[o.id] = a[o.id]
      BY <1>1, <3>1 DEF Apart, Numbered
    <3> QED
      BY <2>3, <3>1, <3>2, <3>3 DEF Meets
  <2> QED
    BY <2>1, <2>2, <2>3 DEF WasAt
<1>2. ASSUME NEW l \in 1 .. Len(P) PROVE Meets(P[l], b, t + (P[l].delay % power[m]))
  <2>1. PICK o : o = P[l]
    OBVIOUS
  <2>2. Meets(o, a, t + (o.delay % power[m]))
    BY <2>1 DEF Timely
  <2>3. b[o.id] = a[o.id]
    BY <2>1 DEF Apart, Numbered
  <2> QED
    BY <2>1, <2>2, <2>3 DEF Meets
<1> QED
    BY <1>1, <1>2, Zenon DEF Timely

\* The walked slot is emptied.
LEMMA TimelyCleared ==
    ASSUME NEW N \in Lists, NEW i \in Wheels, NEW s \in TimerSlots,
           NEW a, NEW T, NEW q, NEW t, NEW m, NEW t2, NEW m2,
           Timely(N, {<<i, s>>}, <<>>, a, T, q, t, m), NEW N2, Cleared(N, N2, i, s)
    PROVE  Timely(N2, {}, <<>>, a, T, q, t2, m2)
<1>0. <<>> \in Seq(Node) /\ Len(<<>>) = 0
    BY EmptySeq
<1>1. /\ N2 \in Lists /\ N2[i][s] = <<>>
      /\ \A j \in Wheels, u \in TimerSlots : j # i \/ u # s => N2[j][u] = N[j][u]
    BY <1>0 DEF Lists, Cleared
<1>2. ASSUME NEW j \in Wheels, NEW u \in TimerSlots, NEW k \in 1 .. Len(N2[j][u])
      PROVE  u # q[j] /\ Meets(N2[j][u][k], a, T[j][u] + (N2[j][u][k].delay % power[j]))
  <2>1. ~ (j = i /\ u = s)
    BY <1>0, <1>1
  <2>2. N2[j][u] = N[j][u] /\ <<j, u>> \notin {<<i, s>>}
    BY <1>1, <2>1
  <2> QED
    BY <2>2, Zenon DEF Timely
<1>3. \A l \in 1 .. Len(<<>>) : FALSE
    BY <1>0
<1> QED
    BY <1>2, <1>3, Zenon DEF Timely

\* A wheel turns, at tick t2: the list it comes to is walked.
LEMMA TimelyTurned ==
    ASSUME NEW N \in Lists, NEW i \in Wheels, NEW q \in [Wheels -> TimerSlots],
           NEW a, NEW T, NEW t, NEW m, Timely(N, {}, <<>>, a, T, q, t, m),
           NEW q2 \in [Wheels -> TimerSlots], \A j \in Wheels : j # i => q2[j] = q[j],
           NEW T2, \A j \in Wheels, s \in TimerSlots :
                      j # i \/ (s # q[j] /\ s # q2[j]) => T2[j][s] = T[j][s]
    PROVE  Timely(N, {<<i, q2[i]>>}, N[i][q2[i]], a, T2, q2, T[i][q2[i]], i)
<1>1. ASSUME NEW j \in Wheels, NEW s \in TimerSlots, <<j, s>> \notin {<<i, q2[i]>>},
             NEW k \in 1 .. Len(N[j][s])
      PROVE  s # q2[j] /\ Meets(N[j][s][k], a, T2[j][s] + (N[j][s][k].delay % power[j]))
  <2>1. s # q[j] /\ Meets(N[j][s][k], a, T[j][s] + (N[j][s][k].delay % power[j]))
    BY Zenon DEF Timely
  <2>2. j = i => s # q2[j]
    BY <1>1
  <2>3. s # q2[j]
    BY <2>1, <2>2
  <2>4. T2[j][s] = T[j][s]
    BY <2>1, <2>3
  <2> QED
    BY <2>1, <2>3, <2>4
<1>2. ASSUME NEW l \in 1 .. Len(N[i][q2[i]])
      PROVE  Meets(N[i][q2[i]][l], a, T[i][q2[i]] + (N[i][q2[i]][l].delay % power[i]))
    BY Zenon DEF Timely
<1> QED
    BY <1>1, <1>2, Zenon DEF Timely

---------------------------------------------------------------------------------
(* Ticks since a wheel's last turn.                                          *)

\* Slots ahead of the one a wheel is at.
LEMMA SlotsAhead ==
    ASSUME NEW w \in Nat, w > 1, NEW a \in 0 .. w - 1
    PROVE  /\ \A s \in 0 .. w - 1 : (s - a) % w \in 0 .. w - 1 /\ (s # a => (s - a) % w > 0)
           /\ \A d \in 1 .. w - 1 : (((a + d) % w) - a) % w = d
           /\ \E b \in 0 .. w - 1 : /\ b = (a + 1) % w /\ (b - a) % w = 1
                                    /\ (b = 0 /\ a = w - 1) \/ (b = a + 1 /\ b # 0)
                                    /\ \A s \in 0 .. w - 1 : s # a => (s - b) % w = ((s - a) % w) - 1
<1>1. ASSUME NEW x \in 0 .. w - 1, NEW y \in 0 .. w - 1
      PROVE  (x - y) % w = IF x >= y THEN x - y ELSE (x - y) + w
  <2>1. CASE x >= y
    <3>1. x - y \in 0 .. w - 1
      BY <2>1
    <3>2. (x - y) % w = x - y
      BY <3>1
    <3> QED
      BY <2>1, <3>2
  <2>2. CASE ~ (x >= y)
    <3>1. PICK z \in Nat : z = (x - y) + w /\ z < w /\ x - y = (- w) + z
      BY <2>2
    <3>2. ((- w) + z) % w = z
      BY <3>1
    <3> QED
      BY <2>2, <3>1, <3>2
  <2> QED
    BY <2>1, <2>2
<1>2. ASSUME NEW d \in 1 .. w - 1
      PROVE  (a + d) % w = IF a + d < w THEN a + d ELSE (a + d) - w
  <2>1. CASE a + d < w
    BY <2>1
  <2>2. CASE a + d >= w
    <3>1. PICK z \in Nat : z = (a + d) - w /\ z < w /\ a + d = w + z
      BY <2>2
    <3>2. (w + z) % w = z
      BY <3>1
    <3> QED
      BY <2>2, <3>1, <3>2
  <2> QED
    BY <2>1, <2>2
<1>3. ASSUME NEW s \in 0 .. w - 1 PROVE (s - a) % w \in 0 .. w - 1 /\ (s # a => (s - a) % w > 0)
  <2>1. (s - a) % w = IF s >= a THEN s - a ELSE (s - a) + w
    BY <1>1
  <2> QED
    BY <2>1
<1>4. ASSUME NEW d \in 1 .. w - 1 PROVE (((a + d) % w) - a) % w = d
  <2>1. PICK x \in 0 .. w - 1 : x = (a + d) % w /\ x = (IF a + d < w THEN a + d ELSE (a + d) - w)
    BY <1>2
  <2>2. (x - a) % w = IF x >= a THEN x - a ELSE (x - a) + w
    BY <1>1
  <2> QED
    BY <2>1, <2>2
<1>5. PICK b \in 0 .. w - 1 : b = (a + 1) % w /\ ((b = 0 /\ a = w - 1) \/ (b = a + 1 /\ b # 0))
  <2>1. 1 \in 1 .. w - 1
    OBVIOUS
  <2>2. (a + 1) % w = IF a + 1 < w THEN a + 1 ELSE (a + 1) - w
    BY <1>2, <2>1
  <2> QED
    BY <2>2
<1>6. (b - a) % w = 1
  <2>1. (b - a) % w = IF b >= a THEN b - a ELSE (b - a) + w
    BY <1>1
  <2> QED
    BY <1>5, <2>1
<1>7. ASSUME NEW s \in 0 .. w - 1, s # a PROVE (s - b) % w = ((s - a) % w) - 1
  <2>1. /\ (s - a) % w = IF s >= a THEN s - a ELSE (s - a) + w
        /\ (s - b) % w = IF s >= b THEN s - b ELSE (s - b) + w
    BY <1>1
  <2> QED
    BY <1>5, <1>7, <2>1
<1> QED
    BY <1>3, <1>4, <1>5, <1>6, <1>7

\* The same of the model's wheels: b is the slot a wheel turns to from a.
After(a, b) ==
    /\ b = (a + 1) % W /\ (b - a) % W = 1 /\ ((b = 0 /\ a = W - 1) \/ (b = a + 1 /\ b # 0))
    /\ \A s \in 0 .. W - 1 : s # a => (s - b) % W = ((s - a) % W) - 1

LEMMA SlotAfter ==
    ASSUME NEW a \in 0 .. W - 1
    PROVE  \E b \in 0 .. W - 1 : After(a, b)
<1>1. W \in Nat /\ W > 1
    BY TimerAssumption
<1>2. PICK b \in 0 .. W - 1 :
         /\ b = (a + 1) % W /\ (b - a) % W = 1 /\ ((b = 0 /\ a = W - 1) \/ (b = a + 1 /\ b # 0))
         /\ \A s \in 0 .. W - 1 : s # a => (s - b) % W = ((s - a) % W) - 1
    BY ONLY <1>1, SlotsAhead, a \in 0 .. W - 1
<1> QED
    BY ONLY <1>2, b \in 0 .. W - 1 DEF After

LEMMA SlotsBetween ==
    ASSUME NEW a \in 0 .. W - 1, NEW s \in 0 .. W - 1
    PROVE  (s - a) % W \in 0 .. W - 1 /\ (s # a => (s - a) % W > 0)
<1>1. W \in Nat /\ W > 1
    BY TimerAssumption
<1> QED
    BY ONLY <1>1, SlotsAhead, a \in 0 .. W - 1, s \in 0 .. W - 1

\* A wheel that has come round in this tick pulls the next one still.
Steps(q, m, mode, j) == IF mode # "idle" /\ j = m /\ q[j] = 0 THEN W ELSE q[j]

\* c[j]: the ticks since wheel j turned, when the wheels are at q and m is turning.
CountedAt(c, q, m, mode) ==
    /\ c \in [Wheels -> Nat]
    /\ \A j \in Wheels :
          /\ j <= m => c[j] = 0
          /\ j >= m /\ j + 1 \in Wheels => c[j + 1] = c[j] + Steps(q, m, mode, j) * power[j]
          /\ c[j] <= power[j] /\ (mode = "idle" => c[j] < power[j])

\* The tick at which wheel i comes to slot s, counted from tick t.
TurnsAt(c, q, t) ==
    [i \in Wheels |-> [s \in TimerSlots |-> (t + ((s - q[i]) % W) * power[i]) - c[i]]]

\* Between its turns a wheel has counted less than a turn.
LEMMA CountedBelow ==
    ASSUME NEW q \in [Wheels -> TimerSlots], NEW c \in [Wheels -> Nat], c[0] = 0,
           \A j \in Wheels : j + 1 \in Wheels => c[j + 1] = c[j] + q[j] * power[j]
    PROVE  \A j \in Wheels : c[j] < power[j]
<1>1. PICK good : good = {n \in Nat : n \in Wheels => c[n] < power[n]}
    OBVIOUS
<1>2. W \in Nat /\ W > 1
    BY TimerAssumption
<1>3. 0 \in good
    BY <1>1, Powers
<1>4. ASSUME NEW n \in good, n + 1 \in Wheels PROVE c[n + 1] < power[n + 1]
  <2>1. n \in Nat /\ n \in Wheels
    BY <1>1, <1>4, TimerAssumption DEF Wheels
  <2>2. c[n] < power[n] /\ c[n + 1] = c[n] + q[n] * power[n] /\ power[n + 1] = power[n] * W
    BY <1>1, <1>4, <2>1, Powers
  <2>3. PICK x \in Nat, y \in Nat, w \in Nat :
           x = c[n] /\ y = q[n] /\ w = power[n] /\ y <= W - 1
    BY <1>2, <2>1, Powers DEF TimerSlots
  <2>4. x < w /\ c[n + 1] = x + y * w /\ power[n + 1] = w * W
    BY <2>2, <2>3
  <2>5. x + y * w < w * W
    <3>1. PICK z \in Nat : W = y + 1 + z
      BY <1>2, <2>3, W - 1 - y \in Nat
    <3>2. w * (y + 1 + z) = y * w + w + w * z /\ w * z >= 0
      OBVIOUS
    <3> QED
      BY ONLY <2>3, <2>4, <3>1, <3>2, x \in Nat, y \in Nat, w \in Nat, z \in Nat
  <2> QED
    BY <2>4, <2>5
<1>5. good \in SUBSET Nat /\ \A n \in good : n + 1 \in good
    BY <1>1, <1>4
<1>6. good = Nat
    BY ONLY <1>3, <1>5, AllNumbers
<1>7. \A j \in Wheels : j \in Nat
    BY TimerAssumption DEF Wheels
<1> QED
    BY ONLY <1>1, <1>6, <1>7

LEMMA CountedFirst ==
    ASSUME NEW q \in [Wheels -> TimerSlots]
    PROVE  \E c : CountedAt(c, q, 0, "idle")
<1>1. PICK step : step = [x \in Nat \X Nat |-> IF x[1] \in Wheels THEN x[2] + q[x[1]] * power[x[1]] ELSE 0]
    OBVIOUS
<1>2. Wheels \subseteq Nat /\ 0 \in Wheels /\ TimerSlots \subseteq Nat
    BY TimerAssumption DEF Wheels, TimerSlots
<1>3. ASSUME NEW x \in Nat \X Nat PROVE step[x] \in Nat
  <2>1. x[1] \in Nat /\ x[2] \in Nat /\ step[x] = IF x[1] \in Wheels THEN x[2] + q[x[1]] * power[x[1]] ELSE 0
    BY <1>1
  <2>2. CASE x[1] \in Wheels
    <3>1. PICK a \in Nat, y \in Nat, w \in Nat : a = x[2] /\ y = q[x[1]] /\ w = power[x[1]]
      BY <1>2, <2>1, <2>2, Powers
    <3>2. a + y * w \in Nat
      OBVIOUS
    <3> QED
      BY <2>1, <2>2, <3>1, <3>2
  <2> QED
    BY <2>1, <2>2
<1>4. step \in [Nat \X Nat -> Nat]
    BY <1>1, <1>3
<1>5. \A n, k \in Nat : n \in Wheels => step[<<n, k>>] = k + q[n] * power[n]
    BY <1>1
<1>6. 0 \in Nat
    OBVIOUS
<1>7. Iterated(Nat, 0, step)
    BY ONLY <1>4, <1>6, Recursion
<1>8. PICK f \in [Nat -> Nat] : f[0] = 0 /\ \A n \in Nat : f[n + 1] = step[<<n, f[n]>>]
    BY <1>7 DEF Iterated
<1>9. PICK c : c = [j \in Wheels |-> f[j]]
    OBVIOUS
<1>10. c \in [Wheels -> Nat] /\ c[0] = 0
    BY <1>2, <1>8, <1>9
<1>11. \A j \in Wheels : j + 1 \in Wheels => c[j + 1] = c[j] + q[j] * power[j]
    BY <1>2, <1>5, <1>8, <1>9
<1>12. \A j \in Wheels : c[j] < power[j]
    BY <1>10, <1>11, CountedBelow
<1>13. ASSUME NEW j \in Wheels
       PROVE  /\ j <= 0 => c[j] = 0
              /\ j >= 0 /\ j + 1 \in Wheels => c[j + 1] = c[j] + Steps(q, 0, "idle", j) * power[j]
              /\ c[j] <= power[j] /\ ("idle" = "idle" => c[j] < power[j])
  <2>1. Steps(q, 0, "idle", j) = q[j]
    BY DEF Steps
  <2>2. j \in Nat /\ c[j] \in Nat /\ power[j] \in Nat /\ c[j] < power[j]
    BY <1>2, <1>10, <1>12, Powers
  <2> QED
    BY <1>10, <1>11, <2>1, <2>2
<1> QED
    BY <1>10, <1>13 DEF CountedAt

\* No wheel is left to pull: the tick ends.
LEMMA CountedIdle ==
    ASSUME NEW q \in [Wheels -> TimerSlots], NEW m \in Wheels, \A j \in Wheels : j < m => q[j] = 0,
           q[m] # 0 \/ m + 1 \notin Wheels, NEW c, CountedAt(c, q, m, "walk")
    PROVE  CountedAt(c, q, 0, "idle")
<1>1. Wheels \subseteq Nat /\ 0 \in Wheels /\ TimerSlots \subseteq Nat
    BY TimerAssumption DEF Wheels, TimerSlots
<1>2. c \in [Wheels -> Nat] /\ c[0] = 0
    BY <1>1 DEF CountedAt
<1>3. ASSUME NEW j \in Wheels, j + 1 \in Wheels PROVE c[j + 1] = c[j] + q[j] * power[j]
  <2>1. CASE j < m
    <3>1. j + 1 <= m /\ j <= m /\ q[j] = 0
      BY <1>1, <2>1
    <3>2. c[j] = 0 /\ c[j + 1] = 0
      BY <1>3, <3>1 DEF CountedAt
    <3>3. power[j] \in Nat
      BY <1>1, Powers
    <3> QED
      BY <3>1, <3>2, <3>3
  <2>2. CASE j >= m
    <3>1. Steps(q, m, "walk", j) = q[j]
      BY <1>3 DEF Steps
    <3> QED
      BY <1>3, <2>2, <3>1 DEF CountedAt
  <2> QED
    BY <1>1, <2>1, <2>2
<1>4. \A j \in Wheels : c[j] < power[j]
    BY <1>2, <1>3, CountedBelow
<1>5. ASSUME NEW j \in Wheels
      PROVE  /\ j <= 0 => c[j] = 0
             /\ j >= 0 /\ j + 1 \in Wheels => c[j + 1] = c[j] + Steps(q, 0, "idle", j) * power[j]
             /\ c[j] <= power[j] /\ ("idle" = "idle" => c[j] < power[j])
  <2>1. Steps(q, 0, "idle", j) = q[j]
    BY DEF Steps
  <2>2. j \in Nat /\ c[j] \in Nat /\ power[j] \in Nat /\ c[j] < power[j]
    BY <1>1, <1>2, <1>4, Powers
  <2> QED
    BY <1>2, <1>3, <2>1, <2>2
<1> QED
    BY <1>2, <1>5 DEF CountedAt

LEMMA CountTypes ==
    ASSUME NEW q \in [Wheels -> TimerSlots], NEW m \in Wheels, NEW mode, NEW c, CountedAt(c, q, m, mode),
           NEW j \in Wheels
    PROVE  /\ j \in Nat /\ c[j] \in Nat /\ q[j] \in 0 .. W - 1 /\ power[j] \in Nat /\ power[j] > 0
           /\ c[j] <= power[j] /\ W \in Nat /\ W > 1 /\ TimerSlots = 0 .. W - 1
<1>1. Wheels \subseteq Nat /\ W \in Nat /\ W > 1 /\ TimerSlots = 0 .. W - 1
    BY TimerAssumption DEF Wheels, TimerSlots
<1> QED
    BY <1>1, Powers DEF CountedAt

\* Wheel i turns.
Turns(q, q2, i) == q2 = [q EXCEPT ![i] = (@ + 1) % W]

LEMMA TurnsTo ==
    ASSUME NEW q \in [Wheels -> TimerSlots], NEW i \in Wheels, NEW q2, Turns(q, q2, i)
    PROVE  q2 \in [Wheels -> TimerSlots] /\ \A j \in Wheels : j # i => q2[j] = q[j]
<1>1. PICK x : x = (q[i] + 1) % W
    OBVIOUS
<1>2. W \in Nat /\ W > 0 /\ q[i] \in 0 .. W - 1
    BY TimerAssumption DEF TimerSlots
<1>3. x \in 0 .. W - 1
    BY ONLY <1>1, <1>2
<1>4. q2 = [q EXCEPT ![i] = x]
    BY <1>1 DEF Turns
<1> QED
    BY <1>3, <1>4 DEF TimerSlots

\* Wheel 0 turns, in a new tick: the other wheels have counted one more.
LEMMA CountedTick ==
    ASSUME NEW q \in [Wheels -> TimerSlots], NEW c, CountedAt(c, q, 0, "idle"), NEW t \in Nat,
           NEW q2, Turns(q, q2, 0)
    PROVE  \E d : /\ CountedAt(d, q2, 0, "walk") /\ TurnsAt(c, q, t)[0][q2[0]] = t + 1
                  /\ \A j \in Wheels, s \in TimerSlots : j # 0 \/ (s # q[j] /\ s # q2[j]) =>
                        TurnsAt(d, q2, t + 1)[j][s] = TurnsAt(c, q, t)[j][s]
<1>1. 0 \in Wheels /\ power[0] = 1
    BY ZeroWheel, Powers
<1>2. \A j \in Wheels : /\ j \in Nat /\ c[j] \in Nat /\ q[j] \in 0 .. W - 1 /\ power[j] \in Nat
                        /\ power[j] > 0 /\ c[j] < power[j]
  <2>1. \A j \in Wheels : c[j] < power[j]
    BY DEF CountedAt
  <2> QED
    BY <1>1, <2>1, CountTypes
<1>3. c[0] = 0 /\ W \in Nat /\ W > 1 /\ TimerSlots = 0 .. W - 1
  <2>1. c[0] = 0
    BY <1>1 DEF CountedAt
  <2>2. W \in Nat /\ W > 1 /\ TimerSlots = 0 .. W - 1
    BY TimerAssumption DEF TimerSlots
  <2> QED
    BY <2>1, <2>2
<1>4. PICK a \in 0 .. W - 1 : a = q[0]
    BY <1>1, <1>2
<1>5. PICK b \in 0 .. W - 1 :
         /\ b = (a + 1) % W /\ (b - a) % W = 1 /\ ((b = 0 /\ a = W - 1) \/ (b = a + 1 /\ b # 0))
         /\ \A s \in 0 .. W - 1 : s # a => (s - b) % W = ((s - a) % W) - 1
    BY SlotAfter DEF After
<1>6. q2[0] = b /\ \A j \in Wheels : j # 0 => q2[j] = q[j]
    BY <1>1, <1>4, <1>5 DEF Turns
<1>7. PICK d : d = [j \in Wheels |-> IF j = 0 THEN 0 ELSE c[j] + 1]
    OBVIOUS
<1>8. d \in [Wheels -> Nat] /\ d[0] = 0 /\ \A j \in Wheels : j # 0 => d[j] = c[j] + 1
    BY <1>1, <1>2, <1>7
<1>9. ASSUME NEW j \in Wheels, j + 1 \in Wheels
      PROVE  d[j + 1] = d[j] + Steps(q2, 0, "walk", j) * power[j]
  <2>1. /\ j \in Nat /\ j + 1 # 0 /\ d[j + 1] = c[j + 1] + 1
        /\ c[j + 1] = c[j] + Steps(q, 0, "idle", j) * power[j]
    BY <1>1, <1>2, <1>8, <1>9 DEF CountedAt
  <2>2. Steps(q, 0, "idle", j) = q[j]
    BY DEF Steps
  <2>3. CASE j = 0
    <3>1. Steps(q2, 0, "walk", 0) = IF b = 0 THEN W ELSE b
      BY <1>6 DEF Steps
    <3>2. Steps(q2, 0, "walk", 0) = a + 1
      <4>1. (b = 0 => W = a + 1) /\ (b # 0 => b = a + 1)
        BY ONLY <1>3, <1>5, a \in 0 .. W - 1
      <4> QED
        BY ONLY <3>1, <4>1
    <3>3. c[1] = a
      BY <1>1, <1>3, <1>4, <2>1, <2>2, <2>3
    <3>4. d[1] = a + 1
      BY <2>1, <2>3, <3>3
    <3> QED
      BY <1>1, <1>8, <2>3, <3>2, <3>4
  <2>4. CASE j # 0
    <3>1. Steps(q2, 0, "walk", j) = q[j] /\ d[j] = c[j] + 1
      BY <1>6, <1>8, <2>4 DEF Steps
    <3>2. PICK x \in Nat, w \in Nat, y \in Nat : x = c[j] /\ w = power[j] /\ y = q[j]
      BY <1>2
    <3>3. c[j + 1] = x + y * w /\ d[j] = x + 1
      BY <2>1, <2>2, <3>1, <3>2
    <3>4. (x + y * w) + 1 = (x + 1) + y * w
      OBVIOUS
    <3> QED
      BY <2>1, <3>1, <3>2, <3>3, <3>4
  <2> QED
    BY <2>3, <2>4
<1>10. CountedAt(d, q2, 0, "walk")
  <2>1. ASSUME NEW j \in Wheels PROVE d[j] <= power[j]
    BY <1>1, <1>2, <1>8
  <2>2. \A j \in Wheels : j <= 0 => d[j] = 0
    BY <1>2, <1>8
  <2> QED
    BY <1>8, <1>9, <2>1, <2>2 DEF CountedAt
<1>11. TurnsAt(c, q, t)[0][q2[0]] = t + 1
  <2>1. TurnsAt(c, q, t)[0][b] = (t + ((b - a) % W) * power[0]) - c[0]
    BY <1>1, <1>3, <1>4 DEF TurnsAt
  <2> QED
    BY <1>1, <1>3, <1>5, <1>6, <2>1
<1>12. ASSUME NEW j \in Wheels, NEW s \in TimerSlots, j # 0 \/ (s # q[j] /\ s # q2[j])
       PROVE  TurnsAt(d, q2, t + 1)[j][s] = TurnsAt(c, q, t)[j][s]
  <2>1. /\ TurnsAt(c, q, t)[j][s] = (t + ((s - q[j]) % W) * power[j]) - c[j]
        /\ TurnsAt(d, q2, t + 1)[j][s] = ((t + 1) + ((s - q2[j]) % W) * power[j]) - d[j]
    BY DEF TurnsAt
  <2>2. PICK x \in Nat : x = (s - q[j]) % W
    <3>1. q[j] \in 0 .. W - 1 /\ s \in 0 .. W - 1
      BY <1>2, <1>3
    <3>2. (s - q[j]) % W \in 0 .. W - 1
      BY ONLY <3>1, SlotsBetween
    <3> QED
      BY <1>3, <3>2
  <2>3. PICK y \in Nat, w \in Nat : y = c[j] /\ w = power[j]
    BY <1>2
  <2>4. CASE j = 0
    <3>1. (s - q2[j]) % W = x - 1
      BY <1>3, <1>4, <1>5, <1>6, <1>12, <2>2, <2>4
    <3>2. w = 1 /\ y = 0 /\ d[j] = 0
      BY <1>1, <1>3, <1>8, <2>3, <2>4
    <3>3. /\ TurnsAt(c, q, t)[j][s] = (t + x * 1) - 0
          /\ TurnsAt(d, q2, t + 1)[j][s] = ((t + 1) + (x - 1) * 1) - 0
      BY ONLY <2>1, <2>2, <2>3, <3>1, <3>2
    <3> QED
      BY ONLY <3>3, t \in Nat, x \in Nat
  <2>5. CASE j # 0
    <3>1. q2[j] = q[j] /\ d[j] = y + 1
      BY <1>6, <1>8, <2>3, <2>5
    <3>2. /\ TurnsAt(c, q, t)[j][s] = (t + x * w) - y
          /\ TurnsAt(d, q2, t + 1)[j][s] = ((t + 1) + x * w) - (y + 1)
      BY ONLY <2>1, <2>2, <2>3, <3>1
    <3>3. x * w \in Nat
      OBVIOUS
    <3> QED
      BY ONLY <3>2, <3>3, t \in Nat, y \in Nat
  <2> QED
    BY <2>4, <2>5
<1> QED
    BY <1>10, <1>11, <1>12

\* Wheel m has come round and pulls the next, in the same tick.
LEMMA CountedNext ==
    ASSUME NEW q \in [Wheels -> TimerSlots], NEW m \in Wheels, m + 1 \in Wheels, q[m] = 0,
           NEW c, CountedAt(c, q, m, "walk"), NEW t \in Nat,
           NEW q2, Turns(q, q2, m + 1)
    PROVE  \E d : /\ CountedAt(d, q2, m + 1, "walk") /\ TurnsAt(c, q, t)[m + 1][q2[m + 1]] = t
                  /\ \A j \in Wheels, s \in TimerSlots : j # m + 1 \/ (s # q[j] /\ s # q2[j]) =>
                        TurnsAt(d, q2, t)[j][s] = TurnsAt(c, q, t)[j][s]
<1>0. PICK n \in Wheels : n = m + 1
    OBVIOUS
<1>2. \A j \in Wheels : /\ j \in Nat /\ c[j] \in Nat /\ q[j] \in 0 .. W - 1 /\ power[j] \in Nat
                        /\ power[j] > 0 /\ c[j] <= power[j]
    BY CountTypes
<1>3. W \in Nat /\ W > 1 /\ TimerSlots = 0 .. W - 1
    BY CountTypes
<1>4. PICK a \in 0 .. W - 1 : a = q[n]
    BY <1>2
<1>5. PICK b \in 0 .. W - 1 :
         /\ b = (a + 1) % W /\ (b - a) % W = 1 /\ ((b = 0 /\ a = W - 1) \/ (b = a + 1 /\ b # 0))
         /\ \A s \in 0 .. W - 1 : s # a => (s - b) % W = ((s - a) % W) - 1
    BY SlotAfter DEF After
<1>6. q2[n] = b /\ \A j \in Wheels : j # n => q2[j] = q[j]
    BY <1>0, <1>4, <1>5 DEF Turns
<1>7. c[n] = power[n] /\ c[m] = 0
  <2>1. c[m] = 0 /\ c[n] = c[m] + Steps(q, m, "walk", m) * power[m]
    BY <1>0, <1>2 DEF CountedAt
  <2>2. Steps(q, m, "walk", m) = W /\ power[n] = power[m] * W
    BY <1>0, <1>2, Powers DEF Steps
  <2>3. PICK w \in Nat : w = power[m]
    BY <1>2
  <2>4. 0 + W * w = w * W
    BY <1>3
  <2> QED
    BY <2>1, <2>2, <2>3, <2>4
<1>8. PICK d : d = [j \in Wheels |-> IF j <= n THEN 0 ELSE c[j]]
    OBVIOUS
<1>9. /\ d \in [Wheels -> Nat] /\ d[n] = 0 /\ \A j \in Wheels : j <= n => d[j] = 0
      /\ \A j \in Wheels : j > n => d[j] = c[j]
    BY <1>2, <1>8
<1>10. ASSUME NEW j \in Wheels, j >= n, j + 1 \in Wheels
       PROVE  d[j + 1] = d[j] + Steps(q2, n, "walk", j) * power[j]
  <2>1. j # m /\ j >= m /\ j + 1 > n
    BY <1>0, <1>2, <1>10
  <2>2. d[j + 1] = c[j + 1] /\ c[j + 1] = c[j] + q[j] * power[j]
    <3>1. Steps(q, m, "walk", j) = q[j]
      BY <2>1 DEF Steps
    <3> QED
      BY <1>9, <1>10, <2>1, <3>1 DEF CountedAt
  <2>3. CASE j = n
    <3>1. Steps(q2, n, "walk", n) = IF b = 0 THEN W ELSE b
      BY <1>6 DEF Steps
    <3>2. Steps(q2, n, "walk", n) = a + 1
      <4>1. (b = 0 => W = a + 1) /\ (b # 0 => b = a + 1)
        BY ONLY <1>3, <1>5, a \in 0 .. W - 1
      <4> QED
        BY ONLY <3>1, <4>1
    <3>3. PICK w \in Nat : w = power[n]
      BY <1>2
    <3>4. c[j + 1] = w + a * w
      BY <1>4, <1>7, <2>2, <2>3, <3>3
    <3>5. w + a * w = 0 + (a + 1) * w
      BY <1>4
    <3> QED
      BY <1>9, <2>2, <2>3, <3>2, <3>3, <3>4, <3>5
  <2>4. CASE j # n
    <3>1. Steps(q2, n, "walk", j) = q[j] /\ d[j] = c[j]
      BY <1>2, <1>6, <1>9, <1>10, <2>4 DEF Steps
    <3> QED
      BY <2>2, <3>1
  <2> QED
    BY <2>3, <2>4
<1>11. CountedAt(d, q2, n, "walk")
  <2>1. ASSUME NEW j \in Wheels PROVE d[j] <= power[j]
    <3>1. d[j] = 0 \/ d[j] = c[j]
      BY <1>2, <1>9
    <3> QED
      BY <1>2, <3>1
  <2> QED
    BY <1>9, <1>10, <2>1 DEF CountedAt
<1>12. TurnsAt(c, q, t)[n][q2[n]] = t
  <2>1. TurnsAt(c, q, t)[n][b] = (t + ((b - a) % W) * power[n]) - c[n]
    BY <1>3, <1>4 DEF TurnsAt
  <2>2. PICK w \in Nat : w = power[n]
    BY <1>2
  <2>3. (t + 1 * w) - w = t
    OBVIOUS
  <2> QED
    BY <1>5, <1>6, <1>7, <2>1, <2>2, <2>3
<1>13. ASSUME NEW j \in Wheels, NEW s \in TimerSlots, j # n \/ (s # q[j] /\ s # q2[j])
       PROVE  TurnsAt(d, q2, t)[j][s] = TurnsAt(c, q, t)[j][s]
  <2>1. /\ TurnsAt(c, q, t)[j][s] = (t + ((s - q[j]) % W) * power[j]) - c[j]
        /\ TurnsAt(d, q2, t)[j][s] = (t + ((s - q2[j]) % W) * power[j]) - d[j]
    BY DEF TurnsAt
  <2>2. CASE j = n
    <3>1. PICK x \in Nat : x = (s - a) % W
      <4>1. (s - a) % W \in 0 .. W - 1
        BY ONLY <1>3, SlotsBetween, s \in TimerSlots, a \in 0 .. W - 1
      <4> QED
        BY <1>3, <4>1
    <3>2. (s - q2[j]) % W = x - 1 /\ (s - q[j]) % W = x
      BY <1>3, <1>4, <1>5, <1>6, <1>13, <2>2, <3>1
    <3>3. PICK w \in Nat : w = power[j] /\ c[j] = w /\ d[j] = 0
      BY <1>2, <1>7, <1>9, <2>2
    <3>4. /\ TurnsAt(c, q, t)[j][s] = (t + x * w) - w
          /\ TurnsAt(d, q2, t)[j][s] = (t + (x - 1) * w) - 0
      BY ONLY <2>1, <3>2, <3>3
    <3>5. (x - 1) * w = x * w - w /\ x * w \in Nat
      OBVIOUS
    <3> QED
      BY ONLY <3>4, <3>5, t \in Nat, w \in Nat
  <2>3. CASE j # n
    <3>1. q2[j] = q[j]
      BY <1>6, <2>3
    <3>2. d[j] = c[j]
      <4>1. CASE j > n
        BY <1>9, <4>1
      <4>2. CASE ~ (j > n)
        <5>1. j <= m /\ j <= n
          BY <1>0, <1>2, <2>3, <4>2
        <5> QED
          BY <1>9, <5>1 DEF CountedAt
      <4> QED
        BY <4>1, <4>2
    <3> QED
      BY <2>1, <3>1, <3>2
  <2> QED
    BY <2>2, <2>3
<1> QED
  <2>1. CountedAt(d, q2, m + 1, "walk") /\ TurnsAt(c, q, t)[m + 1][q2[m + 1]] = t
    BY <1>0, <1>11, <1>12
  <2>2. \A j \in Wheels, s \in TimerSlots : j # m + 1 \/ (s # q[j] /\ s # q2[j]) =>
           TurnsAt(d, q2, t)[j][s] = TurnsAt(c, q, t)[j][s]
    BY <1>0, <1>13
  <2> QED
    BY ONLY <2>1, <2>2, ZenonT(60)

---------------------------------------------------------------------------------
(* The tick a node is put in place for.                                      *)

\* addNode takes a node's highest digit at or below top; those below it are still to go.
LEMMA TopDigit ==
    ASSUME NEW top \in Int, top < K, NEW node \in Node, Levels(top, node) # {}
    PROVE  \E i \in Wheels : /\ i = TopOf(top, node) /\ i <= top /\ bits(node.delay, i) \in 1 .. W - 1
                             /\ \A j \in 0 .. top : bits(node.delay, j) > 0 => j <= i
                             /\ node.delay % power[top + 1] =
                                   bits(node.delay, i) * power[i] + (node.delay % power[i])
<1>1. Levels(top, node) \subseteq 0 .. top
    BY DEF Levels
<1>2. \E i \in Levels(top, node) : \A j \in Levels(top, node) : j <= i
    BY <1>1, Highest
<1>3. PICK i \in Levels(top, node) : i = TopOf(top, node) /\ \A j \in Levels(top, node) : j <= i
    BY <1>2 DEF TopOf
<1>4. i \in 0 .. top /\ bits(node.delay, i) > 0 /\ \A j \in 0 .. top : bits(node.delay, j) > 0 => j <= i
    BY <1>3 DEF Levels
<1>5. K \in Nat /\ W \in Nat /\ i \in Wheels /\ i \in Nat
    BY <1>4, TimerAssumption DEF Wheels
<1>6. PICK d \in Delays \cup Cycles : d = node.delay
    BY DEF Node
<1>7. d \in Nat
    BY <1>6, AllDigits
<1>8. PICK x \in 0 .. W - 1 : x = bits(d, i)
    BY <1>5, <1>7, Digits
<1>9. x \in 1 .. W - 1
    BY <1>4, <1>5, <1>6, <1>8
<1>10. ASSUME NEW j \in i + 1 .. (top + 1) - 1 PROVE bits(d, j) = 0
  <2>1. j \in 0 .. top /\ j \in Nat /\ ~ (j <= i)
    BY <1>4, <1>5
  <2>2. bits(d, j) \in 0 .. W - 1 /\ ~ (bits(d, j) > 0)
    BY <1>4, <1>6, <1>7, <2>1, Digits
  <2> QED
    BY ONLY <1>5, <2>2
<1>11. i + 1 \in Nat /\ top + 1 \in Nat /\ i + 1 <= top + 1
    BY <1>4
<1>12. d % power[top + 1] = d % power[i + 1]
    BY ONLY <1>7, <1>10, <1>11, SameBelow
<1>13. d % power[i + 1] = (d % power[i]) + x * power[i] /\ d % power[i] \in Nat
    BY <1>5, <1>7, <1>8, Digits
<1>14. PICK y \in Nat, w \in Nat : y = d % power[i] /\ w = power[i]
    BY <1>5, <1>13, Powers
<1>15. y + x * w = x * w + y
    OBVIOUS
<1> QED
    BY <1>3, <1>4, <1>5, <1>6, <1>8, <1>9, <1>12, <1>13, <1>14, <1>15

\* All digits below m are 0: nothing is left to go.
LEMMA NoDigit ==
    ASSUME NEW m \in Wheels, NEW node \in Node, Levels(m - 1, node) = {}
    PROVE  node.delay % power[m] = 0
<1>1. m \in Nat /\ W \in Nat
    BY TimerAssumption DEF Wheels
<1>2. PICK d \in Nat : d = node.delay
    BY AllDigits DEF Node
<1>3. ASSUME NEW j \in 0 .. m - 1 PROVE bits(d, j) = 0
  <2>1. ~ (bits(d, j) > 0)
    BY <1>2 DEF Levels
  <2>2. bits(d, j) \in 0 .. W - 1
    <3>1. j \in Nat
      BY <1>1
    <3> QED
      BY <1>2, <3>1, Digits
  <2> QED
    BY ONLY <1>1, <2>1, <2>2
<1>4. 0 \in Nat /\ 0 <= m
    BY <1>1
<1>5. d % power[m] = d % power[0]
    BY ONLY <1>1, <1>2, <1>3, <1>4, SameBelow
<1>6. d % 1 = 0
    OBVIOUS
<1> QED
    BY <1>2, <1>5, <1>6, Powers

LEMMA PlacedTick ==
    ASSUME NEW q \in [Wheels -> TimerSlots], NEW m \in Wheels, NEW mode, NEW c, CountedAt(c, q, m, mode),
           NEW t \in Nat, NEW top \in Int, top < K, NEW node \in Node, Levels(top, node) # {},
           NEW i \in Wheels, i = TopOf(top, node),
           NEW s \in TimerSlots, s = (q[i] + bits(node.delay, i)) % W
    PROVE  /\ TurnsAt(c, q, t)[i][s] + (node.delay % power[i]) = (t + (node.delay % power[top + 1])) - c[i]
           /\ i <= top
<1>1. /\ i <= top /\ bits(node.delay, i) \in 1 .. W - 1
      /\ node.delay % power[top + 1] = bits(node.delay, i) * power[i] + (node.delay % power[i])
    BY TopDigit
<1>2. /\ i \in Nat /\ c[i] \in Nat /\ q[i] \in 0 .. W - 1 /\ power[i] \in Nat
      /\ W \in Nat /\ W > 1
    BY CountTypes
<1>3. PICK x \in 1 .. W - 1 : x = bits(node.delay, i)
    BY <1>1
<1>4. (s - q[i]) % W = x
    BY ONLY <1>2, <1>3, SlotsAhead, s = (q[i] + bits(node.delay, i)) % W
<1>5. PICK y \in Nat : y = node.delay % power[i]
    BY <1>2, AllDigits, Digits DEF Node
<1>6. PICK w \in Nat, z \in Nat : w = power[i] /\ z = c[i]
    BY <1>2
<1>7. TurnsAt(c, q, t)[i][s] = (t + x * w) - z
    BY <1>4, <1>6 DEF TurnsAt
<1>8. x * w \in Nat
    BY <1>2, <1>3
<1>9. ((t + x * w) - z) + y = (t + (x * w + y)) - z
    BY ONLY <1>5, <1>6, <1>8, t \in Nat
<1> QED
    BY <1>1, <1>3, <1>5, <1>6, <1>7, <1>9

\* The highest digit of all.
LEMMA TopIs ==
    ASSUME NEW node \in Node, Levels(K - 1, node) # {}
    PROVE  TopLevel(node.delay) = TopOf(K - 1, node)
<1>1. PICK i \in Wheels : i = TopOf(K - 1, node) /\ bits(node.delay, i) \in 1 .. W - 1
                       /\ \A j \in 0 .. K - 1 : bits(node.delay, j) > 0 => j <= i
    BY TopDigit, ZeroWheel
<1>2. bits(node.delay, i) > 0 /\ Wheels \subseteq Nat /\ Wheels = 0 .. K - 1
    BY <1>1, TimerAssumption DEF Wheels
<1>3. \A k \in Wheels : bits(node.delay, k) > 0 /\ (\A j \in Wheels : bits(node.delay, j) > 0 => j <= k) => k = i
    BY <1>1, <1>2
<1> QED
    BY <1>1, <1>2, <1>3 DEF TopLevel

\* A timer armed now meets its tick.
LEMMA ArmedNow ==
    ASSUME NEW q \in [Wheels -> TimerSlots], NEW m \in Wheels, NEW mode, NEW c, CountedAt(c, q, m, mode),
           NEW t \in Nat, NEW node \in Node, Levels(K - 1, node) # {},
           NEW i \in Wheels, i = TopOf(K - 1, node),
           NEW s \in TimerSlots, s = (q[i] + bits(node.delay, i)) % W,
           NEW a, a[node.id] = t
    PROVE  Meets(node, a, TurnsAt(c, q, t)[i][s] + (node.delay % power[i]))
<1>1. K - 1 \in Int /\ K - 1 < K /\ (K - 1) + 1 = K
    BY ZeroWheel
<1>2. TurnsAt(c, q, t)[i][s] + (node.delay % power[i]) = (t + (node.delay % power[(K - 1) + 1])) - c[i]
    BY <1>1, PlacedTick
<1>3. PICK d \in Nat : d = node.delay /\ d % power[K] = d
    BY AllDigits DEF Node
<1>4. PICK z \in Nat, w \in Nat : z = c[i] /\ w = power[i] /\ z <= w
    BY CountTypes
<1>5. TurnsAt(c, q, t)[i][s] + (node.delay % power[i]) = (t + d) - z
    BY <1>1, <1>2, <1>3, <1>4
<1>6. TopLevel(node.delay) = i
    BY TopIs
<1>7. (t + d) - w <= (t + d) - z /\ (t + d) - z <= t + d
    BY <1>3, <1>4
<1> QED
    BY <1>3, <1>4, <1>5, <1>6, <1>7 DEF Meets

---------------------------------------------------------------------------------
(* The clock.                                                                *)

ClockTypes ==
    /\ now \in Nat /\ armed \in [Ids -> Nat] /\ id_ <= MaxIds
    /\ (pc = "idle" => index = 0) /\ (\A j \in Wheels : j < index => pos[j] = 0)
    /\ (pc = "handler" => Levels(index - 1, Head(p)) = {})

Mode == IF pc = "idle" THEN "idle" ELSE "walk"

\* Whatever waits, and whatever is left to walk, meets its tick.
Clocked ==
    \E c : /\ CountedAt(c, pos, index, Mode)
           /\ Timely(nodes, InWalk, p, armed, TurnsAt(c, pos, now), pos, now, index)

ClockInv == ClockTypes /\ Clocked

LEMMA ClockInit == TimerInit => ClockInv
<1> SUFFICES ASSUME TimerInit PROVE ClockInv
    OBVIOUS
<1>1. /\ id_ = 0 /\ pos \in [Wheels -> TimerSlots] /\ p = <<>> /\ index = 0 /\ pc = "idle"
      /\ now = 0 /\ armed = [id \in Ids |-> 0]
      /\ nodes = [i \in Wheels |-> [s \in TimerSlots |-> <<>>]]
    BY DEF TimerInit
<1>2. Len(<<>>) = 0
    BY EmptySeq
<1>3. ClockTypes
    BY <1>1, TimerAssumption DEF ClockTypes, Wheels
<1>4. PICK c : CountedAt(c, pos, 0, "idle")
    BY <1>1, CountedFirst
<1>5. \A i \in Wheels, s \in TimerSlots : nodes[i][s] = <<>>
    BY <1>1
<1>6. (\A l \in 1 .. Len(<<>>) : FALSE) /\ Mode = "idle"
    BY <1>1, <1>2 DEF Mode
<1>7. Timely(nodes, InWalk, p, armed, TurnsAt(c, pos, now), pos, now, index)
  <2>1. \A i \in Wheels, s \in TimerSlots : \A k \in 1 .. Len(nodes[i][s]) : FALSE
    BY <1>5, <1>6
  <2> QED
    BY <1>1, <1>6, <2>1 DEF Timely
<1>8. Clocked
    BY <1>1, <1>4, <1>6, <1>7 DEF Clocked
<1> QED
    BY <1>3, <1>8 DEF ClockInv

LEMMA ClockAdd ==
    ASSUME NodesInv, ClockInv, NEW delay \in Delays, NEW cycle \in Cycles, addTimer(delay, cycle)
    PROVE  ClockInv'
<1>1. PICK n \in Nat : n = id_
    BY DEF NodesInv, NodeTypes
<1>2. PICK node : node = [id |-> n + 1, delay |-> delay, cycle |-> cycle]
    OBVIOUS
<1>3. node \in Node /\ node.id = n + 1 /\ n + 1 \in Nat
    BY <1>1, <1>2 DEF Node
<1>4. /\ id_' = n + 1 /\ UNCHANGED <<pos, index, p, pc, now>> /\ n < MaxIds
      /\ \/ UNCHANGED <<nodes, armed>>
         \/ /\ Levels(K - 1, node) # {} /\ addNode(K - 1, node)
            /\ armed' = [armed EXCEPT ![n + 1] = now]
    BY <1>1, <1>2, SMTT(90) DEF addTimer, addNode, Levels, slot
<1>5. /\ pos \in [Wheels -> TimerSlots] /\ nodes \in Lists /\ p \in Seq(Node) /\ index \in Wheels
      /\ Numbered(nodes, p, n)
    BY <1>1 DEF NodesInv, NodeTypes
<1>6. InWalk' = InWalk /\ Mode' = Mode
    BY <1>4 DEF InWalk, Mode
<1>7. now \in Nat /\ armed \in [Ids -> Nat] /\ MaxIds \in Nat /\ n + 1 \in Ids
    BY <1>1, <1>4, TimerAssumption DEF ClockInv, ClockTypes, Ids
<1>8. ClockTypes'
  <2>1. armed' \in [Ids -> Nat]
    BY <1>4, <1>7
  <2>2. n + 1 <= MaxIds
    BY <1>4, <1>7
  <2>3. /\ (pc = "idle" => index = 0) /\ (\A j \in Wheels : j < index => pos[j] = 0)
        /\ (pc = "handler" => Levels(index - 1, Head(p)) = {})
    BY DEF ClockInv, ClockTypes
  <2> QED
    BY <1>4, <1>7, <2>1, <2>2, <2>3 DEF ClockTypes, Levels
<1>9. PICK c : /\ CountedAt(c, pos, index, Mode)
               /\ Timely(nodes, InWalk, p, armed, TurnsAt(c, pos, now), pos, now, index)
    BY DEF ClockInv, Clocked
<1>10. CASE UNCHANGED <<nodes, armed>>
  <2>1. Clocked'
    BY <1>4, <1>6, <1>9, <1>10 DEF Clocked
  <2> QED
    BY <1>8, <2>1 DEF ClockInv
<1>11. CASE /\ Levels(K - 1, node) # {} /\ addNode(K - 1, node)
            /\ armed' = [armed EXCEPT ![n + 1] = now]
  <2>1. PICK i \in Wheels, s \in TimerSlots :
           /\ i = TopOf(K - 1, node) /\ s = slot(i, node) /\ s # pos[i]
           /\ Placed(nodes, nodes', i, s, node)
    BY <1>3, <1>5, <1>11, AddNode, ZeroWheel
  <2>2. armed'[node.id] = now /\ \A id \in 1 .. n : id # node.id => armed'[id] = armed[id]
    <3>1. \A id \in 1 .. n : id \in Ids
      BY <1>1, <1>7 DEF Ids
    <3> QED
      BY <1>3, <1>7, <1>11, <3>1
  <2>3. s = (pos[i] + bits(node.delay, i)) % W
    BY <2>1 DEF slot
  <2>4. Meets(node, armed', TurnsAt(c, pos, now)[i][s] + (node.delay % power[i]))
    BY <1>3, <1>5, <1>7, <1>9, <1>11, <2>1, <2>2, <2>3, ArmedNow
  <2>5. Apart(nodes, p, InWalk, node.id)
    BY <1>3, <1>5, NumberedMore
  <2>6. Timely(nodes', InWalk, p, armed', TurnsAt(c, pos, now), pos, now, index)
    <3>1. PICK N2, b, T, X, t : N2 = nodes' /\ b = armed' /\ T = TurnsAt(c, pos, now) /\ X = InWalk /\ t = now
      OBVIOUS
    <3>2. /\ Timely(nodes, X, p, armed, T, pos, t, index) /\ Placed(nodes, N2, i, s, node)
          /\ Apart(nodes, p, X, node.id) /\ Meets(node, b, T[i][s] + (node.delay % power[i]))
          /\ \A id \in 1 .. n : id # node.id => b[id] = armed[id]
      BY <1>9, <2>1, <2>2, <2>4, <2>5, <3>1
    <3>3. Timely(N2, X, p, b, T, pos, t, index)
      BY <1>3, <1>5, <2>1, <3>2, TimelyPlaced
    <3> QED
      BY <3>1, <3>3
  <2>7. Clocked'
    BY <1>4, <1>6, <1>9, <2>6 DEF Clocked
  <2> QED
    BY <1>8, <2>7 DEF ClockInv
<1> QED
    BY <1>4, <1>10, <1>11

LEMMA ClockRests ==
    ASSUME ClockInv, UNCHANGED <<pos, nodes, index, p, pc, now, armed>>, id_' <= MaxIds
    PROVE  ClockInv'
<1>1. InWalk' = InWalk /\ Mode' = Mode
    BY DEF InWalk, Mode
<1>2. ClockTypes'
    BY DEF ClockInv, ClockTypes, Levels
<1>3. Clocked'
    BY <1>1 DEF ClockInv, Clocked
<1> QED
    BY <1>2, <1>3 DEF ClockInv

LEMMA ClockTick ==
    ASSUME NodesInv, ClockInv, tick
    PROVE  ClockInv'
<1>1. /\ pc = "idle" /\ index' = 0 /\ pos' = [pos EXCEPT ![0] = (@ + 1) % W]
      /\ p' = nodes[0][pos'[0]] /\ pc' = "walk" /\ now' = now + 1
      /\ UNCHANGED <<id_, nodes, armed>>
    BY DEF tick, wheeling
<1>2. /\ pos \in [Wheels -> TimerSlots] /\ nodes \in Lists /\ p = <<>> /\ InWalk = {}
      /\ index = 0 /\ Mode = "idle" /\ now \in Nat
    BY <1>1 DEF NodesInv, NodeTypes, InWalk, Mode, ClockInv, ClockTypes
<1>3. PICK c : CountedAt(c, pos, 0, "idle") /\ Timely(nodes, {}, <<>>, armed, TurnsAt(c, pos, now), pos, now, 0)
    BY <1>2 DEF ClockInv, Clocked
<1>4. PICK q2, t : q2 = pos' /\ t = now
    OBVIOUS
<1>5. Turns(pos, q2, 0) /\ q2 \in [Wheels -> TimerSlots] /\ \A j \in Wheels : j # 0 => q2[j] = pos[j]
  <2>1. Turns(pos, q2, 0)
    BY <1>1, <1>4 DEF Turns
  <2> QED
    BY <1>2, <2>1, TurnsTo, ZeroWheel
<1>6. PICK d : /\ CountedAt(d, q2, 0, "walk") /\ TurnsAt(c, pos, t)[0][q2[0]] = t + 1
               /\ \A j \in Wheels, s \in TimerSlots : j # 0 \/ (s # pos[j] /\ s # q2[j]) =>
                        TurnsAt(d, q2, t + 1)[j][s] = TurnsAt(c, pos, t)[j][s]
  <2>1. t \in Nat
    BY <1>2, <1>4
  <2> QED
    BY <1>2, <1>3, <1>5, <2>1, CountedTick, SMTT(30)
<1>7. Timely(nodes, {<<0, q2[0]>>}, nodes[0][q2[0]], armed, TurnsAt(d, q2, t + 1), q2, t + 1, 0)
  <2>1. PICK T, T2 : T = TurnsAt(c, pos, t) /\ T2 = TurnsAt(d, q2, t + 1)
    OBVIOUS
  <2>2. /\ Timely(nodes, {}, <<>>, armed, T, pos, t, 0) /\ T[0][q2[0]] = t + 1
        /\ \A j \in Wheels, s \in TimerSlots : j # 0 \/ (s # pos[j] /\ s # q2[j]) => T2[j][s] = T[j][s]
    BY <1>3, <1>4, <1>6, <2>1
  <2>3. Timely(nodes, {<<0, q2[0]>>}, nodes[0][q2[0]], armed, T2, q2, T[0][q2[0]], 0)
    BY <1>2, <1>5, <2>2, ZeroWheel, TimelyTurned
  <2>4. T[0][q2[0]] = t + 1
    BY ONLY <2>2
  <2> QED
    BY ONLY <2>1, <2>3, <2>4
<1>8. InWalk' = {<<0, q2[0]>>} /\ Mode' = "walk"
    BY <1>1, <1>4 DEF InWalk, Mode
<1>9. Clocked'
    BY <1>1, <1>4, <1>6, <1>7, <1>8 DEF Clocked
<1>10. ClockTypes'
    BY <1>1, <1>2, TimerAssumption DEF ClockInv, ClockTypes, Wheels
<1> QED
    BY <1>9, <1>10 DEF ClockInv

LEMMA ClockMove ==
    ASSUME NodesInv, ClockInv, moveDown
    PROVE  ClockInv'
<1>1. /\ pc = "walk" /\ p # <<>> /\ Levels(index - 1, Head(p)) # {} /\ p' = Tail(p)
      /\ UNCHANGED <<id_, pos, index, pc, now, armed>>
    BY DEF moveDown
<1>2. /\ id_ \in Nat /\ nodes \in Lists /\ Tail(p) \in Seq(Node) /\ Head(p) \in Node
      /\ Numbered(nodes, Tail(p), id_) /\ Apart(nodes, Tail(p), InWalk, Head(p).id)
    BY <1>1, WalkTakes
<1>3. PICK node \in Node, top \in Int : node = Head(p) /\ top = index - 1 /\ top < K /\ top + 1 = index
    BY <1>2, TimerAssumption DEF NodesInv, NodeTypes, Wheels
<1>4. Levels(top, node) # {} /\ addNode(top, node)
    BY <1>1, <1>3 DEF moveDown, addNode, Levels, slot
<1>5. pos \in [Wheels -> TimerSlots] /\ index \in Wheels /\ p \in Seq(Node) /\ now \in Nat
    BY DEF NodesInv, NodeTypes, ClockInv, ClockTypes
<1>6. PICK i \in Wheels, s \in TimerSlots :
         /\ i = TopOf(top, node) /\ s = slot(i, node) /\ s # pos[i]
         /\ Placed(nodes, nodes', i, s, node)
    BY <1>3, <1>4, <1>5, AddNode
<1>7. InWalk' = InWalk /\ Mode' = Mode
    BY <1>1 DEF InWalk, Mode
<1>8. PICK c, T, X, t : /\ T = TurnsAt(c, pos, now) /\ X = InWalk /\ t = now
                        /\ CountedAt(c, pos, index, Mode) /\ Timely(nodes, X, p, armed, T, pos, t, index)
    BY DEF ClockInv, Clocked
<1>9. /\ Timely(nodes, X, Tail(p), armed, T, pos, t, index)
      /\ Meets(node, armed, t + (node.delay % power[index]))
    BY <1>1, <1>3, <1>5, <1>8, TimelyTail
<1>10. T[i][s] + (node.delay % power[i]) = t + (node.delay % power[index])
  <2>1. s = (pos[i] + bits(node.delay, i)) % W
    BY <1>6 DEF slot
  <2>2. /\ T[i][s] + (node.delay % power[i]) = (t + (node.delay % power[top + 1])) - c[i]
        /\ i <= top
    BY <1>3, <1>4, <1>5, <1>6, <1>8, <2>1, PlacedTick
  <2>3. i \in Nat /\ index \in Nat
    BY <1>5, TimerAssumption DEF Wheels
  <2>4. i <= index
    BY <1>3, <2>2, <2>3
  <2>5. c[i] = 0
    BY <1>8, <2>4 DEF CountedAt
  <2>6. PICK y \in Nat : y = node.delay % power[index]
    BY <2>3, AllDigits, Digits DEF Node
  <2>7. (t + y) - 0 = t + y
    BY <1>5, <1>8
  <2> QED
    BY <1>3, <2>2, <2>5, <2>6, <2>7
<1>11. Timely(nodes', X, Tail(p), armed, T, pos, t, index)
  <2>1. PICK N2, n : N2 = nodes' /\ n = id_
    OBVIOUS
  <2>2. /\ Placed(nodes, N2, i, s, node) /\ Apart(nodes, Tail(p), X, node.id)
        /\ Numbered(nodes, Tail(p), n) /\ Meets(node, armed, T[i][s] + (node.delay % power[i]))
    BY <1>2, <1>3, <1>6, <1>8, <1>9, <1>10, <2>1
  <2>3. Timely(N2, X, Tail(p), armed, T, pos, t, index)
    BY <1>2, <1>6, <1>9, <2>2, TimelyPlaced
  <2> QED
    BY <2>1, <2>3
<1>12. Clocked'
    BY <1>1, <1>7, <1>8, <1>11 DEF Clocked
<1>13. ClockTypes'
    BY <1>1 DEF ClockInv, ClockTypes
<1> QED
    BY <1>12, <1>13 DEF ClockInv

LEMMA ClockHandle ==
    ASSUME NodesInv, ClockInv, handleTimer
    PROVE  ClockInv'
<1>1. /\ pc = "walk" /\ p # <<>> /\ Levels(index - 1, Head(p)) = {}
      /\ (pc' = "handler" /\ UNCHANGED p) \/ (p' = Tail(p) /\ UNCHANGED pc)
      /\ UNCHANGED <<id_, pos, nodes, index, now, armed>>
    BY DEF handleTimer
<1>2. InWalk' = InWalk /\ Mode' = Mode
    BY <1>1 DEF InWalk, Mode
<1>3. ClockTypes'
    BY <1>1 DEF ClockInv, ClockTypes, Levels
<1>4. PICK c : /\ CountedAt(c, pos, index, Mode)
               /\ Timely(nodes, InWalk, p, armed, TurnsAt(c, pos, now), pos, now, index)
    BY DEF ClockInv, Clocked
<1>5. Timely(nodes, InWalk, Tail(p), armed, TurnsAt(c, pos, now), pos, now, index)
    BY <1>1, <1>4, TimelyTail DEF NodesInv, NodeTypes
<1>6. Timely(nodes, InWalk, p', armed, TurnsAt(c, pos, now), pos, now, index)
    BY <1>1, <1>4, <1>5
<1>7. Clocked'
    BY <1>1, <1>2, <1>4, <1>6 DEF Clocked
<1> QED
    BY <1>3, <1>7 DEF ClockInv

LEMMA ClockReturn ==
    ASSUME NodesInv, ClockInv, NEW ret \in BOOLEAN, handlerReturns(ret)
    PROVE  ClockInv'
<1> DEFINE again == [Head(p) EXCEPT !.delay = Head(p).cycle]
<1>1. /\ pc = "handler" /\ p' = Tail(p) /\ pc' = "walk"
      /\ \/ again.cycle > 0 /\ addNode(K - 1, again) /\ armed' = [armed EXCEPT ![again.id] = now]
         \/ UNCHANGED <<nodes, armed>>
      /\ UNCHANGED <<id_, pos, index, now>>
    BY DEF handlerReturns
<1>2. p # <<>> /\ pos \in [Wheels -> TimerSlots] /\ index \in Wheels /\ p \in Seq(Node)
    BY <1>1 DEF NodesInv, NodeTypes
<1>3. /\ id_ \in Nat /\ nodes \in Lists
      /\ Tail(p) \in Seq(Node) /\ Head(p) \in Node /\ Head(p).id \in 1 .. id_
      /\ Numbered(nodes, Tail(p), id_) /\ Apart(nodes, Tail(p), InWalk, Head(p).id)
    BY <1>2, WalkTakes
<1>4. PICK node \in Node : node = again
    BY <1>3 DEF Node
<1>5. node.id = Head(p).id /\ node.cycle = node.delay /\ node.delay \in Cycles
    BY <1>3, <1>4 DEF Node
<1>6. \/ node.cycle > 0 /\ addNode(K - 1, node) /\ armed' = [armed EXCEPT ![node.id] = now]
      \/ UNCHANGED <<nodes, armed>>
    BY <1>1, <1>4 DEF addNode, Levels, slot
<1> HIDE DEF again
<1>7. InWalk' = InWalk /\ Mode' = Mode /\ Mode = "walk"
    BY <1>1 DEF InWalk, Mode
<1>8. now \in Nat /\ armed \in [Ids -> Nat] /\ id_ <= MaxIds /\ MaxIds \in Nat
    BY TimerAssumption DEF ClockInv, ClockTypes
<1>9. \A id \in 1 .. id_ : id \in Ids
    BY <1>3, <1>8 DEF Ids
<1>10. ClockTypes'
  <2>1. armed' \in [Ids -> Nat]
    BY <1>6, <1>8
  <2> QED
    BY <1>1, <1>8, <2>1 DEF ClockInv, ClockTypes
<1>11. PICK c, T, X, t : /\ T = TurnsAt(c, pos, now) /\ X = InWalk /\ t = now
                         /\ CountedAt(c, pos, index, Mode) /\ Timely(nodes, X, p, armed, T, pos, t, index)
    BY DEF ClockInv, Clocked
<1>12. Timely(nodes, X, Tail(p), armed, T, pos, t, index)
    BY <1>2, <1>11, TimelyTail
<1>13. CASE node.cycle > 0 /\ addNode(K - 1, node) /\ armed' = [armed EXCEPT ![node.id] = now]
  <2>1. Levels(K - 1, node) # {}
    <3>1. \E i \in Wheels : bits(node.delay, i) > 0
      BY <1>5, <1>13, DigitTypes
    <3> QED
      BY <3>1 DEF Levels, Wheels
  <2>2. PICK i \in Wheels, s \in TimerSlots :
           /\ i = TopOf(K - 1, node) /\ s = slot(i, node) /\ s # pos[i]
           /\ Placed(nodes, nodes', i, s, node)
    BY <1>2, <1>13, <2>1, AddNode, ZeroWheel
  <2>3. armed'[node.id] = now /\ \A id \in 1 .. id_ : id # node.id => armed'[id] = armed[id]
    BY <1>3, <1>5, <1>8, <1>9, <1>13
  <2>4. s = (pos[i] + bits(node.delay, i)) % W
    BY <2>2 DEF slot
  <2>5. Meets(node, armed', TurnsAt(c, pos, now)[i][s] + (node.delay % power[i]))
    BY <1>2, <1>8, <1>11, <2>1, <2>2, <2>3, <2>4, ArmedNow
  <2>6. Timely(nodes', X, Tail(p), armed', T, pos, t, index)
    <3>1. PICK N2, b, n, P : N2 = nodes' /\ b = armed' /\ n = id_ /\ P = Tail(p)
      OBVIOUS
    <3>2. /\ Placed(nodes, N2, i, s, node) /\ Apart(nodes, P, X, node.id) /\ P \in Seq(Node)
          /\ Numbered(nodes, P, n) /\ Meets(node, b, T[i][s] + (node.delay % power[i]))
          /\ Timely(nodes, X, P, armed, T, pos, t, index) /\ s # pos[i]
      BY <1>3, <1>5, <1>11, <1>12, <2>2, <2>5, <3>1
    <3>3. \A id \in 1 .. n : id # node.id => b[id] = armed[id]
      BY <2>3, <3>1
    <3>4. Timely(N2, X, P, b, T, pos, t, index)
      BY <1>3, <3>2, <3>3, TimelyPlaced
    <3> QED
      BY <3>1, <3>4
  <2>7. Clocked'
    BY <1>1, <1>7, <1>11, <2>6 DEF Clocked
  <2> QED
    BY <1>10, <2>7 DEF ClockInv
<1>14. CASE UNCHANGED <<nodes, armed>>
  <2>1. Clocked'
    BY <1>1, <1>7, <1>11, <1>12, <1>14 DEF Clocked
  <2> QED
    BY <1>10, <2>1 DEF ClockInv
<1> QED
    BY <1>6, <1>13, <1>14

LEMMA ClockEnd ==
    ASSUME NodesInv, ClockInv, wheelingEnds
    PROVE  ClockInv'
<1>1. /\ pc = "walk" /\ p = <<>> /\ nodes' = [nodes EXCEPT ![index][pos[index]] = <<>>]
      /\ UNCHANGED <<id_, now, armed>>
      /\ \/ /\ pos[index] = 0 /\ index < K - 1 /\ index' = index + 1 /\ pc' = "walk"
            /\ pos' = [pos EXCEPT ![index + 1] = (@ + 1) % W]
            /\ p' = nodes[index + 1][pos'[index + 1]]
         \/ /\ pos[index] # 0 \/ ~ (index < K - 1)
            /\ pc' = "idle" /\ index' = 0 /\ UNCHANGED <<pos, p>>
    BY DEF wheelingEnds, wheeling
<1>2. /\ pos \in [Wheels -> TimerSlots] /\ nodes \in Lists /\ index \in Wheels /\ now \in Nat
      /\ \A j \in Wheels : j < index => pos[j] = 0
    BY DEF NodesInv, NodeTypes, ClockInv, ClockTypes
<1>3. PICK i \in Wheels, s \in TimerSlots, N2 \in Lists, t \in Nat : i = index /\ s = pos[index] /\ N2 = nodes' /\ t = now
    BY <1>1, <1>2, EmptySeq, NodesEnd DEF NodesInv, NodeTypes
<1>4. InWalk = {<<i, s>>} /\ Mode = "walk" /\ Cleared(nodes, N2, i, s)
    BY <1>1, <1>3 DEF InWalk, Mode, Cleared
<1>5. PICK c, T : /\ T = TurnsAt(c, pos, t) /\ CountedAt(c, pos, i, "walk")
                  /\ Timely(nodes, {<<i, s>>}, <<>>, armed, T, pos, t, i)
    BY <1>1, <1>3, <1>4 DEF ClockInv, Clocked
<1>6. \A m : Timely(N2, {}, <<>>, armed, T, pos, t, m)
    BY <1>2, <1>4, <1>5, TimelyCleared
<1>7. CASE /\ pos[index] = 0 /\ index < K - 1 /\ index' = index + 1 /\ pc' = "walk"
           /\ pos' = [pos EXCEPT ![index + 1] = (@ + 1) % W]
           /\ p' = nodes[index + 1][pos'[index + 1]]
  <2>1. PICK n \in Wheels : n = i + 1 /\ n # i
    BY <1>2, <1>3, <1>7, TimerAssumption DEF Wheels
  <2>2. PICK q2 : q2 = pos' /\ Turns(pos, q2, n)
    BY <1>3, <1>7, <2>1 DEF Turns
  <2>3. q2 \in [Wheels -> TimerSlots] /\ \A j \in Wheels : j # n => q2[j] = pos[j]
    BY <1>2, <2>2, TurnsTo
  <2>4. PICK d : /\ CountedAt(d, q2, n, "walk") /\ TurnsAt(c, pos, t)[n][q2[n]] = t
                 /\ \A j \in Wheels, u \in TimerSlots : j # n \/ (u # pos[j] /\ u # q2[j]) =>
                        TurnsAt(d, q2, t)[j][u] = TurnsAt(c, pos, t)[j][u]
    <3>1. i + 1 \in Wheels /\ pos[i] = 0 /\ Turns(pos, q2, i + 1)
      BY <1>3, <1>7, <2>1, <2>2
    <3>2. \E d : /\ CountedAt(d, q2, i + 1, "walk") /\ TurnsAt(c, pos, t)[i + 1][q2[i + 1]] = t
                 /\ \A j \in Wheels, u \in TimerSlots : j # i + 1 \/ (u # pos[j] /\ u # q2[j]) =>
                        TurnsAt(d, q2, t)[j][u] = TurnsAt(c, pos, t)[j][u]
      BY ONLY <1>2, <1>5, <3>1, CountedNext, i \in Wheels, t \in Nat
    <3> QED
      BY ONLY <2>1, <3>2
  <2>5. Timely(N2, {<<n, q2[n]>>}, N2[n][q2[n]], armed, TurnsAt(d, q2, t), q2, t, n)
    <3>1. PICK T2 : T2 = TurnsAt(d, q2, t)
      OBVIOUS
    <3>2. /\ Timely(N2, {}, <<>>, armed, T, pos, t, i) /\ T[n][q2[n]] = t
          /\ \A j \in Wheels, u \in TimerSlots : j # n \/ (u # pos[j] /\ u # q2[j]) => T2[j][u] = T[j][u]
      BY <1>5, <1>6, <2>4, <3>1
    <3>3. Timely(N2, {<<n, q2[n]>>}, N2[n][q2[n]], armed, T2, q2, T[n][q2[n]], n)
      BY <1>2, <2>3, <3>2, TimelyTurned
    <3> QED
      BY <3>1, <3>2, <3>3
  <2>6. N2[n][q2[n]] = nodes[n][q2[n]]
    BY <1>2, <1>4, <2>1, <2>3 DEF Cleared, Lists
  <2>7. /\ index' = n /\ p' = N2[n][q2[n]] /\ InWalk' = {<<n, q2[n]>>} /\ Mode' = "walk"
    BY <1>3, <1>7, <2>1, <2>2, <2>6 DEF InWalk, Mode
  <2>8. Clocked'
    BY <1>1, <1>3, <2>2, <2>4, <2>5, <2>7 DEF Clocked
  <2>9. ClockTypes'
    <3>1. ASSUME NEW j \in Wheels, j < n PROVE q2[j] = 0
      <4>1. j = i \/ j < i
        BY <2>1, <3>1, TimerAssumption DEF Wheels
      <4>2. q2[j] = pos[j]
        <5>1. j # n
          BY <2>1, <3>1, TimerAssumption DEF Wheels
        <5> QED
          BY ONLY <2>3, <5>1, j \in Wheels
      <4>3. pos[j] = 0
        <5>1. pos[i] = 0 /\ \A k \in Wheels : k < i => pos[k] = 0
          BY ONLY <1>2, <1>3, <1>7
        <5> QED
          BY ONLY <4>1, <5>1, j \in Wheels
      <4> QED
        BY ONLY <4>2, <4>3
    <3> QED
      BY <1>1, <1>7, <2>2, <2>7, <3>1 DEF ClockInv, ClockTypes
  <2> QED
    BY <2>8, <2>9 DEF ClockInv
<1>8. CASE /\ pos[index] # 0 \/ ~ (index < K - 1)
           /\ pc' = "idle" /\ index' = 0 /\ UNCHANGED <<pos, p>>
  <2>1. pos[i] # 0 \/ i + 1 \notin Wheels
    BY <1>3, <1>8, TimerAssumption DEF Wheels
  <2>2. CountedAt(c, pos, 0, "idle")
    BY <1>2, <1>3, <1>5, <2>1, CountedIdle
  <2>3. InWalk' = {} /\ p' = <<>> /\ Mode' = "idle"
    BY <1>1, <1>8 DEF InWalk, Mode
  <2>4. Clocked'
    BY <1>1, <1>3, <1>5, <1>6, <1>8, <2>2, <2>3 DEF Clocked
  <2>5. ClockTypes'
    BY <1>1, <1>8, TimerAssumption DEF ClockInv, ClockTypes, Wheels
  <2> QED
    BY <2>4, <2>5 DEF ClockInv
<1> QED
    BY <1>1, <1>7, <1>8

LEMMA ClockStep ==
    ASSUME NodesInv, ClockInv, [TimerNext]_timerVars
    PROVE  ClockInv'
<1>0. id_ <= MaxIds
    BY DEF ClockInv, ClockTypes
<1>1. CASE \E delay \in Delays, cycle \in Cycles : addTimer(delay, cycle)
    BY <1>1, ClockAdd
<1>2. CASE \E id \in Ids : delTimer(id)
    BY <1>0, <1>2, ClockRests DEF delTimer
<1>3. CASE tick
    BY <1>3, ClockTick
<1>4. CASE moveDown
    BY <1>4, ClockMove
<1>5. CASE handleTimer
    BY <1>5, ClockHandle
<1>6. CASE wheelingEnds
    BY <1>6, ClockEnd
<1>7. CASE \E ret \in BOOLEAN : handlerReturns(ret)
    BY <1>7, ClockReturn
<1>8. CASE UNCHANGED timerVars
    BY <1>0, <1>8, ClockRests DEF timerVars
<1> QED
    BY <1>1, <1>2, <1>3, <1>4, <1>5, <1>6, <1>7, <1>8 DEF TimerNext

LEMMA InTime == NodesInv /\ ClockInv => Punctual
<1> SUFFICES ASSUME NodesInv, ClockInv PROVE Punctual
    OBVIOUS
<1>1. /\ pos \in [Wheels -> TimerSlots] /\ nodes \in Lists /\ index \in Wheels /\ now \in Nat
      /\ armed \in [Ids -> Nat] /\ p \in Seq(Node) /\ id_ <= MaxIds /\ id_ \in Nat
      /\ Numbered(nodes, p, id_) /\ MaxIds \in Nat
    BY TimerAssumption DEF NodesInv, NodeTypes, ClockInv, ClockTypes
<1>2. PICK c, T : /\ T = TurnsAt(c, pos, now) /\ CountedAt(c, pos, index, Mode)
                  /\ Timely(nodes, InWalk, p, armed, T, pos, now, index)
    BY DEF ClockInv, Clocked
<1>3. \A id \in 1 .. id_ : id \in Ids
    BY <1>1 DEF Ids
<1>4. OnTime
  <2> SUFFICES ASSUME pc = "handler"
               PROVE  now - armed[Head(p).id] \in
                         Head(p).delay - power[TopLevel(Head(p).delay)] .. Head(p).delay
    BY DEF OnTime
  <2>1. p # <<>> /\ Levels(index - 1, Head(p)) = {}
    BY DEF NodesInv, NodeTypes, ClockInv, ClockTypes
  <2>2. PICK n \in Node : n = Head(p) /\ n.id \in 1 .. id_
    BY <1>1, <2>1, WalkTakes
  <2>3. Meets(n, armed, now + (n.delay % power[index])) /\ n.delay % power[index] = 0
    BY <1>1, <1>2, <2>1, <2>2, TimelyTail, NoDigit
  <2>4. PICK a \in Nat, d \in Nat : a = armed[n.id] /\ d = n.delay
    BY <1>1, <1>3, <2>2, AllDigits DEF Node
  <2>5. Meets(n, armed, now)
    BY <1>1, <2>3
  <2>6. PICK w \in Nat : w = power[TopLevel(d)]
    BY <2>4, <2>5, Powers, TimerAssumption DEF Meets, Wheels
  <2>7. (a + d) - w <= now /\ now <= a + d
    BY <2>4, <2>5, <2>6 DEF Meets
  <2>8. now - a \in d - w .. d
    BY ONLY <1>1, <2>7, a \in Nat, d \in Nat, w \in Nat
  <2> QED
    BY <2>2, <2>4, <2>6, <2>8
<1>5. NeverLate
  <2> SUFFICES ASSUME pc = "idle", NEW id \in due, hasHandler(id)
               PROVE  \E i \in Wheels, s \in TimerSlots : \E n \in Range(nodes[i][s]) :
                         n.id = id /\ now - armed[id] < n.delay
    BY DEF NeverLate
  <2>1. p = <<>> /\ InWalk = {} /\ Mode = "idle" /\ Held(nodes, p, InWalk, id)
    BY DEF NodesInv, NodeTypes, Kept, InWalk, Mode
  <2>2. PICK i \in Wheels, s \in TimerSlots : \E k \in 1 .. Len(nodes[i][s]) : nodes[i][s][k].id = id
    BY <2>1, EmptySeq DEF Held
  <2>3. PICK k \in 1 .. Len(nodes[i][s]) : nodes[i][s][k].id = id
    BY <2>2
  <2>4. PICK n \in Node : n = nodes[i][s][k] /\ n \in Range(nodes[i][s]) /\ n.id = id /\ id \in 1 .. id_
    <3>1. nodes[i][s] \in Seq(Node)
      BY <1>1 DEF Lists
    <3>2. nodes[i][s][k] \in Node /\ nodes[i][s][k] \in Range(nodes[i][s])
      BY <2>3, <3>1 DEF Range
    <3>3. id \in 1 .. id_
      BY <1>1, <2>3 DEF Numbered
    <3> QED
      BY <2>3, <3>2, <3>3
  <2>5. s # pos[i] /\ Meets(n, armed, T[i][s] + (n.delay % power[i]))
    BY <1>2, <2>1, <2>4 DEF Timely
  <2>6. /\ i \in Nat /\ c[i] \in Nat /\ pos[i] \in 0 .. W - 1 /\ power[i] \in Nat /\ W \in Nat /\ W > 1
        /\ s \in 0 .. W - 1 /\ c[i] < power[i]
    <3>1. c[i] < power[i]
      BY <1>2, <2>1 DEF CountedAt
    <3> QED
      BY <1>1, <1>2, <3>1, CountTypes
  <2>7. PICK x \in Nat : x = (s - pos[i]) % W /\ x > 0
    <3>1. (s - pos[i]) % W \in 0 .. W - 1 /\ (s - pos[i]) % W > 0
      BY ONLY <2>5, <2>6, SlotsBetween
    <3> QED
      BY <2>6, <3>1
  <2>8. PICK y \in Nat : y = n.delay % power[i]
    BY <2>6, AllDigits, Digits DEF Node
  <2>9. PICK w \in Nat, z \in Nat : w = power[i] /\ z = c[i] /\ z < w
    BY <2>6
  <2>10. T[i][s] = (now + x * w) - z
    BY <1>2, <2>7, <2>9 DEF TurnsAt
  <2>11. PICK a \in Nat, d \in Nat : a = armed[id] /\ d = n.delay
    BY <1>1, <1>3, <2>4, AllDigits DEF Node
  <2>12. ((now + x * w) - z) + y <= a + d
    BY <2>4, <2>5, <2>8, <2>10, <2>11 DEF Meets
  <2>13. PICK v \in Nat : v = x * w /\ v >= w
    <3>1. PICK u \in Nat : x = u + 1
      BY <2>7, x - 1 \in Nat
    <3>2. (u + 1) * w = u * w + w /\ u * w \in Nat
      OBVIOUS
    <3> QED
      BY <3>1, <3>2
  <2>14. PICK e \in Nat : v = z + 1 + e
    <3>1. z < w /\ w <= v
      BY <2>9, <2>13
    <3>2. (v - z) - 1 \in Nat /\ v = z + 1 + ((v - z) - 1)
      BY ONLY <3>1, v \in Nat, w \in Nat, z \in Nat
    <3> QED
      BY ONLY <3>2
  <2>15. now - a < d
    <3>1. PICK u \in Nat : u = now
      BY <1>1
    <3>2. ((u + (z + 1 + e)) - z) + y <= a + d
      BY ONLY <2>12, <2>13, <2>14, <3>1
    <3>3. u - a < d
      BY ONLY <3>2, a \in Nat, d \in Nat, y \in Nat, z \in Nat, e \in Nat, u \in Nat
    <3> QED
      BY ONLY <3>1, <3>3
  <2> QED
    BY <2>4, <2>11, <2>15
<1> QED
    BY <1>4, <1>5 DEF Punctual

\* Whatever the wheels' positions at the beginning, and whatever handlers add and delete: a
\* handler runs at its tick, or earlier by at most one turn of the highest wheel its delay
\* uses, and no timer is overdue.
THEOREM TimerPunctual == TimerSpec => []Punctual
<1>1. TimerSpec => [](HandlersInv /\ NodesInv /\ ClockInv)
    BY HandlersInit, HandlersStep, NodesInit, NodesStep, ClockInit, ClockStep, PTL DEF TimerSpec
<1>2. NodesInv /\ ClockInv => Punctual
    BY InTime
<1> QED
    BY <1>1, <1>2, PTL

---------------------------------------------------------------------------------
(* Powers of two, and the bytes of a number.                                 *)

LEMMA Bits == bit \in [Nat -> Nat] /\ bit[0] = 1 /\ \A n \in Nat : bit[n + 1] = 2 * bit[n]
<1>1. PICK step : step = [x \in Nat \X Nat |-> 2 * x[2]]
    OBVIOUS
<1>2. step \in [Nat \X Nat -> Nat] /\ \A n, k \in Nat : step[<<n, k>>] = 2 * k
    BY <1>1
<1>3. 1 \in Nat
    OBVIOUS
<1>4. Iterated(Nat, 1, step)
    BY ONLY <1>2, <1>3, Recursion
<1>5. PICK f \in [Nat -> Nat] : f[0] = 1 /\ \A n \in Nat : f[n + 1] = step[<<n, f[n]>>]
    BY <1>4 DEF Iterated
<1>6. \A n \in Nat : f[n + 1] = 2 * f[n]
    BY <1>2, <1>5
<1>7. \A n \in Nat : f[n] = IF n = 0 THEN 1 ELSE 2 * f[n - 1]
  <2> TAKE n \in Nat
  <2>1. CASE n # 0
    <3>1. n - 1 \in Nat /\ (n - 1) + 1 = n
      BY <2>1
    <3> QED
      BY <1>6, <2>1, <3>1
  <2> QED
    BY <1>5, <2>1
<1>8. f = [n \in Nat |-> IF n = 0 THEN 1 ELSE 2 * f[n - 1]]
    BY <1>7
<1>9. bit = [n \in Nat |-> IF n = 0 THEN 1 ELSE 2 * bit[n - 1]]
    BY <1>8 DEF bit
<1>10. bit[0] = 1
    BY <1>9
<1>11. ASSUME NEW n \in Nat PROVE bit[n + 1] = 2 * bit[n]
    BY <1>9
<1>12. \A n \in Nat : bit[n] \in Nat
  <2>1. PICK good : good = {n \in Nat : bit[n] \in Nat}
    OBVIOUS
  <2>2. 0 \in good /\ \A n \in good : n + 1 \in good
    BY <1>10, <1>11, <2>1
  <2>3. good \in SUBSET Nat
    BY <2>1
  <2> QED
    BY <2>1, <2>2, <2>3, AllNumbers
<1>13. bit \in [Nat -> Nat]
    BY <1>9, <1>12
<1> QED
    BY <1>10, <1>11, <1>13

\* A power is larger than its exponent.
LEMMA BitLarge == \A n \in Nat : bit[n] > n
<1>1. PICK good : good = {n \in Nat : bit[n] > n}
    OBVIOUS
<1>2. 0 \in good
    BY <1>1, Bits
<1>3. ASSUME NEW n \in good PROVE n + 1 \in good
  <2>1. n \in Nat /\ bit[n] \in Nat /\ bit[n] > n /\ bit[n + 1] = 2 * bit[n]
    BY <1>1, Bits
  <2> QED
    BY <1>1, <2>1
<1>4. good = Nat
    BY <1>1, <1>2, <1>3, AllNumbers
<1> QED
    BY <1>1, <1>4

LEMMA BitSum == \A m, n \in Nat : bit[m + n] = bit[m] * bit[n]
<1> SUFFICES ASSUME NEW m \in Nat PROVE \A n \in Nat : bit[m + n] = bit[m] * bit[n]
    OBVIOUS
<1>1. PICK good : good = {n \in Nat : bit[m + n] = bit[m] * bit[n]}
    OBVIOUS
<1>2. 0 \in good
    BY <1>1, Bits
<1>3. ASSUME NEW n \in good PROVE n + 1 \in good
  <2>1. n \in Nat /\ m + n \in Nat /\ bit[m + n] = bit[m] * bit[n]
    BY <1>1
  <2>2. bit[n + 1] = 2 * bit[n] /\ bit[(m + n) + 1] = 2 * bit[m + n] /\ m + (n + 1) = (m + n) + 1
    BY <2>1, Bits
  <2>3. PICK pw \in Nat, q \in Nat : pw = bit[m] /\ q = bit[n]
    BY <2>1, Bits
  <2>4. pw * (2 * q) = 2 * (pw * q)
    OBVIOUS
  <2>5. bit[m + (n + 1)] = bit[m] * bit[n + 1]
    BY <2>1, <2>2, <2>3, <2>4
  <2> QED
    BY <1>1, <2>1, <2>5
<1>4. good = Nat
    BY <1>1, <1>2, <1>3, AllNumbers
<1> QED
    BY <1>1, <1>4

LEMMA BitGrows == \A m, n \in Nat : m <= n => bit[m] <= bit[n]
<1> SUFFICES ASSUME NEW m \in Nat, NEW n \in Nat, m <= n PROVE bit[m] <= bit[n]
    OBVIOUS
<1>1. n - m \in Nat /\ m + (n - m) = n
    OBVIOUS
<1>2. bit[n] = bit[m] * bit[n - m]
    BY <1>1, BitSum
<1>3. PICK pw \in Nat, q \in Nat : pw = bit[m] /\ q = bit[n - m] /\ q >= 1
  <2>1. bit[m] \in Nat /\ bit[n - m] \in Nat /\ bit[n - m] >= 1
    BY <1>1, Bits, BitLarge
  <2> QED
    BY ONLY <2>1
<1>4. pw * q >= pw
  <2>1. PICK x \in Nat : q = x + 1
    BY <1>3, q - 1 \in Nat
  <2>2. pw * (x + 1) = pw * x + pw /\ pw * x >= 0
    OBVIOUS
  <2> QED
    BY ONLY <2>1, <2>2, pw \in Nat
<1> QED
    BY <1>2, <1>3, <1>4

Byte == bit[GroupBits]

LEMMA BufferSizes == /\ Width \in Nat /\ Width > 0 /\ GroupBits \in Nat /\ GroupBits > 0 /\ MinExp \in Nat /\ QueueCnt \in Nat
                /\ Byte \in Nat /\ Byte > 1
                /\ bit[Width] \in Nat /\ bit[Width] = 2 * bit[Width - 1] /\ bit[Width - 1] \in Nat /\ bit[Width - 1] > 0
                /\ \A i \in Nat : i * GroupBits \in Nat /\ bit[i * GroupBits] \in Nat /\ bit[i * GroupBits] > 0
<1>1. Width \in Nat /\ Width > 0 /\ GroupBits \in Nat /\ GroupBits > 0 /\ MinExp \in Nat /\ QueueCnt \in Nat
    BY BufferAssumption
<1>2. Byte \in Nat /\ Byte > GroupBits
    BY <1>1, Bits, BitLarge DEF Byte
<1>3. bit[Width] \in Nat /\ bit[Width] = 2 * bit[Width - 1] /\ bit[Width - 1] \in Nat /\ bit[Width - 1] > 0
  <2>1. Width - 1 \in Nat /\ (Width - 1) + 1 = Width
    BY <1>1
  <2> QED
    BY <1>1, <2>1, Bits, BitLarge
<1>4. ASSUME NEW i \in Nat
      PROVE  i * GroupBits \in Nat /\ bit[i * GroupBits] \in Nat /\ bit[i * GroupBits] > 0
  <2>1. i * GroupBits \in Nat
    BY <1>1
  <2> QED
    BY <2>1, Bits, BitLarge
<1> QED
    BY <1>1, <1>2, <1>3, <1>4

LEMMA BelowTop ==
    ASSUME NEW u \in Nat, NEW pw \in Nat, u < pw
    PROVE  u \div pw = 0 /\ u % pw = u
<1>1. pw * 0 + u = u
    OBVIOUS
<1> QED
    BY <1>1, DivideOnce

LEMMA NotBelow ==
    ASSUME NEW u \in Nat, NEW pw \in Nat, pw > 0, u \div pw = 0
    PROVE  u < pw /\ u % pw = u
<1>1. PICK q, r \in Nat : u = pw * q + r /\ r < pw /\ u \div pw = q /\ u % pw = r
    BY Divides
<1> QED
    BY <1>1

\* How many groups a value has.
LEMMA GroupsCounted ==
    ASSUME NEW u \in Nat, u < bit[Width]
    PROVE  /\ groupsOf(u) \in 1 .. Width /\ u \div bit[groupsOf(u) * GroupBits] = 0
           /\ \A k \in 1 .. groupsOf(u) - 1 : u \div bit[k * GroupBits] # 0
<1>1. PICK enough : enough = {n \in 1 .. Width : u \div bit[n * GroupBits] = 0}
    OBVIOUS
<1>2. Width \in enough
  <2>1. Width * GroupBits \in Nat /\ Width <= Width * GroupBits
    BY BufferSizes
  <2>2. bit[Width] <= bit[Width * GroupBits] /\ bit[Width] \in Nat /\ bit[Width * GroupBits] \in Nat
    BY <2>1, BufferSizes, BitGrows
  <2>3. u < bit[Width * GroupBits]
    BY <2>2
  <2>4. u \div bit[Width * GroupBits] = 0
    BY <2>2, <2>3, BelowTop
  <2> QED
    BY <1>1, <2>4, BufferSizes
<1>3. enough \subseteq Nat /\ enough # {}
    BY <1>1, <1>2
<1>4. PICK n \in enough : \A k \in enough : n <= k
    BY <1>3, LeastNumber
<1>5. n \in 1 .. Width /\ u \div bit[n * GroupBits] = 0
    BY <1>1, <1>4
<1>6. \A k \in 1 .. n - 1 : u \div bit[k * GroupBits] # 0
  <2> SUFFICES ASSUME NEW k \in 1 .. n - 1, u \div bit[k * GroupBits] = 0 PROVE FALSE
    OBVIOUS
  <2>1. k \in 1 .. Width /\ ~ (n <= k)
    BY <1>5, BufferSizes
  <2> QED
    BY <1>1, <1>4, <2>1
<1> QED
    BY <1>5, <1>6 DEF groupsOf

\* The bytes of one number: all but the last say that another follows.
OneNumber(e) == e \in Seq(Nat) /\ Len(e) > 0 /\ e[Len(e)] < Byte /\ \A i \in 1 .. Len(e) - 1 : e[i] >= Byte

Group(u, i) == (u \div bit[(i - 1) * GroupBits]) % Byte

LEMMA GroupTyped ==
    ASSUME NEW u \in Nat, NEW i \in Nat, i > 0
    PROVE  Group(u, i) \in Nat /\ Group(u, i) < Byte
<1>0. i - 1 \in Nat
    OBVIOUS
<1>1. bit[(i - 1) * GroupBits] \in Nat /\ bit[(i - 1) * GroupBits] > 0
    BY <1>0, BufferSizes
<1>2. PICK q \in Nat : q = u \div bit[(i - 1) * GroupBits]
    BY <1>1, Divides
<1>3. q % Byte \in Nat /\ q % Byte < Byte
    BY BufferSizes, Divides
<1> QED
    BY <1>2, <1>3 DEF Group

LEMMA Written ==
    ASSUME NEW u \in Nat, u < bit[Width]
    PROVE  /\ OneNumber(writeVaruint(u)) /\ Len(writeVaruint(u)) = groupsOf(u)
           /\ \A i \in 1 .. Len(writeVaruint(u)) : writeVaruint(u)[i] % Byte = Group(u, i)
<1>1. PICK n \in Nat : n = groupsOf(u) /\ n > 0
    BY GroupsCounted, BufferSizes
<1>2. PICK e : e = writeVaruint(u)
    OBVIOUS
<1>3. e = [i \in 1 .. n |-> Group(u, i) + (IF i < n THEN Byte ELSE 0)]
    BY <1>1, <1>2 DEF writeVaruint, Group, Byte
<1>4. \A i \in 1 .. n : Group(u, i) \in Nat /\ Group(u, i) < Byte
    BY GroupTyped
<1>5. e \in [1 .. n -> Nat]
  <2>1. Byte \in Nat
    BY BufferSizes
  <2>2. \A i \in 1 .. n : Group(u, i) + (IF i < n THEN Byte ELSE 0) \in Nat
    BY ONLY <1>4, <2>1
  <2> QED
    BY ONLY <1>3, <2>2
<1>6. e \in Seq(Nat) /\ Len(e) = n
    BY <1>5
<1>7. OneNumber(e)
    BY <1>1, <1>3, <1>4, <1>6, BufferSizes DEF OneNumber
<1>8. ASSUME NEW i \in 1 .. n PROVE e[i] % Byte = Group(u, i)
  <2>1. PICK g \in Nat : g = Group(u, i) /\ g < Byte
    BY <1>4
  <2>2. e[i] = Byte * 1 + g \/ e[i] = Byte * 0 + g
    BY <1>3, <2>1, BufferSizes
  <2>3. PICK c \in Nat : c = Byte /\ g < c
    BY <2>1, BufferSizes
  <2>4. (c * 1 + g) % c = g
    BY <2>3, DivideOnce
  <2>5. (c * 0 + g) % c = g
    BY <2>3, DivideOnce
  <2> QED
    BY <2>1, <2>2, <2>3, <2>4, <2>5
<1> QED
    BY <1>1, <1>2, <1>6, <1>7, <1>8

LEMMA Partially ==
    ASSUME NEW e \in Seq(Nat)
    PROVE  /\ partial(e) \in [0 .. Len(e) -> Nat] /\ partial(e)[0] = 0
           /\ \A i \in 1 .. Len(e) : partial(e)[i] =
                 IF (i - 1) * GroupBits >= Width THEN partial(e)[i - 1]
                 ELSE partial(e)[i - 1] + (e[i] % Byte) * bit[(i - 1) * GroupBits]
<1>0. Len(e) \in Nat /\ \A i \in 1 .. Len(e) : e[i] \in Nat
    OBVIOUS
<1> DEFINE Next1(i, s) == IF i * GroupBits >= Width THEN s ELSE s + (e[i + 1] % Byte) * bit[i * GroupBits]
<1>1. PICK step : step = [x \in Nat \X Nat |-> IF x[1] < Len(e) THEN Next1(x[1], x[2]) ELSE x[2]]
    OBVIOUS
<1>2. ASSUME NEW i \in Nat, NEW s \in Nat, i < Len(e) PROVE Next1(i, s) \in Nat
  <2>1. e[i + 1] \in Nat
    BY <1>0, <1>2
  <2>2. PICK m \in Nat : m = e[i + 1] % Byte
    BY <2>1, BufferSizes, Divides
  <2>3. PICK pw \in Nat : pw = bit[i * GroupBits]
    BY BufferSizes
  <2>4. m * pw \in Nat
    OBVIOUS
  <2> QED
    BY <2>2, <2>3, <2>4
<1> HIDE DEF Next1
<1>3. step \in [Nat \X Nat -> Nat] /\ \A i, s \in Nat : i < Len(e) => step[<<i, s>>] = Next1(i, s)
    BY <1>1, <1>2
<1>a. step \in [Nat \X Nat -> Nat]
    BY <1>3
<1>b. 0 \in Nat
    OBVIOUS
<1>c. Iterated(Nat, 0, step)
    BY ONLY <1>a, <1>b, Recursion
<1>4. PICK f \in [Nat -> Nat] : f[0] = 0 /\ \A n \in Nat : f[n + 1] = step[<<n, f[n]>>]
    BY <1>c DEF Iterated
<1>5. PICK h : h = [i \in 0 .. Len(e) |-> f[i]]
    OBVIOUS
<1>6. h \in [0 .. Len(e) -> Nat]
    BY <1>0, <1>5
<1>7. \A i \in 1 .. Len(e) : h[i] = Next1(i - 1, h[i - 1])
  <2> TAKE i \in 1 .. Len(e)
  <2>1. PICK k \in Nat : i = k + 1 /\ k < Len(e) /\ k \in 0 .. Len(e)
    <3>1. PICK n \in Nat : n = Len(e)
      BY <1>0
    <3>2. i \in 1 .. n
      BY <3>1
    <3>3. i \in Nat /\ 1 <= i /\ i <= n
      BY <3>2
    <3>4. PICK k \in Nat : k = i - 1
      BY <3>3
    <3>5. i = k + 1 /\ k < n /\ k \in 0 .. n
      BY <3>3, <3>4
    <3> QED
      BY <3>1, <3>5
  <2>2. f[k + 1] = step[<<k, f[k]>>] /\ f[k] \in Nat
    BY <1>4
  <2>3. f[k + 1] = Next1(k, f[k])
    BY <1>3, <2>1, <2>2
  <2>4. h[i] = f[k + 1] /\ h[k] = f[k] /\ i - 1 = k
    BY <1>5, <2>1
  <2> QED
    BY <2>3, <2>4
<1>8. h[0] = 0
    BY <1>0, <1>4, <1>5
<1>9. \A i \in 1 .. Len(e) : (i - 1) + 1 = i
    BY <1>0
<1>10. \A i \in 1 .. Len(e) : Next1(i - 1, h[i - 1]) =
           IF (i - 1) * GroupBits >= Width THEN h[i - 1] ELSE h[i - 1] + (e[i] % Byte) * bit[(i - 1) * GroupBits]
    BY <1>9 DEF Next1
<1>11. h = [i \in 0 .. Len(e) |->
              IF i = 0 THEN 0
              ELSE IF (i - 1) * GroupBits >= Width THEN h[i - 1]
              ELSE h[i - 1] + (e[i] % Byte) * bit[(i - 1) * GroupBits]]
  <2>1. \A i \in 0 .. Len(e) : h[i] =
              IF i = 0 THEN 0
              ELSE IF (i - 1) * GroupBits >= Width THEN h[i - 1]
              ELSE h[i - 1] + (e[i] % Byte) * bit[(i - 1) * GroupBits]
    <3> TAKE i \in 0 .. Len(e)
    <3>1. CASE i = 0
      BY <1>8, <3>1
    <3>2. CASE i # 0
      <4>1. i \in 1 .. Len(e)
        BY <1>0, <3>2
      <4> QED
        BY <1>7, <1>10, <3>2, <4>1
    <3> QED
      BY <3>1, <3>2
  <2> QED
    BY <1>6, <2>1
<1>12. PICK g : g = partial(e)
    OBVIOUS
<1>13. g = [i \in 0 .. Len(e) |->
              IF i = 0 THEN 0
              ELSE IF (i - 1) * GroupBits >= Width THEN g[i - 1]
              ELSE g[i - 1] + (e[i] % Byte) * bit[(i - 1) * GroupBits]]
    BY <1>11, <1>12 DEF partial, Byte
<1>14. g[0] = 0 /\ \A i \in 1 .. Len(e) : g[i] =
              IF (i - 1) * GroupBits >= Width THEN g[i - 1]
              ELSE g[i - 1] + (e[i] % Byte) * bit[(i - 1) * GroupBits]
  <2>1. g[0] = 0
    BY <1>0, <1>13
  <2>2. ASSUME NEW i \in 1 .. Len(e)
        PROVE  g[i] = IF (i - 1) * GroupBits >= Width THEN g[i - 1]
                      ELSE g[i - 1] + (e[i] % Byte) * bit[(i - 1) * GroupBits]
    <3>1. i \in 0 .. Len(e) /\ i # 0
      BY <1>0
    <3> QED
      BY <1>13, <3>1
  <2> QED
    BY <2>1, <2>2
<1>15. \A n \in Nat : n <= Len(e) => g[n] = h[n]
  <2>1. PICK good : good = {n \in Nat : n <= Len(e) => g[n] = h[n]}
    OBVIOUS
  <2>2. 0 \in good
    BY <1>8, <1>14, <2>1
  <2>3. ASSUME NEW n \in good PROVE n + 1 \in good
    <3>1. CASE n + 1 <= Len(e)
      <4>1. n + 1 \in 1 .. Len(e) /\ n \in Nat /\ (n + 1) - 1 = n /\ g[n] = h[n]
        BY <1>0, <2>1, <3>1
      <4>2. h[n + 1] = IF ((n + 1) - 1) * GroupBits >= Width THEN h[(n + 1) - 1]
                       ELSE h[(n + 1) - 1] + (e[n + 1] % Byte) * bit[((n + 1) - 1) * GroupBits]
        <5>1. h[n + 1] = Next1((n + 1) - 1, h[(n + 1) - 1])
          BY <1>7, <4>1
        <5>2. Next1((n + 1) - 1, h[(n + 1) - 1]) =
                IF ((n + 1) - 1) * GroupBits >= Width THEN h[(n + 1) - 1]
                ELSE h[(n + 1) - 1] + (e[n + 1] % Byte) * bit[((n + 1) - 1) * GroupBits]
          BY <1>10, <4>1
        <5> QED
          BY <5>1, <5>2
      <4>3. g[n + 1] = IF ((n + 1) - 1) * GroupBits >= Width THEN g[(n + 1) - 1]
                       ELSE g[(n + 1) - 1] + (e[n + 1] % Byte) * bit[((n + 1) - 1) * GroupBits]
        BY <1>14, <4>1
      <4>4. g[n + 1] = h[n + 1]
        BY <4>1, <4>2, <4>3
      <4> QED
        BY <2>1, <4>1, <4>4
    <3>2. CASE ~ (n + 1 <= Len(e))
      BY <2>1, <3>2
    <3> QED
      BY <3>1, <3>2
  <2>4. good \in SUBSET Nat
    BY <2>1
  <2>5. good = Nat
    BY <2>2, <2>3, <2>4, AllNumbers
  <2> QED
    BY <2>1, <2>5
<1>16. \A i \in 0 .. Len(e) : g[i] \in Nat
  <2> TAKE i \in 0 .. Len(e)
  <2>1. i \in Nat /\ i <= Len(e)
    BY <1>0
  <2>2. h[i] \in Nat
    BY ONLY <1>6, <2>1
  <2> QED
    BY <1>15, <2>1, <2>2
<1>17. g \in [0 .. Len(e) -> Nat]
    BY <1>13, <1>16
<1> QED
    BY <1>12, <1>14, <1>17

\* What is read from the bytes of a value is the value.
LEMMA ReadsWritten ==
    ASSUME NEW u \in Nat, u < bit[Width]
    PROVE  shifted(writeVaruint(u)) = u
<1>1. PICK e \in Seq(Nat), n \in Nat : e = writeVaruint(u) /\ n = groupsOf(u) /\ Len(e) = n /\ n > 0
    BY Written, GroupsCounted, BufferSizes DEF OneNumber
<1>2. \A i \in 1 .. n : e[i] % Byte = Group(u, i)
    BY <1>1, Written
<1>3. PICK f \in [0 .. n -> Nat] :
        /\ f = partial(e) /\ f[0] = 0
        /\ \A i \in 1 .. n : f[i] = IF (i - 1) * GroupBits >= Width THEN f[i - 1]
                                    ELSE f[i - 1] + (e[i] % Byte) * bit[(i - 1) * GroupBits]
    BY <1>1, Partially
<1>4. ASSUME NEW i \in 1 .. n PROVE (i - 1) * GroupBits < Width
  <2>1. CASE i = 1
    BY <2>1, BufferSizes
  <2>2. CASE i # 1
    <3>1. PICK k \in Nat : k = i - 1 /\ k \in 1 .. n - 1
      BY <2>2
    <3>2. PICK pw \in Nat, q \in Nat : pw = k * GroupBits /\ q = bit[pw] /\ q > 0
      BY BufferSizes
    <3>3. u \div q # 0
      BY <1>1, <3>1, <3>2, GroupsCounted
    <3>4. ~ (u < q)
      BY <3>3, BelowTop
    <3>5. ~ (Width <= pw)
      BY <3>2, <3>4, BufferSizes, BitGrows
    <3> QED
      BY <3>1, <3>2, <3>5, BufferSizes
  <2> QED
    BY <2>1, <2>2
<1>5. \A k \in Nat : k <= n => f[k] = u % bit[k * GroupBits]
  <2>1. PICK good : good = {k \in Nat : k <= n => f[k] = u % bit[k * GroupBits]}
    OBVIOUS
  <2>2. 0 \in good
    <3>1. bit[0 * GroupBits] = 1
      BY Bits, BufferSizes
    <3>2. u % 1 = 0
      OBVIOUS
    <3> QED
      BY <1>3, <2>1, <3>1, <3>2
  <2>3. ASSUME NEW k \in good PROVE k + 1 \in good
    <3>0. k \in Nat
      BY <2>1
    <3>1. CASE k + 1 <= n
      <4>1. k + 1 \in 1 .. n /\ (k + 1) - 1 = k /\ f[k] = u % bit[k * GroupBits]
        BY <2>1, <3>0, <3>1
      <4>2. PICK pw \in Nat : pw = bit[k * GroupBits] /\ pw > 0
        BY <3>0, BufferSizes
      <4>3. k * GroupBits < Width /\ ~ (k * GroupBits >= Width)
        <5>1. ((k + 1) - 1) * GroupBits < Width
          BY <1>4, <4>1
        <5>2. k * GroupBits < Width
          BY <4>1, <5>1
        <5>3. k * GroupBits \in Nat /\ Width \in Nat
          BY <3>0, BufferSizes
        <5> QED
          BY <5>2, <5>3
      <4>4. f[k + 1] = f[k] + (e[k + 1] % Byte) * pw
        BY <1>3, <4>1, <4>2, <4>3
      <4>5. e[k + 1] % Byte = (u \div pw) % Byte
        BY <1>2, <4>1, <4>2 DEF Group
      <4>6. u % (pw * Byte) = (u % pw) + ((u \div pw) % Byte) * pw
        <5>1. PICK c \in Nat : c = Byte /\ c > 0
          BY BufferSizes
        <5>a. u \in Nat /\ pw \in Nat /\ pw > 0 /\ c \in Nat /\ c > 0
          BY <4>2, <5>1
        <5>2. u % (pw * c) = (u % pw) + ((u \div pw) % c) * pw
          BY ONLY <5>a, Digit
        <5> QED
          BY <5>1, <5>2
      <4>7. pw * Byte = bit[(k + 1) * GroupBits]
        <5>1. (k + 1) * GroupBits = k * GroupBits + GroupBits
          BY <3>0, BufferSizes
        <5>2. k * GroupBits \in Nat /\ GroupBits \in Nat
          BY <3>0, BufferSizes
        <5> QED
          BY <4>2, <5>1, <5>2, BitSum DEF Byte
      <4>8. f[k + 1] = u % bit[(k + 1) * GroupBits]
        BY <4>1, <4>2, <4>4, <4>5, <4>6, <4>7
      <4> QED
        BY <2>1, <3>0, <4>8
    <3>2. CASE ~ (k + 1 <= n)
      BY <2>1, <3>0, <3>2
    <3> QED
      BY <3>1, <3>2
  <2>4. good \in SUBSET Nat
    BY <2>1
  <2>5. good = Nat
    BY <2>2, <2>3, <2>4, AllNumbers
  <2> QED
    BY <2>1, <2>5
<1>6. f[n] = u % bit[n * GroupBits]
    BY <1>5
<1>7. bit[n * GroupBits] \in Nat /\ bit[n * GroupBits] > 0 /\ u \div bit[n * GroupBits] = 0
    BY <1>1, BufferSizes, GroupsCounted
<1>8. f[n] = u
    BY <1>6, <1>7, NotBelow
<1>9. u % bit[Width] = u
    BY BufferSizes, BelowTop
<1> QED
    BY <1>1, <1>3, <1>8, <1>9 DEF shifted

LEMMA Zigzags ==
    ASSUME NEW v \in Values
    PROVE  zigzag(v) \in Nat /\ zigzag(v) < bit[Width] /\ unzigzag(zigzag(v)) = v /\ v \in Int
<1>1. PICK pw \in Nat, h \in Nat : pw = bit[Width] /\ h = bit[Width - 1] /\ pw = 2 * h /\ h > 0
    BY BufferSizes
<1>2. v \in Int /\ - h <= v /\ v <= h - 1
    BY <1>1, BufferAssumption
<1>3. CASE v >= 0
  <2>1. zigzag(v) = 2 * v
    BY <1>2, <1>3 DEF zigzag
  <2>2. (2 * v) % 2 = 0 /\ (2 * v) \div 2 = v
    BY <1>2, <1>3
  <2>3. unzigzag(2 * v) = v
    BY <2>2 DEF unzigzag
  <2> QED
    BY <1>1, <1>2, <1>3, <2>1, <2>3
<1>4. CASE v < 0
  <2>1. PICK x \in Nat : x = 2 * v + pw /\ x < pw
    BY <1>1, <1>2, <1>4
  <2>2. 2 * (v + pw) = pw * 1 + x
    BY <1>1, <1>2, <2>1
  <2>3. (pw * 1 + x) % pw = x
    BY <2>1, DivideOnce
  <2>4. zigzag(v) = pw - 1 - x
    BY <1>1, <1>2, <1>4, <2>2, <2>3 DEF zigzag
  <2>5. PICK z \in Nat : z = - 2 * v - 1
    BY <1>2, <1>4
  <2>6. zigzag(v) = z /\ z < pw
    BY <1>1, <1>2, <2>1, <2>4, <2>5
  <2>7. z % 2 = 1 /\ z \div 2 = - v - 1
    BY <1>2, <1>4, <2>5
  <2>8. unzigzag(z) = v
    BY <1>2, <2>7 DEF unzigzag
  <2> QED
    BY <1>1, <1>2, <2>6, <2>8
<1> QED
    BY <1>2, <1>3, <1>4

\* The bytes writeVarint writes for v.
Encoding(v) == writeVaruint(zigzag(v))

LEMMA Codec ==
    ASSUME NEW v \in Values
    PROVE  OneNumber(Encoding(v)) /\ unzigzag(shifted(Encoding(v))) = v
<1>1. zigzag(v) \in Nat /\ zigzag(v) < bit[Width] /\ unzigzag(zigzag(v)) = v
    BY Zigzags
<1>2. OneNumber(writeVaruint(zigzag(v))) /\ shifted(writeVaruint(zigzag(v))) = zigzag(v)
    BY <1>1, Written, ReadsWritten
<1> QED
    BY <1>1, <1>2 DEF Encoding

---------------------------------------------------------------------------------
(* kit/Buffer.cpp: where the values of a buffer lie.                         *)

\* The values put behind the first n begin at the places offset gives, between r and w in m.
Laid(m, put, n, r, w, offset) ==
    /\ offset \in [0 .. Len(put) -> Nat] /\ offset[n] = r /\ offset[Len(put)] = w
    /\ \A k \in n .. Len(put) : r <= offset[k] /\ offset[k] <= w
    /\ \A k \in n + 1 .. Len(put) :
          /\ offset[k] = offset[k - 1] + Len(Encoding(put[k]))
          /\ \A i \in 1 .. Len(Encoding(put[k])) : m[offset[k - 1] + i] = Encoding(put[k])[i]

LEMMA LaidNothing ==
    ASSUME NEW m
    PROVE  \E offset : Laid(m, <<>>, 0, 0, 0, offset)
<1>1. PICK offset : offset = [k \in 0 .. 0 |-> 0]
    OBVIOUS
<1>2. Len(<<>>) = 0
    OBVIOUS
<1>3. Laid(m, <<>>, 0, 0, 0, offset)
    BY <1>1, <1>2 DEF Laid
<1> QED
    BY <1>3

LEMMA LaidTyped ==
    ASSUME NEW v \in Values
    PROVE  Encoding(v) \in Seq(Nat) /\ Len(Encoding(v)) \in Nat /\ Len(Encoding(v)) > 0
<1>1. Encoding(v) \in Seq(Nat) /\ Len(Encoding(v)) > 0
    BY Codec DEF OneNumber
<1> QED
    BY <1>1

\* A value is added behind the others, which move to the front by s.
LEMMA LaidMore ==
    ASSUME NEW m, NEW put \in Seq(Values), NEW n \in Nat, n <= Len(put), NEW r \in Nat, NEW w \in Nat, NEW offset,
           Laid(m, put, n, r, w, offset), NEW s \in Nat, s <= r, NEW v \in Values, NEW m1,
           \A i \in r + 1 .. w : m1[i - s] = m[i],
           \A i \in 1 .. Len(Encoding(v)) : m1[(w - s) + i] = Encoding(v)[i]
    PROVE  \E at1 : Laid(m1, Append(put, v), n, r - s, (w - s) + Len(Encoding(v)), at1)
<1>1. PICK c \in Nat : c = Len(Encoding(v)) /\ c > 0
    BY LaidTyped
<1>2. PICK z \in Nat : z = Len(put)
    OBVIOUS
<1>3. PICK p1 : p1 = Append(put, v)
    OBVIOUS
<1>4. Len(p1) = z + 1 /\ p1[z + 1] = v /\ \A k \in 1 .. z : p1[k] = put[k] /\ put[k] \in Values
    BY <1>2, <1>3, AppendProperties
<1>5. /\ offset \in [0 .. z -> Nat] /\ offset[n] = r /\ offset[z] = w
      /\ \A k \in n .. z : r <= offset[k] /\ offset[k] <= w
    BY <1>2 DEF Laid
<1>6. \A k \in n + 1 .. z :
          /\ offset[k] = offset[k - 1] + Len(Encoding(put[k]))
          /\ \A i \in 1 .. Len(Encoding(put[k])) : m[offset[k - 1] + i] = Encoding(put[k])[i]
    BY <1>2 DEF Laid
<1>7. r <= w /\ z \in n .. z /\ n \in n .. z
    BY <1>2, <1>5
<1>8. PICK b : b = [k \in 0 .. z + 1 |-> IF k = z + 1 THEN (w - s) + c ELSE IF n <= k THEN offset[k] - s ELSE 0]
    OBVIOUS
<1>9. \A k \in n .. z : k \in 0 .. z + 1 /\ b[k] = offset[k] - s /\ b[k] \in Nat /\ offset[k] \in Nat
  <2> TAKE k \in n .. z
  <2>1. k \in 0 .. z + 1 /\ k \in 0 .. z /\ k # z + 1 /\ n <= k
    OBVIOUS
  <2>2. offset[k] \in Nat /\ r <= offset[k]
    BY <1>5, <2>1
  <2> QED
    BY <1>8, <2>1, <2>2
<1>10. b[z + 1] = (w - s) + c /\ (w - s) + c \in Nat
    BY <1>1, <1>7, <1>8
<1>11. b \in [0 .. z + 1 -> Nat]
  <2>1. ASSUME NEW k \in 0 .. z + 1 PROVE b[k] \in Nat
    <3>1. CASE k = z + 1
      BY <1>10, <3>1
    <3>2. CASE k \in n .. z
      BY <1>9, <3>2
    <3>3. CASE k < n /\ k # z + 1
      BY <1>8, <3>3
    <3> QED
      BY <1>2, <3>1, <3>2, <3>3
  <2> QED
    BY <1>8, <2>1
<1>12. b[n] = r - s
    BY <1>5, <1>7, <1>9
<1>13. \A k \in n .. z + 1 : r - s <= b[k] /\ b[k] <= (w - s) + c
  <2> TAKE k \in n .. z + 1
  <2>1. CASE k = z + 1
    BY <1>1, <1>7, <1>10, <2>1
  <2>2. CASE k # z + 1
    <3>1. k \in n .. z
      BY <2>2
    <3>2. b[k] = offset[k] - s /\ offset[k] \in Nat /\ r <= offset[k] /\ offset[k] <= w
      BY <1>5, <1>9, <3>1
    <3> QED
      BY <1>1, <3>2
  <2> QED
    BY <2>1, <2>2
<1>14. ASSUME NEW k \in n + 1 .. z + 1
       PROVE  /\ b[k] = b[k - 1] + Len(Encoding(p1[k]))
              /\ \A i \in 1 .. Len(Encoding(p1[k])) : m1[b[k - 1] + i] = Encoding(p1[k])[i]
  <2>0. k - 1 \in n .. z
    OBVIOUS
  <2>1. CASE k = z + 1
    <3>1. k - 1 = z /\ b[k - 1] = w - s
      BY <1>5, <1>9, <2>0, <2>1
    <3>2. p1[k] = v
      BY <1>4, <2>1
    <3>3. b[k] = b[k - 1] + c
      BY <1>10, <2>1, <3>1
    <3>4. \A i \in 1 .. c : m1[(w - s) + i] = Encoding(v)[i]
      BY <1>1
    <3>5. \A i \in 1 .. c : m1[b[k - 1] + i] = Encoding(v)[i]
      BY <3>1, <3>4
    <3> QED
      BY ONLY <1>1, <3>2, <3>3, <3>5
  <2>2. CASE k # z + 1
    <3>1. k \in n + 1 .. z /\ k \in n .. z /\ k \in 1 .. z
      BY <2>2
    <3>2. p1[k] = put[k] /\ put[k] \in Values
      BY <1>4, <3>1
    <3>3. PICK e : e = Encoding(put[k])
      OBVIOUS
    <3>4. e \in Seq(Nat) /\ Len(e) \in Nat /\ Len(e) > 0
      BY <3>2, <3>3, LaidTyped
    <3>5. offset[k] = offset[k - 1] + Len(e) /\ \A i \in 1 .. Len(e) : m[offset[k - 1] + i] = e[i]
      BY <1>6, <3>1, <3>3
    <3>6. PICK x \in Nat, y \in Nat : x = offset[k - 1] /\ y = offset[k] /\ b[k - 1] = x - s /\ b[k] = y - s /\ r <= x /\ y <= w
      BY <1>5, <1>9, <2>0, <3>1
    <3>7. y = x + Len(e) /\ \A i \in 1 .. Len(e) : m[x + i] = e[i]
      BY <3>5, <3>6
    <3>8. ASSUME NEW i \in 1 .. Len(e) PROVE m1[(x - s) + i] = e[i]
      <4>1. x + i \in r + 1 .. w /\ (x + i) - s = (x - s) + i
        <5>1. PICK d \in Nat : d = Len(e) /\ i \in 1 .. d
          BY <3>4
        <5>2. i \in Nat /\ 1 <= i /\ i <= d
          BY <5>1
        <5>3. y = x + d
          BY <3>7, <5>1
        <5>a. x \in Nat /\ y \in Nat /\ r \in Nat /\ w \in Nat /\ d \in Nat /\ r <= x /\ y <= w
          BY <3>6
        <5>4. x + i \in Nat /\ r + 1 <= x + i /\ x + i <= w
          BY ONLY <5>a, <5>2, <5>3
        <5>5. (x + i) - s = (x - s) + i
          BY <5>2
        <5>6. x + i \in r + 1 .. w
          BY ONLY <5>4, <5>a
        <5> QED
          BY <5>5, <5>6
      <4>2. m1[(x + i) - s] = m[x + i]
        BY <4>1
      <4> QED
        BY <3>7, <4>1, <4>2
    <3>9. y - s = (x - s) + Len(e)
      BY <3>4, <3>7
    <3> QED
      BY <3>2, <3>3, <3>6, <3>8, <3>9
  <2> QED
    BY <2>1, <2>2
<1>15. Laid(m1, p1, n, r - s, (w - s) + c, b)
    BY <1>4, <1>10, <1>11, <1>12, <1>13, <1>14 DEF Laid
<1> QED
    BY <1>1, <1>3, <1>15

\* The first value not read yet is read.
LEMMA LaidNext ==
    ASSUME NEW m, NEW put \in Seq(Values), NEW n \in Nat, n < Len(put), NEW r \in Nat, NEW w \in Nat, NEW offset,
           Laid(m, put, n, r, w, offset)
    PROVE  /\ Laid(m, put, n + 1, r + Len(Encoding(put[n + 1])), w, offset)
           /\ r + Len(Encoding(put[n + 1])) <= w
           /\ \A i \in 1 .. Len(Encoding(put[n + 1])) : m[r + i] = Encoding(put[n + 1])[i]
<1>1. PICK z \in Nat : z = Len(put) /\ n < z
    OBVIOUS
<1>2. n + 1 \in 1 .. z /\ n + 1 \in n + 1 .. z /\ n + 1 \in n .. z /\ (n + 1) - 1 = n
    BY <1>1
<1>3. put[n + 1] \in Values
    BY <1>1, <1>2
<1>4. PICK e : e = Encoding(put[n + 1])
    OBVIOUS
<1>5. PICK c \in Nat : c = Len(e) /\ c > 0
    BY <1>3, <1>4, LaidTyped
<1>6. /\ offset \in [0 .. z -> Nat] /\ offset[n] = r /\ offset[z] = w
      /\ \A k \in n .. z : r <= offset[k] /\ offset[k] <= w
    BY <1>1 DEF Laid
<1>7. \A k \in n + 1 .. z :
          /\ offset[k] = offset[k - 1] + Len(Encoding(put[k]))
          /\ \A i \in 1 .. Len(Encoding(put[k])) : m[offset[k - 1] + i] = Encoding(put[k])[i]
    BY <1>1 DEF Laid
<1>8. offset[n + 1] = r + c /\ r + c <= w
    BY <1>2, <1>4, <1>5, <1>6, <1>7
<1>9. \A i \in 1 .. c : m[r + i] = e[i]
  <2>1. n + 1 \in n + 1 .. z /\ (n + 1) - 1 = n
    BY <1>2
  <2>2. \A i \in 1 .. Len(Encoding(put[n + 1])) : m[offset[(n + 1) - 1] + i] = Encoding(put[n + 1])[i]
    BY ONLY <1>7, <2>1
  <2>3. offset[(n + 1) - 1] = r
    BY <1>6, <2>1
  <2> QED
    BY ONLY <1>4, <1>5, <2>2, <2>3
<1>10. \A k \in (n + 1) + 1 .. z : k \in n + 1 .. z
    BY <1>1
<1>11. \A k \in n + 1 .. z : r + c <= offset[k] /\ offset[k] <= w
  <2>1. PICK good : good = {k \in Nat : n + 1 <= k /\ k <= z => r + c <= offset[k]}
    OBVIOUS
  <2>2. 0 \in good
    BY <2>1
  <2>3. ASSUME NEW k \in good PROVE k + 1 \in good
    <3>0. k \in Nat
      BY <2>1
    <3>1. CASE k = n
      BY <1>5, <1>8, <2>1, <3>0, <3>1
    <3>2. CASE n + 1 <= k /\ k + 1 <= z
      <4>1. k + 1 \in n + 1 .. z /\ (k + 1) - 1 = k /\ k + 1 \in 1 .. z /\ k \in 0 .. z /\ k + 1 \in 0 .. z
        BY <1>1, <3>0, <3>2
      <4>2. put[k + 1] \in Values
        BY <1>1, <4>1
      <4>3. PICK d \in Nat : d = Len(Encoding(put[k + 1]))
        BY <4>2, LaidTyped
      <4>4. offset[k + 1] = offset[k] + d
        BY <1>7, <4>1, <4>3
      <4>5. r + c <= offset[k]
        BY <1>1, <2>1, <3>0, <3>2
      <4>6. offset[k] \in Nat
        BY <1>6, <4>1
      <4>7. r + c <= offset[k + 1]
        BY <4>3, <4>4, <4>5, <4>6
      <4> QED
        BY <2>1, <3>0, <4>7
    <3>3. CASE ~ (n + 1 <= k + 1 /\ k + 1 <= z)
      BY <2>1, <3>0, <3>3
    <3> QED
      BY <3>0, <3>1, <3>2, <3>3
  <2>4. good \in SUBSET Nat
    BY <2>1
  <2>5. good = Nat
    BY <2>2, <2>3, <2>4, AllNumbers
  <2> TAKE k \in n + 1 .. z
  <2>6. k \in Nat /\ n + 1 <= k /\ k <= z /\ k \in n .. z
    OBVIOUS
  <2> QED
    BY <1>6, <2>1, <2>5, <2>6
<1>12. Laid(m, put, n + 1, r + c, w, offset)
    BY <1>1, <1>6, <1>7, <1>8, <1>10, <1>11 DEF Laid
<1> QED
    BY <1>4, <1>5, <1>8, <1>9, <1>12

\* A reader finds the bytes of the value that begins where it stands.
LEMMA Found ==
    ASSUME NEW b \in Buffers, NEW m \in Seq(Nat), NEW r \in Nat, NEW t \in Nat, NEW e, OneNumber(e),
           b_mem[b] = m, b_obj[b].read = r, b_obj[b].tail = t, r + Len(e) <= t, r + Len(e) <= Len(m),
           \A i \in 1 .. Len(e) : m[r + i] = e[i]
    PROVE  groupsFrom(b) = e
<1>0. r \in Nat /\ t \in Nat /\ m \in Seq(Nat) /\ r + Len(e) <= t /\ r + Len(e) <= Len(m)
      /\ \A i \in 1 .. Len(e) : m[r + i] = e[i]
    OBVIOUS
<1>1. PICK c \in Nat : c = Len(e) /\ c > 0 /\ e \in Seq(Nat) /\ e[c] < Byte /\ \A i \in 1 .. c - 1 : e[i] >= Byte
  <2>1. OneNumber(e)
    OBVIOUS
  <2>2. e \in Seq(Nat) /\ Len(e) > 0 /\ e[Len(e)] < Byte /\ \A i \in 1 .. Len(e) - 1 : e[i] >= Byte
    BY ONLY <2>1 DEF OneNumber
  <2>3. Len(e) \in Nat
    BY ONLY <2>2
  <2> QED
    BY ONLY <2>2, <2>3
<1>b. \A i \in 1 .. c : e[i] \in Nat
    BY ONLY <1>1, c \in Nat
<1> DEFINE AtEnds(i) == m[i] < Byte /\ \A j \in r + 1 .. i - 1 : m[j] >= Byte
<1>2. r + c \in r + 1 .. t /\ AtEnds(r + c)
  <2>1. r + c \in r + 1 .. t /\ c \in 1 .. c
    BY <1>1
  <2>2. m[r + c] < Byte
    BY <1>1, <2>1
  <2>3. ASSUME NEW j \in r + 1 .. (r + c) - 1 PROVE m[j] >= Byte
    <3>1. PICK i \in Nat : i = j - r /\ i \in 1 .. c - 1 /\ i \in 1 .. c /\ r + i = j
      BY ONLY <1>0, c \in Nat, j \in r + 1 .. (r + c) - 1
    <3> QED
      BY <1>1, <3>1
  <2> QED
    BY <2>1, <2>2, <2>3
<1>3. ASSUME NEW i \in r + 1 .. t, AtEnds(i) PROVE i = r + c
  <2>0. Byte \in Nat
    BY BufferSizes
  <2>1. ~ (i < r + c)
    <3> SUFFICES ASSUME i < r + c PROVE FALSE
      OBVIOUS
    <3>1. PICK k \in Nat : k = i - r /\ k \in 1 .. c - 1 /\ k \in 1 .. c /\ r + k = i
      BY ONLY <1>0, c \in Nat, i \in r + 1 .. t, i < r + c
    <3>a. m[r + k] = e[k]
      BY <1>1, <3>1
    <3>2. m[i] = e[k] /\ e[k] >= Byte /\ e[k] \in Nat
      BY <1>1, <1>b, <3>1, <3>a
    <3> QED
      BY <1>3, <2>0, <3>2
  <2>2. ~ (r + c < i)
    <3> SUFFICES ASSUME r + c < i PROVE FALSE
      OBVIOUS
    <3>1. r + c \in r + 1 .. i - 1
      BY <1>1
    <3>a. c \in 1 .. c
      BY <1>1
    <3>b. m[r + c] = e[c]
      BY <1>1, <3>a
    <3>2. m[r + c] >= Byte /\ m[r + c] = e[c] /\ e[c] \in Nat
      BY <1>3, <1>b, <3>1, <3>a, <3>b
    <3>3. e[c] < Byte
      BY <1>1
    <3> QED
      BY ONLY <2>0, <3>2, <3>3
  <2>3. i \in Int /\ r + c \in Int
    BY <1>1, <1>3
  <2> QED
    BY <2>1, <2>2, <2>3
<1>4. (CHOOSE i \in r + 1 .. t : AtEnds(i)) = r + c
    BY <1>2, <1>3
<1>5. groupsFrom(b) = SubSeq(m, r + 1, r + c)
    BY <1>4 DEF groupsFrom, Byte
<1>6. SubSeq(m, r + 1, r + c) = e
  <2>1. PICK x : x = SubSeq(m, r + 1, r + c)
    OBVIOUS
  <2>2. x \in Seq(Nat) /\ Len(x) = c /\ \A i \in 1 .. c : x[i] = m[r + i]
    <3>a. r + c <= Len(m) /\ r + 1 <= r + c /\ r + 1 \in Nat /\ r + c \in Nat
      BY <1>1
    <3>1. PICK f \in Nat, l \in Nat : f = r + 1 /\ l = r + c /\ l <= Len(m) /\ f <= l
      BY ONLY <3>a
    <3>2. f \in Int /\ l \in Int /\ \A i \in f .. l : m[i] \in Nat
      BY <3>1
    <3>3. /\ SubSeq(m, f, l) \in Seq(Nat)
          /\ Len(SubSeq(m, f, l)) = IF f <= l THEN l - f + 1 ELSE 0
          /\ \A i \in 1 .. l - f + 1 : SubSeq(m, f, l)[i] = m[f + i - 1]
      BY ONLY <3>2, SubSeqProperties
    <3>4. l - f + 1 = c /\ \A i \in 1 .. c : f + i - 1 = r + i
      BY <1>1, <3>1
    <3> QED
      BY <2>1, <3>1, <3>3, <3>4
  <2>3. \A i \in 1 .. c : x[i] = e[i]
    BY <1>1, <2>2
  <2>4. Len(x) = Len(e)
    BY <1>1, <2>2
  <2> QED
    <3>1. \A i \in 1 .. Len(x) : x[i] = e[i]
      BY <2>2, <2>3
    <3>2. x \in Seq(Nat) /\ e \in Seq(Nat)
      BY <1>1, <2>2
    <3>3. x = e
      BY ONLY <2>4, <3>1, <3>2, SeqEqual
    <3> QED
      BY <2>1, <3>3
<1> QED
    BY <1>5, <1>6

Obj == [capacity : Nat, tail : Nat, write : Nat, read : Nat]

\* The unread bytes are inside the memory and in front of the tail.
Fits(o) == o.read <= o.write /\ o.write <= o.capacity /\ o.write <= o.tail

\* The bytes are still there after reserveBuffer, moved to the front by s, and size more fit.
Reserved(o, m, size, o1, m1, s) ==
    /\ o1 \in Obj /\ m1 \in Seq(Nat) /\ Len(m1) = o1.capacity /\ o.capacity <= o1.capacity
    /\ s <= o.read /\ o1.read = o.read - s /\ o1.write = o.write - s
    /\ o1.write + size <= o1.tail
    /\ \A i \in o.read + 1 .. o.write : m1[i - s] = m[i]

LEMMA Reserves ==
    ASSUME NEW o \in Obj, NEW m \in Seq(Nat), Len(m) = o.capacity, Fits(o), NEW size \in Nat
    PROVE  \E s \in Nat : Reserved(o, m, size, reserveBuffer(o, m, size).obj, reserveBuffer(o, m, size).mem, s)
<1>1. PICK c \in Nat, t \in Nat, w \in Nat, r \in Nat :
          c = o.capacity /\ t = o.tail /\ w = o.write /\ r = o.read
    BY DEF Obj
<1>2. r <= w /\ w <= c /\ w <= t /\ Len(m) = c /\ o = [capacity |-> c, tail |-> t, write |-> w, read |-> r]
    BY <1>1 DEF Fits, Obj
<1>3. \A i \in 1 .. c : m[i] \in Nat
    BY <1>2
<1>4. CASE w + size <= t
  <2>1. reserveBuffer(o, m, size) = [obj |-> o, mem |-> m]
    BY <1>1, <1>4 DEF reserveBuffer
  <2>2. Reserved(o, m, size, o, m, 0)
    BY <1>1, <1>2, <1>4 DEF Reserved
  <2> QED
    BY <2>1, <2>2
<1>5. CASE w + size > t /\ r + t - w >= size
  <2>1. reserveBuffer(o, m, size) = compact(o, m)
    BY <1>1, <1>2, <1>5 DEF reserveBuffer
  <2>2. PICK m1 : m1 = [i \in 1 .. c |-> IF i <= w - r THEN m[r + i] ELSE m[i]]
    OBVIOUS
  <2>3. PICK o1 : o1 = [capacity |-> c, tail |-> t, write |-> w - r, read |-> 0]
    OBVIOUS
  <2>4. compact(o, m).obj = o1
    BY <1>1, <1>2, <2>3 DEF compact
  <2>5. compact(o, m).mem = m1
    BY <1>1, <1>2, <2>2 DEF compact
  <2>6. o1 \in Obj /\ o1.capacity = c /\ o1.tail = t /\ o1.write = w - r /\ o1.read = 0
    BY <1>2, <2>3 DEF Obj
  <2>7. \A i \in 1 .. c : m1[i] \in Nat
    BY <1>2, <1>3, <2>2
  <2>8. m1 \in Seq(Nat) /\ Len(m1) = c
    BY <2>2, <2>7
  <2>9. ASSUME NEW i \in r + 1 .. w PROVE m1[i - r] = m[i]
    <3>1. PICK j \in Nat : j = i - r /\ j \in 1 .. c /\ j <= w - r /\ r + j = i
      BY <1>2, i - r \in Nat
    <3> QED
      BY <2>2, <3>1
  <2>10. (w - r) + size <= t
    BY <1>2, <1>5
  <2>11. Reserved(o, m, size, o1, m1, r)
    BY <1>1, <1>2, <2>6, <2>8, <2>9, <2>10 DEF Reserved
  <2> QED
    BY <2>1, <2>4, <2>5, <2>11
<1>6. CASE w + size > t /\ ~ (r + t - w >= size) /\ w + size <= c
  <2>1. PICK o1 : o1 = [capacity |-> c, tail |-> w + size, write |-> w, read |-> r]
    OBVIOUS
  <2>2. [o EXCEPT !.tail = w + size] = o1
    BY <1>2, <2>1
  <2>3. reserveBuffer(o, m, size) = [obj |-> [o EXCEPT !.tail = w + size], mem |-> m]
    BY <1>1, <1>2, <1>6 DEF reserveBuffer
  <2>4. o1 \in Obj /\ o1.capacity = c /\ o1.tail = w + size /\ o1.write = w /\ o1.read = r
    BY <2>1 DEF Obj
  <2>5. Reserved(o, m, size, o1, m, 0)
    BY <1>1, <1>2, <2>4 DEF Reserved
  <2> QED
    BY <2>2, <2>3, <2>5
<1>7. CASE w + size > t /\ ~ (r + t - w >= size) /\ ~ (w + size <= c)
  <2>1. PICK d \in Nat : d = (IF (w + size) + Grow > c * 2 THEN (w + size) + Grow ELSE c * 2)
    BY BufferAssumption
  <2>2. c <= d /\ w + size <= d
    BY <1>7, <2>1, BufferAssumption
  <2>3. reserveBuffer(o, m, size) = expandBuffer(o, m, w + size)
    BY <1>1, <1>2, <1>7 DEF reserveBuffer
  <2>4. PICK o1 : o1 = [capacity |-> d, tail |-> d, write |-> w, read |-> r]
    OBVIOUS
  <2>5. PICK m1 : m1 = [i \in 1 .. d |-> IF i <= c THEN m[i] ELSE 0]
    OBVIOUS
  <2>6. expandBuffer(o, m, w + size).obj = o1
    BY <1>1, <1>2, <2>1, <2>4 DEF expandBuffer
  <2>7. expandBuffer(o, m, w + size).mem = m1
    BY <1>1, <2>1, <2>5 DEF expandBuffer
  <2>8. o1 \in Obj /\ o1.capacity = d /\ o1.tail = d /\ o1.write = w /\ o1.read = r
    BY <2>4 DEF Obj
  <2>9. \A i \in 1 .. d : m1[i] \in Nat
    BY <1>3, <2>5
  <2>10. m1 \in Seq(Nat) /\ Len(m1) = d
    BY <2>5, <2>9
  <2>11. ASSUME NEW i \in r + 1 .. w PROVE m1[i - 0] = m[i]
    <3>1. i - 0 = i /\ i \in 1 .. d /\ i <= c
      BY <1>2, <2>2
    <3> QED
      BY <2>5, <3>1
  <2>12. Reserved(o, m, size, o1, m1, 0)
    BY <1>1, <1>2, <2>2, <2>8, <2>10, <2>11 DEF Reserved
  <2> QED
    BY <2>3, <2>6, <2>7, <2>12
<1> QED
    BY <1>4, <1>5, <1>6, <1>7

---------------------------------------------------------------------------------
(* kit/BufferPool.cpp: the queues of the pool.                               *)

Queues == [Exps -> Seq(Buffers)]

InPool(q, b) == \E i \in Exps : \E k \in 1 .. Len(q[i]) : q[i][k] = b

\* No buffer is queued twice.
OnceEach(q) == \A i, j \in Exps : \A k \in 1 .. Len(q[i]), l \in 1 .. Len(q[j]) :
                   q[i][k] = q[j][l] => i = j /\ k = l

Takes(q, i, q1) == q[i] # <<>> /\ q1 = [q EXCEPT ![i] = Tail(@)]

LEMMA TakenOut ==
    ASSUME NEW q \in Queues, OnceEach(q), NEW i \in Exps, NEW q1, Takes(q, i, q1)
    PROVE  /\ q1 \in Queues /\ OnceEach(q1) /\ Head(q[i]) \in Buffers
           /\ InPool(q, Head(q[i])) /\ ~ InPool(q1, Head(q[i]))
           /\ \A c \in Buffers : c # Head(q[i]) => (InPool(q1, c) <=> InPool(q, c))
<1>t. q[i] # <<>> /\ q1 = [q EXCEPT ![i] = Tail(@)]
    BY DEF Takes
<1>1. PICK s \in Seq(Buffers) : s = q[i] /\ s # <<>>
    BY <1>t DEF Queues
<1>2. PICK n \in Nat : n = Len(s) /\ n > 0
    BY <1>1
<1>a. Tail(s) \in Seq(Buffers)
    BY <1>1, HeadTailProperties
<1>b. PICK t \in Seq(Buffers) : t = Tail(s)
    BY <1>a
<1>3. PICK b : t = Tail(s) /\ b = Head(s)
    BY <1>b
<1>4. b = s[1] /\ b \in Buffers /\ Len(t) = n - 1 /\ \A k \in 1 .. n - 1 : t[k] = s[k + 1] /\ k + 1 \in 1 .. n
    BY <1>1, <1>2, <1>3
<1>5. q1[i] = t /\ \A j \in Exps : j # i => q1[j] = q[j]
    BY <1>t, <1>1, <1>3 DEF Queues
<1>6. q1 \in Queues
    BY <1>t, <1>1, <1>3 DEF Queues
<1>7. 1 \in 1 .. n
    BY <1>2
<1>8. InPool(q, b)
    BY <1>1, <1>2, <1>4, <1>7 DEF InPool
<1>9. \A j \in Exps : \A k \in 1 .. Len(q1[j]) :
          \E l \in 1 .. Len(q[j]) : q1[j][k] = q[j][l] /\ l = (IF j = i THEN k + 1 ELSE k)
  <2> SUFFICES ASSUME NEW j \in Exps, NEW k \in 1 .. Len(q1[j])
               PROVE  \E l \in 1 .. Len(q[j]) : q1[j][k] = q[j][l] /\ l = (IF j = i THEN k + 1 ELSE k)
    OBVIOUS
  <2>1. CASE j = i
    <3>1. k \in 1 .. n - 1
      BY <1>4, <1>5, <2>1
    <3> QED
      BY <1>1, <1>2, <1>4, <1>5, <2>1, <3>1
  <2>2. CASE j # i
    BY <1>5, <2>2
  <2> QED
    BY <2>1, <2>2
<1>10. OnceEach(q1)
  <2> SUFFICES ASSUME NEW j \in Exps, NEW h \in Exps, NEW k \in 1 .. Len(q1[j]), NEW l \in 1 .. Len(q1[h]),
                      q1[j][k] = q1[h][l]
               PROVE  j = h /\ k = l
    BY DEF OnceEach
  <2>1. PICK k1 \in 1 .. Len(q[j]) : q1[j][k] = q[j][k1] /\ k1 = (IF j = i THEN k + 1 ELSE k)
    BY <1>9
  <2>2. PICK l1 \in 1 .. Len(q[h]) : q1[h][l] = q[h][l1] /\ l1 = (IF h = i THEN l + 1 ELSE l)
    BY <1>9
  <2>a. q[j][k1] = q[h][l1]
    BY <2>1, <2>2
  <2>b. \A c, d \in Exps : \A x \in 1 .. Len(q[c]), y \in 1 .. Len(q[d]) : q[c][x] = q[d][y] => c = d /\ x = y
    BY DEF OnceEach
  <2>c. j \in Exps /\ h \in Exps /\ k1 \in 1 .. Len(q[j]) /\ l1 \in 1 .. Len(q[h])
    OBVIOUS
  <2>3. j = h /\ k1 = l1
    BY ONLY <2>a, <2>b, <2>c
  <2> QED
    BY <2>1, <2>2, <2>3
<1>11. ~ InPool(q1, b)
  <2> SUFFICES ASSUME NEW j \in Exps, NEW k \in 1 .. Len(q1[j]), q1[j][k] = b PROVE FALSE
    BY DEF InPool
  <2>1. PICK l \in 1 .. Len(q[j]) : q1[j][k] = q[j][l] /\ l = (IF j = i THEN k + 1 ELSE k)
    BY <1>9
  <2>2. q[j][l] = q[i][1] /\ 1 \in 1 .. Len(q[i])
    BY <1>1, <1>2, <1>4, <1>7, <2>1
  <2>3. j = i /\ l = 1
    BY <2>2 DEF OnceEach
  <2> QED
    BY <2>1, <2>3
<1>12. ASSUME NEW c \in Buffers, c # b PROVE InPool(q1, c) <=> InPool(q, c)
  <2>1. ASSUME InPool(q1, c) PROVE InPool(q, c)
    <3>1a. PICK j \in Exps : \E k \in 1 .. Len(q1[j]) : q1[j][k] = c
      BY <2>1 DEF InPool
    <3>1. PICK k \in 1 .. Len(q1[j]) : q1[j][k] = c
      BY <3>1a
    <3>2. PICK l \in 1 .. Len(q[j]) : q1[j][k] = q[j][l]
      BY <1>9
    <3> QED
      BY <3>1, <3>2 DEF InPool
  <2>2. ASSUME InPool(q, c) PROVE InPool(q1, c)
    <3>1a. PICK j \in Exps : \E k \in 1 .. Len(q[j]) : q[j][k] = c
      BY <2>2 DEF InPool
    <3>1. PICK k \in 1 .. Len(q[j]) : q[j][k] = c
      BY <3>1a
    <3>2. CASE j = i
      <4>1. k \in 1 .. n /\ s[k] = c /\ k # 1
        BY <1>1, <1>2, <1>4, <1>12, <3>1, <3>2
      <4>2. PICK l \in 1 .. n - 1 : l + 1 = k
        BY <4>1, k - 1 \in Nat
      <4>3. t[l] = c /\ l \in 1 .. Len(q1[i])
        BY <1>4, <1>5, <4>1, <4>2
      <4> QED
        BY <1>5, <4>3 DEF InPool
    <3>3. CASE j # i
      BY <1>5, <3>1, <3>3 DEF InPool
    <3> QED
      BY <3>2, <3>3
  <2> QED
    BY <2>1, <2>2
<1> QED
    BY <1>1, <1>3, <1>4, <1>6, <1>8, <1>10, <1>11, <1>12

Puts(q, i, b, q1) == q1 = [q EXCEPT ![i] = Append(@, b)]

LEMMA PutIn ==
    ASSUME NEW q \in Queues, OnceEach(q), NEW i \in Exps, NEW b \in Buffers, ~ InPool(q, b),
           NEW q1, Puts(q, i, b, q1)
    PROVE  /\ q1 \in Queues /\ OnceEach(q1) /\ InPool(q1, b)
           /\ \A c \in Buffers : c # b => (InPool(q1, c) <=> InPool(q, c))
<1>t. q1 = [q EXCEPT ![i] = Append(@, b)]
    BY DEF Puts
<1>1. PICK s \in Seq(Buffers) : s = q[i]
    BY DEF Queues
<1>2. PICK n \in Nat : n = Len(s)
    BY <1>1
<1>a. Append(s, b) \in Seq(Buffers)
    BY <1>1, AppendProperties
<1>3. PICK t \in Seq(Buffers) : t = Append(s, b)
    BY <1>a
<1>4. Len(t) = n + 1 /\ t[n + 1] = b /\ \A k \in 1 .. n : t[k] = s[k]
    BY <1>1, <1>2, <1>3, AppendProperties
<1>5. q1[i] = t /\ \A j \in Exps : j # i => q1[j] = q[j]
    BY <1>t, <1>1, <1>3 DEF Queues
<1>6. q1 \in Queues
    BY <1>t, <1>1, <1>3 DEF Queues
<1>7. InPool(q1, b)
  <2>1. n + 1 \in 1 .. Len(q1[i]) /\ q1[i][n + 1] = b
    BY <1>2, <1>4, <1>5
  <2> QED
    BY <2>1 DEF InPool
<1>8. \A j \in Exps : \A k \in 1 .. Len(q1[j]) :
          \/ k \in 1 .. Len(q[j]) /\ q1[j][k] = q[j][k]
          \/ j = i /\ k = n + 1 /\ q1[j][k] = b
  <2> SUFFICES ASSUME NEW j \in Exps, NEW k \in 1 .. Len(q1[j])
               PROVE  \/ k \in 1 .. Len(q[j]) /\ q1[j][k] = q[j][k]
                      \/ j = i /\ k = n + 1 /\ q1[j][k] = b
    OBVIOUS
  <2>1. CASE j = i
    <3>1. k \in 1 .. n + 1
      BY <1>4, <1>5, <2>1
    <3>2. CASE k = n + 1
      BY <1>4, <1>5, <2>1, <3>2
    <3>3. CASE k # n + 1
      <4>1. k \in 1 .. n
        BY <1>2, <3>1, <3>3
      <4> QED
        BY <1>1, <1>2, <1>4, <1>5, <2>1, <4>1
    <3> QED
      BY <3>2, <3>3
  <2>2. CASE j # i
    BY <1>5, <2>2
  <2> QED
    BY <2>1, <2>2
<1>9. OnceEach(q1)
  <2> SUFFICES ASSUME NEW j \in Exps, NEW h \in Exps, NEW k \in 1 .. Len(q1[j]), NEW l \in 1 .. Len(q1[h]),
                      q1[j][k] = q1[h][l]
               PROVE  j = h /\ k = l
    BY DEF OnceEach
  <2>1. \/ k \in 1 .. Len(q[j]) /\ q1[j][k] = q[j][k]
        \/ j = i /\ k = n + 1 /\ q1[j][k] = b
    BY <1>8
  <2>2. \/ l \in 1 .. Len(q[h]) /\ q1[h][l] = q[h][l]
        \/ h = i /\ l = n + 1 /\ q1[h][l] = b
    BY <1>8
  <2>3. CASE q1[j][k] = b
    BY <2>1, <2>2, <2>3 DEF InPool
  <2>4. CASE q1[j][k] # b
    BY <2>1, <2>2, <2>4 DEF OnceEach
  <2> QED
    BY <2>3, <2>4
<1>10. ASSUME NEW c \in Buffers, c # b PROVE InPool(q1, c) <=> InPool(q, c)
  <2>1. ASSUME InPool(q1, c) PROVE InPool(q, c)
    BY <1>8, <1>10, <2>1 DEF InPool
  <2>2. ASSUME InPool(q, c) PROVE InPool(q1, c)
    <3>1a. PICK j \in Exps : \E k \in 1 .. Len(q[j]) : q[j][k] = c
      BY <2>2 DEF InPool
    <3>1. PICK k \in 1 .. Len(q[j]) : q[j][k] = c
      BY <3>1a
    <3>2. CASE j = i
      <4>1. k \in 1 .. n + 1 /\ t[k] = c
        BY <1>1, <1>2, <1>4, <3>1, <3>2
      <4> QED
        BY <1>4, <1>5, <4>1 DEF InPool
    <3>3. CASE j # i
      BY <1>5, <3>1, <3>3 DEF InPool
    <3> QED
      BY <3>2, <3>3
  <2> QED
    BY <2>1, <2>2
<1> QED
    BY <1>6, <1>7, <1>9, <1>10

LEMMA QueuedOnce ==
    ASSUME b_ques \in Queues, OnceEach(b_ques), NEW b \in Buffers
    PROVE  /\ Cardinality(Queued(b)) = IF InPool(b_ques, b) THEN 1 ELSE 0
           /\ Queued(b) # {} <=> InPool(b_ques, b)
<1>1. \A i \in Exps : DOMAIN b_ques[i] = 1 .. Len(b_ques[i])
    BY DEF Queues
<1>2. \A x : x \in Queued(b) <=> \E i \in Exps : \E k \in 1 .. Len(b_ques[i]) : x = <<i, k>> /\ b_ques[i][k] = b
    BY <1>1 DEF Queued
<1>3. CASE InPool(b_ques, b)
  <2>1a. PICK i \in Exps : \E k \in 1 .. Len(b_ques[i]) : b_ques[i][k] = b
    BY <1>3 DEF InPool
  <2>1. PICK k \in 1 .. Len(b_ques[i]) : b_ques[i][k] = b
    BY <2>1a
  <2>2. \A x : x \in Queued(b) <=> x = <<i, k>>
    BY <1>2, <2>1 DEF OnceEach
  <2>3. Queued(b) = {<<i, k>>}
    BY <2>2
  <2> QED
    BY <1>3, <2>3, FS_Singleton
<1>4. CASE ~ InPool(b_ques, b)
  <2>1. Queued(b) = {}
    BY <1>2, <1>4 DEF InPool
  <2> QED
    BY <1>4, <2>1, FS_EmptySet
<1> QED
    BY <1>3, <1>4

LEMMA IndexFor ==
    ASSUME NEW size \in Nat
    PROVE  indexFor(size) \in Nat /\ indexFor(size) >= MinExp /\ bit[indexFor(size)] \in Nat /\ bit[indexFor(size)] > 0
<1>1. PICK enough : enough = {e \in MinExp .. MinExp + size : bit[e] >= size}
    OBVIOUS
<1>2. MinExp + size \in enough
  <2>1. MinExp + size \in Nat /\ MinExp + size \in MinExp .. MinExp + size /\ MinExp + size >= size
    BY BufferSizes
  <2>2. bit[MinExp + size] \in Nat /\ bit[MinExp + size] > MinExp + size
    BY <2>1, Bits, BitLarge
  <2>3. bit[MinExp + size] >= size
    BY <2>1, <2>2
  <2> QED
    BY <1>1, <2>1, <2>3
<1>3. enough \subseteq Nat /\ enough # {}
    BY <1>1, <1>2, BufferSizes
<1>4. PICK e \in enough : \A k \in enough : e <= k
    BY <1>3, LeastNumber
<1>5. e \in MinExp .. MinExp + size /\ bit[e] >= size
    BY <1>1, <1>4
<1>6. \A k \in MinExp .. e - 1 : bit[k] < size
  <2> TAKE k \in MinExp .. e - 1
  <2>1. k \in Nat /\ k \in MinExp .. MinExp + size /\ ~ (e <= k)
    BY <1>5, BufferSizes
  <2>2. ~ (bit[k] >= size) /\ bit[k] \in Nat
    BY <1>1, <1>4, <2>1, Bits
  <2> QED
    BY <2>2
<1>7. PICK x \in MinExp .. MinExp + size : x = indexFor(size)
    BY <1>5, <1>6 DEF indexFor
<1>8. x \in Nat /\ x >= MinExp
    BY BufferSizes
<1> QED
    BY <1>7, <1>8, Bits, BitLarge

LEMMA IndexOf ==
    ASSUME NEW c \in Nat, c > 0
    PROVE  indexOf(c) \in Nat /\ indexOf(c) >= MinExp
<1>1. PICK above : above = {n \in Nat : c < bit[n]}
    OBVIOUS
<1>2. c \in above
    BY <1>1, BitLarge
<1>3. above \subseteq Nat /\ above # {}
    BY <1>1, <1>2
<1>4. PICK n \in above : \A k \in above : n <= k
    BY <1>3, LeastNumber
<1>5. n \in Nat /\ c < bit[n] /\ n <= c
    BY <1>1, <1>2, <1>4
<1>6. n # 0
    BY <1>5, Bits
<1>7. n - 1 \in Nat /\ ~ (n <= n - 1)
    BY <1>5, <1>6
<1>8. bit[n - 1] <= c
  <2>1. ~ (c < bit[n - 1]) /\ bit[n - 1] \in Nat
    BY <1>1, <1>4, <1>7, Bits
  <2> QED
    BY <2>1
<1>9. n \in 1 .. c
    BY <1>5, <1>6
<1>10. PICK x \in 1 .. c : indexOf(c) = MinExp + x
    BY <1>5, <1>8, <1>9 DEF indexOf
<1> QED
    BY <1>10, BufferSizes

---------------------------------------------------------------------------------
(* kit/Buffer.cpp and kit/BufferPool.cpp: what every call keeps.             *)

\* put are the values written to a buffer, g those read from it.
Stored(o, m, put, g) ==
    /\ Fits(o) /\ Len(g) <= Len(put) /\ \A k \in 1 .. Len(g) : g[k] = put[k]
    /\ \E offset : Laid(m, put, Len(g), o.read, o.write, offset)

BufTypes ==
    /\ b_obj \in [Buffers -> Obj] /\ b_mem \in [Buffers -> Seq(Nat)]
    /\ b_refs \in [Buffers -> Nat] /\ b_holds \in [Buffers -> Nat] /\ b_ques \in Queues
    /\ b_put \in [Buffers -> Seq(Values)] /\ b_got \in [Buffers -> Seq(Values)]
    /\ b_smashed \in BOOLEAN

MemoryKept ==
    \A b \in Buffers : /\ Len(b_mem[b]) = b_obj[b].capacity
                       /\ b_refs[b] > 0 => b_obj[b].capacity > 0

\* A buffer in the pool has the pool's reference only, any other those of its users.
Owners ==
    /\ OnceEach(b_ques)
    /\ \A b \in Buffers : IF InPool(b_ques, b) THEN b_refs[b] = 1 /\ b_holds[b] = 0
                          ELSE b_refs[b] = b_holds[b]

AllStored == \A b \in Buffers : InUse(b) => Stored(b_obj[b], b_mem[b], b_put[b], b_got[b])

BufferInv == BufTypes /\ MemoryKept /\ Owners /\ AllStored

\* o2 and m2 after the bytes e are written to o1 and m1.
Wrote(o1, m1, e, o2, m2) ==
    /\ o2 = [o1 EXCEPT !.write = o1.write + Len(e)]
    /\ m2 = [i \in 1 .. o1.capacity |->
                IF i \in o1.write + 1 .. o1.write + Len(e) THEN e[i - o1.write] ELSE m1[i]]

LEMMA WriteKeeps ==
    ASSUME NEW o \in Obj, NEW m \in Seq(Nat), Len(m) = o.capacity,
           NEW put \in Seq(Values), NEW g \in Seq(Values), Stored(o, m, put, g), NEW v \in Values,
           NEW o1, NEW m1, NEW s \in Nat, Reserved(o, m, Len(Encoding(v)), o1, m1, s),
           NEW o2, NEW m2, Wrote(o1, m1, Encoding(v), o2, m2)
    PROVE  /\ o2 \in Obj /\ m2 \in Seq(Nat) /\ Len(m2) = o2.capacity /\ o.capacity <= o2.capacity
           /\ ~ (o1.write + Len(Encoding(v)) > o1.capacity) => Stored(o2, m2, Append(put, v), g)
<1>1. PICK r \in Nat, w \in Nat : r = o.read /\ w = o.write
    BY DEF Obj
<1>2. PICK e \in Seq(Nat) : e = Encoding(v)
    BY LaidTyped
<1>3. PICK c \in Nat : c = Len(e) /\ c > 0
    BY <1>2, LaidTyped
<1>4. /\ o1 \in Obj /\ m1 \in Seq(Nat) /\ Len(m1) = o1.capacity /\ o.capacity <= o1.capacity
      /\ s <= r /\ o1.read = r - s /\ o1.write = w - s
      /\ o1.write + c <= o1.tail
      /\ \A i \in r + 1 .. w : m1[i - s] = m[i]
    BY <1>1, <1>2, <1>3 DEF Reserved
<1>5. PICK d \in Nat, t \in Nat, f \in Nat, x \in Nat :
          d = o1.capacity /\ t = o1.tail /\ f = o1.write /\ x = o1.read
    BY <1>4 DEF Obj
<1>6. o1 = [capacity |-> d, tail |-> t, write |-> f, read |-> x]
    BY <1>4, <1>5 DEF Obj
<1>7. o2 = [capacity |-> d, tail |-> t, write |-> f + c, read |-> x]
    BY <1>2, <1>3, <1>6 DEF Wrote
<1>t. r \in Nat /\ w \in Nat /\ s \in Nat /\ c \in Nat /\ d \in Nat /\ t \in Nat /\ f \in Nat /\ x \in Nat
    BY <1>1, <1>3, <1>5
<1>a. o2.capacity = d /\ o2.tail = t /\ o2.write = f + c /\ o2.read = x
    BY ONLY <1>7
<1>b. f + c \in Nat
    BY ONLY <1>t
<1>c. o2 \in Obj
    BY ONLY <1>7, <1>t, <1>b DEF Obj
<1>8. o2 \in Obj /\ o2.capacity = d /\ o2.tail = t /\ o2.write = f + c /\ o2.read = x
    BY <1>a, <1>c
<1>9. f = w - s /\ x = r - s /\ s <= r /\ f + c <= t
    BY <1>4, <1>5
<1>10. m2 = [i \in 1 .. d |-> IF i \in f + 1 .. f + c THEN e[i - f] ELSE m1[i]]
    BY <1>2, <1>3, <1>5 DEF Wrote
<1>11. \A i \in 1 .. d : m2[i] \in Nat
  <2> TAKE i \in 1 .. d
  <2>1. CASE i \in f + 1 .. f + c
    <3>1. i - f \in 1 .. c
      BY <2>1
    <3>a. e \in Seq(Nat) /\ Len(e) = c
      BY <1>3
    <3>2. e[i - f] \in Nat
      BY ONLY <3>a, <3>1
    <3> QED
      BY <1>10, <2>1, <3>2
  <2>2. CASE i \notin f + 1 .. f + c
    <3>a. m1 \in Seq(Nat) /\ Len(m1) = d /\ i \in 1 .. d
      BY <1>4, <1>5
    <3>1. m1[i] \in Nat
      BY ONLY <3>a
    <3> QED
      BY <1>10, <2>2, <3>1
  <2> QED
    BY <2>1, <2>2
<1>12. m2 \in Seq(Nat) /\ Len(m2) = d
    BY ONLY <1>t, <1>10, <1>11
<1>13. ASSUME f + c <= d PROVE Stored(o2, m2, Append(put, v), g)
  <2>z. Len(put) \in Nat /\ Len(g) \in Nat
    OBVIOUS
  <2>1. PICK z \in Nat, n \in Nat : z = Len(put) /\ n = Len(g)
    BY ONLY <2>z
  <2>2. n <= z /\ \A k \in 1 .. n : g[k] = put[k]
    BY <2>1 DEF Stored
  <2>3. PICK p1 : p1 = Append(put, v)
    OBVIOUS
  <2>4. Len(p1) = z + 1 /\ \A k \in 1 .. z : p1[k] = put[k]
    BY <2>1, <2>3, AppendProperties
  <2>5. r <= w
    BY <1>1 DEF Stored, Fits
  <2>b. x <= f + c
    BY ONLY <1>t, <1>9, <2>5
  <2>6. Fits(o2)
    BY ONLY <1>8, <1>9, <1>13, <2>b DEF Fits
  <2>7. PICK offset : Laid(m, put, n, r, w, offset)
    BY <1>1, <2>1 DEF Stored
  <2>8. ASSUME NEW i \in r + 1 .. w PROVE m2[i - s] = m[i]
    <3>a. i \in r + 1 .. w
      OBVIOUS
    <3>b. i - s \in Nat /\ 1 <= i - s /\ i - s <= f
      BY ONLY <1>t, <1>9, <3>a
    <3>1. PICK j \in Nat : j = i - s /\ 1 <= j /\ j <= f
      BY ONLY <3>b
    <3>3. j \in 1 .. d /\ j \notin f + 1 .. f + c
      BY ONLY <1>t, <1>13, <3>1
    <3>4. m1[i - s] = m[i]
      BY <1>4
    <3> QED
      BY ONLY <1>10, <3>1, <3>3, <3>4
  <2>9. ASSUME NEW i \in 1 .. c PROVE m2[(w - s) + i] = e[i]
    <3>a. i \in 1 .. c
      OBVIOUS
    <3>b. f + i \in 1 .. d /\ f + i \in f + 1 .. f + c /\ (f + i) - f = i
      BY ONLY <1>t, <1>13, <3>a
    <3>1. PICK j \in 1 .. d : j = f + i /\ j \in f + 1 .. f + c /\ j - f = i
      BY ONLY <3>b
    <3>2. m2[j] = e[i]
      BY ONLY <1>10, <3>1
    <3> QED
      BY <1>9, <3>1, <3>2
  <2>10. \E at1 : Laid(m2, p1, n, r - s, (w - s) + c, at1)
    <3>1. n <= Len(put) /\ s <= r
      BY <1>9, <2>1, <2>2
    <3>2. \A i \in 1 .. Len(Encoding(v)) : m2[(w - s) + i] = Encoding(v)[i]
      BY <1>2, <1>3, <2>9
    <3>3. \E at1 : Laid(m2, Append(put, v), n, r - s, (w - s) + Len(Encoding(v)), at1)
      BY <2>7, <2>8, <3>1, <3>2, LaidMore
    <3> QED
      BY <1>2, <1>3, <2>3, <3>3
  <2>11. \E at1 : Laid(m2, p1, Len(g), o2.read, o2.write, at1)
    BY <1>8, <1>9, <2>1, <2>10
  <2>12. Len(g) <= Len(p1) /\ \A k \in 1 .. Len(g) : g[k] = p1[k]
    <3>1. n <= z + 1
      BY <2>2
    <3>2. \A k \in 1 .. n : k \in 1 .. z
      BY <2>2
    <3> QED
      BY <2>1, <2>2, <2>4, <3>1, <3>2
  <2> QED
    BY <2>3, <2>6, <2>11, <2>12 DEF Stored
<1> QED
  <2>1. o.capacity <= o2.capacity /\ Len(m2) = o2.capacity
    BY <1>4, <1>5, <1>8, <1>12
  <2>2. ~ (o1.write + Len(Encoding(v)) > o1.capacity) => f + c <= d
    <3>1. o1.write + Len(Encoding(v)) = f + c /\ o1.capacity = d
      BY <1>2, <1>3, <1>5
    <3> QED
      BY ONLY <3>1, <1>t
  <2> QED
    BY <1>8, <1>12, <1>13, <2>1, <2>2

LEMMA ReadKeeps ==
    ASSUME BufferInv, NEW b \in Buffers, InUse(b), Len(b_got[b]) < Len(b_put[b])
    PROVE  \E e, v : /\ groupsFrom(b) = e /\ Len(e) \in Nat /\ v \in Values /\ unzigzag(shifted(e)) = v
                     /\ Stored([b_obj[b] EXCEPT !.read = @ + Len(e)], b_mem[b], b_put[b], Append(b_got[b], v))
<1>1. PICK o \in Obj, m \in Seq(Nat), put \in Seq(Values), g \in Seq(Values) :
          o = b_obj[b] /\ m = b_mem[b] /\ put = b_put[b] /\ g = b_got[b]
    BY DEF BufferInv, BufTypes
<1>2. Stored(o, m, put, g) /\ Len(m) = o.capacity
    BY <1>1 DEF BufferInv, AllStored, MemoryKept
<1>3. PICK z \in Nat, n \in Nat : z = Len(put) /\ n = Len(g) /\ n < z /\ n + 1 \in 1 .. z
    BY <1>1
<1>4. PICK v \in Values : v = put[n + 1]
    BY <1>3
<1>5. PICK e \in Seq(Nat) : e = Encoding(v) /\ OneNumber(e) /\ unzigzag(shifted(e)) = v
    BY Codec, LaidTyped
<1>6. PICK c \in Nat : c = Len(e)
    BY <1>5
<1>7. PICK d \in Nat, t \in Nat, w \in Nat, r \in Nat :
          d = o.capacity /\ t = o.tail /\ w = o.write /\ r = o.read
    BY DEF Obj
<1>8. r <= w /\ w <= d /\ w <= t /\ \A k \in 1 .. n : g[k] = put[k]
    BY <1>2, <1>3, <1>7 DEF Stored, Fits
<1>9. PICK offset : Laid(m, put, n, r, w, offset)
    BY <1>2, <1>3, <1>7 DEF Stored
<1>10. /\ Laid(m, put, n + 1, r + Len(Encoding(put[n + 1])), w, offset)
       /\ r + Len(Encoding(put[n + 1])) <= w
       /\ \A i \in 1 .. Len(Encoding(put[n + 1])) : m[r + i] = Encoding(put[n + 1])[i]
  <2>1. n < Len(put)
    BY <1>3
  <2>2. put \in Seq(Values) /\ n \in Nat /\ r \in Nat /\ w \in Nat
    BY <1>1, <1>3, <1>7
  <2> QED
    BY ONLY <1>9, <2>1, <2>2, LaidNext
<1>11. Laid(m, put, n + 1, r + c, w, offset) /\ r + c <= w /\ \A i \in 1 .. c : m[r + i] = e[i]
    BY <1>4, <1>5, <1>6, <1>10
<1>12. groupsFrom(b) = e
  <2>1. r + Len(e) <= t /\ r + Len(e) <= Len(m)
    <3>1. r + Len(e) = r + c /\ Len(m) = d
      BY <1>2, <1>6, <1>7
    <3>2. r \in Nat /\ c \in Nat /\ d \in Nat /\ t \in Nat /\ w \in Nat
      BY <1>6, <1>7
    <3>3. r + c <= t /\ r + c <= d
      BY ONLY <1>8, <1>11, <3>2
    <3> QED
      BY ONLY <3>1, <3>3
  <2>2. b_mem[b] = m /\ b_obj[b].read = r /\ b_obj[b].tail = t
    BY <1>1, <1>7
  <2>3. \A i \in 1 .. Len(e) : m[r + i] = e[i]
    BY <1>6, <1>11
  <2> QED
    BY <1>5, <2>1, <2>2, <2>3, Found
<1>13. PICK o1 : o1 = [o EXCEPT !.read = @ + c]
    OBVIOUS
<1>14. o1.capacity = d /\ o1.tail = t /\ o1.write = w /\ o1.read = r + c
    BY <1>7, <1>13 DEF Obj
<1>15. Fits(o1)
    BY <1>8, <1>11, <1>14 DEF Fits
<1>16. PICK g1 : g1 = Append(g, v)
    OBVIOUS
<1>17. Len(g1) = n + 1 /\ g1[n + 1] = v /\ \A k \in 1 .. n : g1[k] = g[k]
    BY <1>3, <1>16, AppendProperties
<1>18. \A k \in 1 .. n + 1 : g1[k] = put[k]
  <2> TAKE k \in 1 .. n + 1
  <2>1. k \in 1 .. n \/ k = n + 1
    BY <1>3
  <2> QED
    BY <1>4, <1>8, <1>17, <2>1
<1>19. Stored(o1, m, put, g1)
  <2>1. Len(g1) <= Len(put) /\ \A k \in 1 .. Len(g1) : g1[k] = put[k]
    BY <1>3, <1>17, <1>18
  <2>2. Laid(m, put, Len(g1), o1.read, o1.write, offset)
    BY <1>11, <1>14, <1>17
  <2> QED
    BY <1>15, <2>1, <2>2 DEF Stored
<1>20. Stored([b_obj[b] EXCEPT !.read = @ + Len(e)], b_mem[b], b_put[b], Append(b_got[b], v))
    BY <1>1, <1>6, <1>13, <1>16, <1>19
<1> QED
    BY <1>5, <1>6, <1>12, <1>20

LEMMA FreedKeeps ==
    ASSUME BufferInv, NEW S \in SUBSET Buffers, freed(S), b_smashed' = b_smashed,
           b_refs' \in [Buffers -> Nat], b_holds' \in [Buffers -> Nat],
           \A c \in Buffers : b_refs'[c] <= b_refs[c] /\ b_holds'[c] <= b_holds[c] /\ b_holds'[c] <= b_refs'[c]
    PROVE  /\ b_obj' \in [Buffers -> Obj] /\ b_mem' \in [Buffers -> Seq(Nat)]
           /\ b_put' \in [Buffers -> Seq(Values)] /\ b_got' \in [Buffers -> Seq(Values)]
           /\ MemoryKept' /\ AllStored'
<1>1. NoBuffer \in Obj /\ NoBuffer.capacity = 0
    BY DEF NoBuffer, Obj
<1>2. <<>> \in Seq(Nat) /\ <<>> \in Seq(Values) /\ Len(<<>>) = 0
    OBVIOUS
<1>3. \A c \in Buffers : b_obj[c] \in Obj /\ b_mem[c] \in Seq(Nat) /\ b_put[c] \in Seq(Values) /\ b_got[c] \in Seq(Values)
    BY DEF BufferInv, BufTypes
<1>4. \A c \in Buffers : b_refs[c] \in Nat /\ b_holds[c] \in Nat /\ b_refs'[c] \in Nat /\ b_holds'[c] \in Nat
    BY DEF BufferInv, BufTypes
<1>5. PICK gone : gone = {c \in S : b_refs'[c] = 0}
    OBVIOUS
<1>6. PICK left : left = {c \in S : b_holds'[c] = 0}
    OBVIOUS
<1>7. /\ b_obj' = [c \in Buffers |-> IF c \in gone THEN NoBuffer ELSE b_obj[c]]
      /\ b_mem' = [c \in Buffers |-> IF c \in gone THEN <<>> ELSE b_mem[c]]
      /\ b_put' = [c \in Buffers |-> IF c \in left THEN <<>> ELSE b_put[c]]
      /\ b_got' = [c \in Buffers |-> IF c \in left THEN <<>> ELSE b_got[c]]
    BY <1>5, <1>6 DEF freed
<1>8. b_obj' \in [Buffers -> Obj] /\ b_mem' \in [Buffers -> Seq(Nat)]
    BY <1>1, <1>2, <1>3, <1>7
<1>9. b_put' \in [Buffers -> Seq(Values)] /\ b_got' \in [Buffers -> Seq(Values)]
    BY <1>2, <1>3, <1>7
<1>10. ASSUME NEW c \in Buffers
       PROVE  Len(b_mem'[c]) = b_obj'[c].capacity /\ (b_refs'[c] > 0 => b_obj'[c].capacity > 0)
  <2>1. CASE c \in gone
    <3>1. b_obj'[c] = NoBuffer /\ b_mem'[c] = <<>> /\ b_refs'[c] = 0
      BY <1>5, <1>7, <2>1
    <3> QED
      BY <1>1, <1>2, <3>1
  <2>2. CASE c \notin gone
    <3>1. b_obj'[c] = b_obj[c] /\ b_mem'[c] = b_mem[c]
      BY <1>7, <2>2
    <3>2. b_refs'[c] > 0 => b_refs[c] > 0
      BY <1>4
    <3>3. Len(b_mem[c]) = b_obj[c].capacity /\ (b_refs[c] > 0 => b_obj[c].capacity > 0)
      BY DEF BufferInv, MemoryKept
    <3> QED
      BY <3>1, <3>2, <3>3
  <2> QED
    BY <2>1, <2>2
<1>11. MemoryKept'
    BY <1>10 DEF MemoryKept
<1>12. ASSUME NEW c \in Buffers, b_holds'[c] > 0, ~ b_smashed'
       PROVE  Stored(b_obj'[c], b_mem'[c], b_put'[c], b_got'[c])
  <2>1. b_refs'[c] # 0 /\ b_holds'[c] # 0 /\ b_holds[c] > 0
    BY <1>4, <1>12
  <2>2. c \notin gone /\ c \notin left
    BY <1>5, <1>6, <2>1
  <2>3. b_obj'[c] = b_obj[c] /\ b_mem'[c] = b_mem[c] /\ b_put'[c] = b_put[c] /\ b_got'[c] = b_got[c]
    BY <1>7, <2>2
  <2>4. InUse(c)
    BY <1>12, <2>1 DEF InUse
  <2>5. Stored(b_obj[c], b_mem[c], b_put[c], b_got[c])
    BY <2>4 DEF BufferInv, AllStored
  <2> QED
    BY <2>3, <2>5
<1>13. AllStored'
    BY <1>12 DEF AllStored, InUse
<1> QED
    BY <1>8, <1>9, <1>11, <1>13

LEMMA BufferInvInit == BufferInit => BufferInv
<1> SUFFICES ASSUME BufferInit PROVE BufferInv
    OBVIOUS
<1>1. NoBuffer \in Obj /\ NoBuffer.capacity = 0
    BY DEF NoBuffer, Obj
<1>2. <<>> \in Seq(Nat) /\ <<>> \in Seq(Values) /\ <<>> \in Seq(Buffers) /\ Len(<<>>) = 0
    OBVIOUS
<1>3. BufTypes
    BY <1>1, <1>2 DEF BufTypes, BufferInit, Queues
<1>4. MemoryKept
    BY <1>1, <1>2 DEF MemoryKept, BufferInit
<1>5. \A i \in Exps : Len(b_ques[i]) = 0
    BY <1>2 DEF BufferInit
<1>6. \A b \in Buffers : ~ InPool(b_ques, b)
    BY <1>5 DEF InPool
<1>7. OnceEach(b_ques)
    BY <1>5 DEF OnceEach
<1>8. Owners
    BY <1>6, <1>7 DEF Owners, BufferInit
<1>9. AllStored
    BY DEF AllStored, InUse, BufferInit
<1> QED
    BY <1>3, <1>4, <1>8, <1>9 DEF BufferInv

\* Whoever holds a buffer holds all its references.
LEMMA HeldByUsers ==
    ASSUME BufferInv, NEW b \in Buffers, b_holds[b] > 0
    PROVE  ~ InPool(b_ques, b) /\ b_refs[b] = b_holds[b]
<1>1. b_holds[b] \in Nat
    BY DEF BufferInv, BufTypes
<1> QED
    BY <1>1 DEF BufferInv, Owners

LEMMA WriteStep ==
    ASSUME BufferInv, NEW b \in Buffers, NEW v \in Values, writeVarint(b, v)
    PROVE  BufferInv'
<1>1. PICK o \in Obj, m \in Seq(Nat), put \in Seq(Values), g \in Seq(Values) :
          o = b_obj[b] /\ m = b_mem[b] /\ put = b_put[b] /\ g = b_got[b]
    BY DEF BufferInv, BufTypes
<1>2. InUse(b)
    BY DEF writeVarint
<1>3. Stored(o, m, put, g) /\ Len(m) = o.capacity
    BY <1>1, <1>2 DEF BufferInv, AllStored, MemoryKept
<1>4. PICK e : e = Encoding(v) /\ Len(e) \in Nat
    BY LaidTyped
<1>5. PICK R : R = reserveBuffer(o, m, Len(e))
    OBVIOUS
<1>6. PICK o1, m1 : o1 = R.obj /\ m1 = R.mem
    OBVIOUS
<1>7. Fits(o)
    BY <1>3 DEF Stored
<1>8. PICK s \in Nat : Reserved(o, m, Len(e), o1, m1, s)
    BY <1>3, <1>4, <1>5, <1>6, <1>7, Reserves
<1>9. PICK o2 : o2 = [o1 EXCEPT !.write = o1.write + Len(e)]
    OBVIOUS
<1>10. PICK m2 : m2 = [i \in 1 .. o1.capacity |->
                          IF i \in o1.write + 1 .. o1.write + Len(e) THEN e[i - o1.write] ELSE m1[i]]
    OBVIOUS
<1>11. /\ o2 \in Obj /\ m2 \in Seq(Nat) /\ Len(m2) = o2.capacity /\ o.capacity <= o2.capacity
       /\ ~ (o1.write + Len(e) > o1.capacity) => Stored(o2, m2, Append(put, v), g)
  <2>1. Reserved(o, m, Len(Encoding(v)), o1, m1, s)
    BY <1>4, <1>8
  <2>2. Wrote(o1, m1, Encoding(v), o2, m2)
    BY <1>4, <1>9, <1>10 DEF Wrote
  <2>4. o \in Obj /\ m \in Seq(Nat) /\ put \in Seq(Values) /\ g \in Seq(Values) /\ v \in Values /\ s \in Nat
    BY <1>1, <1>8
  <2>5. /\ o2 \in Obj /\ m2 \in Seq(Nat) /\ Len(m2) = o2.capacity /\ o.capacity <= o2.capacity
        /\ ~ (o1.write + Len(Encoding(v)) > o1.capacity) => Stored(o2, m2, Append(put, v), g)
    BY ONLY <1>3, <2>1, <2>2, <2>4, WriteKeeps
  <2> QED
    BY ONLY <1>4, <2>5
<1>12. /\ b_obj' = [b_obj EXCEPT ![b] = o2] /\ b_mem' = [b_mem EXCEPT ![b] = m2]
       /\ b_put' = [b_put EXCEPT ![b] = Append(put, v)]
       /\ b_smashed' = (o1.write + Len(e) > o1.capacity)
       /\ UNCHANGED <<b_refs, b_ques, b_holds, b_got>>
    BY <1>1, <1>4, <1>5, <1>6, <1>9, <1>10 DEF writeVarint, Encoding
<1>13. b_smashed' \in BOOLEAN /\ (~ b_smashed' => ~ (o1.write + Len(e) > o1.capacity))
  <2> DEFINE full == o1.write + Len(e) > o1.capacity
  <2>1. full \in BOOLEAN
    OBVIOUS
  <2>2. b_smashed' = full
    BY <1>12
  <2> HIDE DEF full
  <2>3. b_smashed' \in BOOLEAN /\ (~ b_smashed' => ~ full)
    BY ONLY <2>1, <2>2, Zenon
  <2> QED
    BY <2>3 DEF full
<1>14. Append(put, v) \in Seq(Values)
    BY <1>1, AppendProperties
<1>15. BufTypes'
  <2>1. b_obj' \in [Buffers -> Obj] /\ b_mem' \in [Buffers -> Seq(Nat)] /\ b_put' \in [Buffers -> Seq(Values)]
    BY <1>11, <1>12, <1>14 DEF BufferInv, BufTypes
  <2> QED
    BY <1>12, <1>13, <2>1 DEF BufferInv, BufTypes
<1>16. \A c \in Buffers : c # b => /\ b_obj'[c] = b_obj[c] /\ b_mem'[c] = b_mem[c]
                                   /\ b_put'[c] = b_put[c] /\ b_got'[c] = b_got[c]
    BY <1>12 DEF BufferInv, BufTypes
<1>17. b_obj'[b] = o2 /\ b_mem'[b] = m2 /\ b_put'[b] = Append(put, v) /\ b_got'[b] = g
    BY <1>1, <1>12 DEF BufferInv, BufTypes
<1>18. MemoryKept'
  <2> SUFFICES ASSUME NEW c \in Buffers
               PROVE  Len(b_mem'[c]) = b_obj'[c].capacity /\ (b_refs'[c] > 0 => b_obj'[c].capacity > 0)
    BY DEF MemoryKept
  <2>1. Len(b_mem[c]) = b_obj[c].capacity /\ (b_refs[c] > 0 => b_obj[c].capacity > 0) /\ b_refs'[c] = b_refs[c]
    BY <1>12 DEF BufferInv, MemoryKept
  <2>2. CASE c = b
    <3>1. o.capacity \in Nat /\ o2.capacity \in Nat
      BY <1>1, <1>11 DEF Obj
    <3>2. o.capacity > 0 => o2.capacity > 0
      BY ONLY <1>11, <3>1
    <3> QED
      BY <1>1, <1>11, <1>17, <2>1, <2>2, <3>2
  <2>3. CASE c # b
    BY <1>16, <2>1, <2>3
  <2> QED
    BY <2>2, <2>3
<1>19. Owners'
    BY <1>12 DEF BufferInv, Owners
<1>20. AllStored'
  <2> SUFFICES ASSUME NEW c \in Buffers, b_holds'[c] > 0, ~ b_smashed'
               PROVE  Stored(b_obj'[c], b_mem'[c], b_put'[c], b_got'[c])
    BY DEF AllStored, InUse
  <2>1. CASE c = b
    BY <1>11, <1>13, <1>17, <2>1
  <2>2. CASE c # b
    <3>1. InUse(c)
      BY <1>2, <1>12 DEF InUse
    <3>2. Stored(b_obj[c], b_mem[c], b_put[c], b_got[c])
      BY <3>1 DEF BufferInv, AllStored
    <3> QED
      BY <1>16, <2>2, <3>2
  <2> QED
    BY <2>1, <2>2
<1> QED
    BY <1>15, <1>18, <1>19, <1>20 DEF BufferInv

LEMMA ReadStep ==
    ASSUME BufferInv, NEW b \in Buffers, readVarint(b)
    PROVE  BufferInv'
<1>1. InUse(b) /\ Len(b_got[b]) < Len(b_put[b])
    BY DEF readVarint
<1>2. PICK e, v : /\ groupsFrom(b) = e /\ Len(e) \in Nat /\ v \in Values /\ unzigzag(shifted(e)) = v
                  /\ Stored([b_obj[b] EXCEPT !.read = @ + Len(e)], b_mem[b], b_put[b], Append(b_got[b], v))
    BY <1>1, ReadKeeps
<1>3. PICK o1, g1 : o1 = [b_obj[b] EXCEPT !.read = @ + Len(e)] /\ g1 = Append(b_got[b], v)
    OBVIOUS
<1>4. /\ b_obj' = [b_obj EXCEPT ![b].read = @ + Len(e)]
      /\ b_got' = [b_got EXCEPT ![b] = Append(@, v)]
      /\ UNCHANGED <<b_mem, b_refs, b_ques, b_holds, b_put, b_smashed>>
    BY <1>2 DEF readVarint
<1>5. b_obj[b] \in Obj /\ b_got[b] \in Seq(Values)
    BY DEF BufferInv, BufTypes
<1>6. o1 \in Obj /\ o1.capacity = b_obj[b].capacity
  <2>1. PICK o \in Obj, c \in Nat : o = b_obj[b] /\ c = Len(e)
    BY <1>2, <1>5
  <2>2. PICK d \in Nat, t \in Nat, w \in Nat, r \in Nat : o = [capacity |-> d, tail |-> t, write |-> w, read |-> r]
    BY DEF Obj
  <2>3. o1 = [capacity |-> d, tail |-> t, write |-> w, read |-> r + c]
    BY <1>3, <2>1, <2>2
  <2>4. r + c \in Nat
    OBVIOUS
  <2> QED
    BY <2>1, <2>2, <2>3, <2>4 DEF Obj
<1>7. g1 \in Seq(Values)
    BY <1>2, <1>3, <1>5, AppendProperties
<1>8. b_obj' = [b_obj EXCEPT ![b] = o1] /\ b_got' = [b_got EXCEPT ![b] = g1]
    BY <1>3, <1>4
<1>9. BufTypes'
  <2>1. BufTypes
    BY DEF BufferInv
  <2>2. b_obj' \in [Buffers -> Obj] /\ b_got' \in [Buffers -> Seq(Values)]
    BY <1>6, <1>7, <1>8, <2>1 DEF BufTypes
  <2> QED
    BY <1>4, <2>1, <2>2 DEF BufTypes
<1>10. \A c \in Buffers : c # b => b_obj'[c] = b_obj[c] /\ b_got'[c] = b_got[c]
    BY <1>8 DEF BufferInv, BufTypes
<1>11. b_obj'[b] = o1 /\ b_got'[b] = g1
    BY <1>8 DEF BufferInv, BufTypes
<1>12. MemoryKept'
  <2> SUFFICES ASSUME NEW c \in Buffers
               PROVE  Len(b_mem'[c]) = b_obj'[c].capacity /\ (b_refs'[c] > 0 => b_obj'[c].capacity > 0)
    BY DEF MemoryKept
  <2>1. Len(b_mem[c]) = b_obj[c].capacity /\ (b_refs[c] > 0 => b_obj[c].capacity > 0)
    BY DEF BufferInv, MemoryKept
  <2>2. b_obj'[c].capacity = b_obj[c].capacity
    BY <1>6, <1>10, <1>11
  <2> QED
    BY <1>4, <2>1, <2>2
<1>13. Owners'
    BY <1>4 DEF BufferInv, Owners
<1>14. AllStored'
  <2> SUFFICES ASSUME NEW c \in Buffers, b_holds'[c] > 0, ~ b_smashed'
               PROVE  Stored(b_obj'[c], b_mem'[c], b_put'[c], b_got'[c])
    BY DEF AllStored, InUse
  <2>1. CASE c = b
    BY <1>2, <1>3, <1>4, <1>11, <2>1
  <2>2. CASE c # b
    <3>1. InUse(c)
      BY <1>4 DEF InUse
    <3>2. Stored(b_obj[c], b_mem[c], b_put[c], b_got[c])
      BY <3>1 DEF BufferInv, AllStored
    <3> QED
      BY <1>4, <1>10, <2>2, <3>2
  <2> QED
    BY <2>1, <2>2
<1> QED
    BY <1>9, <1>12, <1>13, <1>14 DEF BufferInv

LEMMA RetainBufStep ==
    ASSUME BufferInv, NEW b \in Buffers, retain(b)
    PROVE  BufferInv'
<1>1. b_holds[b] > 0 /\ InUse(b)
    BY DEF retain, InUse
<1>2. ~ InPool(b_ques, b) /\ b_refs[b] = b_holds[b]
    BY <1>1, HeldByUsers
<1>3. /\ b_refs' = [b_refs EXCEPT ![b] = @ + 1] /\ b_holds' = [b_holds EXCEPT ![b] = @ + 1]
      /\ UNCHANGED <<b_obj, b_mem, b_ques, b_put, b_got, b_smashed>>
    BY DEF retain
<1>4. b_refs[b] \in Nat /\ b_holds[b] \in Nat
    BY DEF BufferInv, BufTypes
<1>5. b_refs' \in [Buffers -> Nat] /\ b_holds' \in [Buffers -> Nat]
    BY <1>3, <1>4 DEF BufferInv, BufTypes
<1>6. BufTypes'
    BY <1>3, <1>5 DEF BufferInv, BufTypes
<1>7. b_refs'[b] = b_refs[b] + 1 /\ b_holds'[b] = b_holds[b] + 1
    BY <1>3 DEF BufferInv, BufTypes
<1>8. \A c \in Buffers : c # b => b_refs'[c] = b_refs[c] /\ b_holds'[c] = b_holds[c]
    BY <1>3 DEF BufferInv, BufTypes
<1>9. \A c \in Buffers : (b_refs'[c] > 0 => b_refs[c] > 0) /\ (b_holds'[c] > 0 => b_holds[c] > 0)
    BY <1>1, <1>2, <1>8
<1>10. MemoryKept'
    BY <1>3, <1>9 DEF BufferInv, MemoryKept
<1>11. Owners'
    BY <1>2, <1>3, <1>7, <1>8 DEF BufferInv, Owners
<1>12. AllStored'
    BY <1>3, <1>9 DEF BufferInv, AllStored, InUse
<1> QED
    BY <1>6, <1>10, <1>11, <1>12 DEF BufferInv

LEMMA CreateBufStep ==
    ASSUME BufferInv, NEW b \in Buffers, NEW size \in Sizes, createBuffer(b, size)
    PROVE  BufferInv'
<1>1. PICK z \in Nat : z = size
    BY BufferAssumption
<1>2. PICK class \in Nat : class = indexFor(size) /\ class >= MinExp
    BY <1>1, IndexFor
<1>3. PICK new \in Nat : new = bit[class] /\ new > 0
    BY <1>1, <1>2, IndexFor
<1> DEFINE pooled == class < QueueCnt /\ b_ques[class] # <<>>
<1>4. /\ ~ b_smashed /\ ~ b_smashed' /\ b_smashed' = b_smashed
      /\ IF pooled THEN /\ b = Head(b_ques[class]) /\ b_ques' = [b_ques EXCEPT ![class] = Tail(@)]
                        /\ UNCHANGED <<b_mem, b_refs>>
                   ELSE /\ b_refs[b] = 0 /\ b_refs' = [b_refs EXCEPT ![b] = 1]
                        /\ b_mem' = [b_mem EXCEPT ![b] = [i \in 1 .. new |-> 0]]
                        /\ UNCHANGED b_ques
      /\ b_obj' = [b_obj EXCEPT ![b] =
              [capacity |-> IF pooled THEN @.capacity ELSE new, tail |-> z, write |-> 0, read |-> 0]]
      /\ b_holds' = [b_holds EXCEPT ![b] = 1]
      /\ b_put' = [b_put EXCEPT ![b] = <<>>] /\ b_got' = [b_got EXCEPT ![b] = <<>>]
    BY <1>1, <1>2, <1>3 DEF createBuffer
<1>5. PICK cap \in Nat : cap = (IF pooled THEN b_obj[b].capacity ELSE new)
    BY DEF BufferInv, BufTypes, Obj
<1>6. PICK o : o = [capacity |-> cap, tail |-> z, write |-> 0, read |-> 0]
    OBVIOUS
<1>7. o \in Obj /\ o.capacity = cap /\ o.tail = z /\ o.write = 0 /\ o.read = 0
    BY <1>1, <1>5, <1>6 DEF Obj
<1>8. b_obj' = [b_obj EXCEPT ![b] = o]
    BY <1>4, <1>5, <1>6
<1> HIDE DEF pooled
<1>9. <<>> \in Seq(Values)
    OBVIOUS
<1>10. /\ b_obj' \in [Buffers -> Obj] /\ b_holds' \in [Buffers -> Nat]
       /\ b_put' \in [Buffers -> Seq(Values)] /\ b_got' \in [Buffers -> Seq(Values)]
    BY <1>4, <1>7, <1>8, <1>9 DEF BufferInv, BufTypes
<1>11. b_obj'[b] = o /\ b_holds'[b] = 1 /\ b_put'[b] = <<>> /\ b_got'[b] = <<>>
    BY <1>4, <1>8 DEF BufferInv, BufTypes
<1>12. \A c \in Buffers : c # b => /\ b_obj'[c] = b_obj[c] /\ b_holds'[c] = b_holds[c]
                                   /\ b_put'[c] = b_put[c] /\ b_got'[c] = b_got[c]
    BY <1>4, <1>8 DEF BufferInv, BufTypes
<1>13. /\ b_mem' \in [Buffers -> Seq(Nat)] /\ b_refs' \in [Buffers -> Nat] /\ b_ques' \in Queues
       /\ Owners' /\ Len(b_mem'[b]) = cap /\ cap > 0
       /\ \A c \in Buffers : c # b => b_mem'[c] = b_mem[c] /\ b_refs'[c] = b_refs[c]
  <2>1. CASE pooled
    <3>1. class \in Exps
      BY <1>2, <2>1, BufferSizes DEF Exps, pooled
    <3>2. b = Head(b_ques[class]) /\ b_ques' = [b_ques EXCEPT ![class] = Tail(@)] /\ b_mem' = b_mem /\ b_refs' = b_refs
      BY <1>4, <2>1
    <3>3. b_ques \in Queues /\ OnceEach(b_ques) /\ b_ques[class] # <<>>
      BY <2>1 DEF BufferInv, BufTypes, Owners, pooled
    <3>4. /\ b_ques' \in Queues /\ OnceEach(b_ques') /\ InPool(b_ques, b) /\ ~ InPool(b_ques', b)
          /\ \A c \in Buffers : c # b => (InPool(b_ques', c) <=> InPool(b_ques, c))
      <4>1. PICK q, q1 : q = b_ques /\ q1 = b_ques'
        OBVIOUS
      <4>2. q \in Queues /\ OnceEach(q) /\ class \in Exps /\ Takes(q, class, q1)
        BY <3>1, <3>2, <3>3, <4>1 DEF Takes
      <4>3. /\ q1 \in Queues /\ OnceEach(q1) /\ Head(q[class]) \in Buffers
            /\ InPool(q, Head(q[class])) /\ ~ InPool(q1, Head(q[class]))
            /\ \A c \in Buffers : c # Head(q[class]) => (InPool(q1, c) <=> InPool(q, c))
        BY ONLY <4>2, TakenOut
      <4> QED
        BY <3>2, <4>1, <4>3
    <3>5. b_refs[b] = 1 /\ b_holds[b] = 0
      BY <3>4 DEF BufferInv, Owners
    <3>6. Owners'
      BY <1>11, <1>12, <3>2, <3>4, <3>5 DEF BufferInv, Owners
    <3>7. Len(b_mem[b]) = b_obj[b].capacity /\ b_obj[b].capacity > 0
      BY <3>5 DEF BufferInv, MemoryKept
    <3>8. cap = b_obj[b].capacity
      BY <1>5, <2>1
    <3> QED
      BY <3>2, <3>4, <3>6, <3>7, <3>8 DEF BufferInv, BufTypes
  <2>2. CASE ~ pooled
    <3>1. PICK m : m = [i \in 1 .. new |-> 0]
      OBVIOUS
    <3>2. m \in Seq(Nat) /\ Len(m) = new
      BY <1>3, <3>1
    <3>3. b_refs[b] = 0 /\ b_refs' = [b_refs EXCEPT ![b] = 1] /\ b_mem' = [b_mem EXCEPT ![b] = m] /\ b_ques' = b_ques
      BY <1>4, <2>2, <3>1
    <3>4. /\ b_mem' \in [Buffers -> Seq(Nat)] /\ b_refs' \in [Buffers -> Nat] /\ b_ques' \in Queues
          /\ b_mem'[b] = m /\ b_refs'[b] = 1
          /\ \A c \in Buffers : c # b => b_mem'[c] = b_mem[c] /\ b_refs'[c] = b_refs[c]
      BY <3>2, <3>3 DEF BufferInv, BufTypes
    <3>5. ~ InPool(b_ques, b)
      BY <3>3 DEF BufferInv, Owners
    <3>6. Owners'
      BY <1>11, <1>12, <3>3, <3>4, <3>5 DEF BufferInv, Owners
    <3>7. cap = new
      BY <1>5, <2>2
    <3> QED
      BY <1>3, <3>2, <3>4, <3>6, <3>7
  <2> QED
    BY <2>1, <2>2
<1>14. BufTypes'
    BY <1>4, <1>10, <1>13 DEF BufferInv, BufTypes
<1>15. MemoryKept'
  <2> SUFFICES ASSUME NEW c \in Buffers
               PROVE  Len(b_mem'[c]) = b_obj'[c].capacity /\ (b_refs'[c] > 0 => b_obj'[c].capacity > 0)
    BY DEF MemoryKept
  <2>1. CASE c = b
    BY <1>7, <1>11, <1>13, <2>1
  <2>2. CASE c # b
    BY <1>12, <1>13, <2>2 DEF BufferInv, MemoryKept
  <2> QED
    BY <2>1, <2>2
<1>16. AllStored'
  <2> SUFFICES ASSUME NEW c \in Buffers, b_holds'[c] > 0, ~ b_smashed'
               PROVE  Stored(b_obj'[c], b_mem'[c], b_put'[c], b_got'[c])
    BY DEF AllStored, InUse
  <2>1. CASE c = b
    <3>1. Fits(o)
      BY <1>7 DEF Fits
    <3>2. \E offset : Laid(b_mem'[b], <<>>, 0, 0, 0, offset)
      BY LaidNothing
    <3>3. Len(<<>>) = 0
      OBVIOUS
    <3>4. Stored(o, b_mem'[b], <<>>, <<>>)
      BY <1>7, <3>1, <3>2, <3>3 DEF Stored
    <3> QED
      BY <1>11, <2>1, <3>4
  <2>2. CASE c # b
    <3>1. InUse(c)
      BY <1>4, <1>12, <2>2 DEF InUse
    <3>2. Stored(b_obj[c], b_mem[c], b_put[c], b_got[c])
      BY <3>1 DEF BufferInv, AllStored
    <3> QED
      BY <1>12, <1>13, <2>2, <3>2
  <2> QED
    BY <2>1, <2>2
<1> QED
    BY <1>13, <1>14, <1>15, <1>16 DEF BufferInv

LEMMA DestroyStep ==
    ASSUME BufferInv, NEW b \in Buffers, destroyBuffer(b)
    PROVE  BufferInv'
<1>1. InUse(b) /\ b_holds[b] > 0
    BY DEF destroyBuffer, InUse
<1>2. ~ InPool(b_ques, b) /\ b_refs[b] = b_holds[b]
    BY <1>1, HeldByUsers
<1>3. PICK r \in Nat : r = b_refs[b] /\ r = b_holds[b] /\ r > 0
    BY <1>1, <1>2 DEF BufferInv, BufTypes
<1>4. PICK c \in Nat : c = b_obj[b].capacity /\ c > 0
    BY <1>3 DEF BufferInv, BufTypes, MemoryKept, Obj
<1>5. PICK class \in Nat : class = indexOf(c) /\ class >= MinExp
    BY <1>4, IndexOf
<1> DEFINE pool == unshared(b) /\ class < QueueCnt /\ Len(b_ques[class]) < PoolSize
<1>6. /\ b_holds' = [b_holds EXCEPT ![b] = @ - 1]
      /\ IF pool THEN b_ques' = [b_ques EXCEPT ![class] = Append(@, b)] /\ UNCHANGED b_refs
                 ELSE b_refs' = [b_refs EXCEPT ![b] = @ - 1] /\ UNCHANGED b_ques
      /\ freed({b}) /\ b_smashed' = b_smashed
    BY <1>4, <1>5 DEF destroyBuffer
<1>7. /\ b_holds' \in [Buffers -> Nat] /\ b_holds'[b] = r - 1 /\ r - 1 \in Nat
      /\ \A d \in Buffers : d # b => b_holds'[d] = b_holds[d]
    BY <1>3, <1>6 DEF BufferInv, BufTypes
<1>8. /\ b_refs' \in [Buffers -> Nat] /\ b_ques' \in Queues /\ Owners'
      /\ \A d \in Buffers : d # b => b_refs'[d] = b_refs[d]
      /\ (b_refs'[b] = r \/ b_refs'[b] = r - 1)
  <2>1. CASE pool
    <3>1. class \in Exps
      BY <1>5, <2>1, BufferSizes DEF Exps
    <3>2. r = 1
      BY <1>3, <2>1 DEF unshared
    <3>3. b_ques \in Queues /\ OnceEach(b_ques)
      BY DEF BufferInv, BufTypes, Owners
    <3>4. b_ques' = [b_ques EXCEPT ![class] = Append(@, b)] /\ b_refs' = b_refs
      BY <1>6, <2>1
    <3>5. /\ b_ques' \in Queues /\ OnceEach(b_ques') /\ InPool(b_ques', b)
          /\ \A d \in Buffers : d # b => (InPool(b_ques', d) <=> InPool(b_ques, d))
      <4>1. PICK q, q1 : q = b_ques /\ q1 = b_ques'
        OBVIOUS
      <4>2. /\ q \in Queues /\ OnceEach(q) /\ class \in Exps /\ b \in Buffers /\ ~ InPool(q, b)
            /\ Puts(q, class, b, q1)
        BY <1>2, <3>1, <3>3, <3>4, <4>1 DEF Puts
      <4>3. /\ q1 \in Queues /\ OnceEach(q1) /\ InPool(q1, b)
            /\ \A d \in Buffers : d # b => (InPool(q1, d) <=> InPool(q, d))
        BY ONLY <4>2, PutIn
      <4> QED
        BY <4>1, <4>3
    <3>6. b_holds'[b] = 0 /\ b_refs'[b] = 1
      <4>1. b_holds'[b] = r - 1 /\ b_refs'[b] = r
        BY <1>3, <1>7, <3>4
      <4> QED
        BY ONLY <3>2, <4>1
    <3>7. Owners'
      BY <1>7, <3>4, <3>5, <3>6 DEF BufferInv, Owners
    <3> QED
      BY <1>3, <3>4, <3>5, <3>7 DEF BufferInv, BufTypes
  <2>2. CASE ~ pool
    <3>1. b_refs' = [b_refs EXCEPT ![b] = @ - 1] /\ b_ques' = b_ques
      BY <1>6, <2>2
    <3>2. /\ b_refs' \in [Buffers -> Nat] /\ b_refs'[b] = r - 1
          /\ \A d \in Buffers : d # b => b_refs'[d] = b_refs[d]
      BY <1>3, <1>7, <3>1 DEF BufferInv, BufTypes
    <3>3. Owners'
      BY <1>2, <1>7, <3>1, <3>2 DEF BufferInv, Owners
    <3> QED
      BY <3>1, <3>2, <3>3 DEF BufferInv, BufTypes
  <2> QED
    BY <2>1, <2>2
<1>9. \A d \in Buffers : b_refs'[d] <= b_refs[d] /\ b_holds'[d] <= b_holds[d] /\ b_holds'[d] <= b_refs'[d]
  <2> TAKE d \in Buffers
  <2>1. CASE d = b
    <3>1. /\ r \in Nat /\ b_refs[d] = r /\ b_holds[d] = r /\ b_holds'[d] = r - 1
          /\ (b_refs'[d] = r \/ b_refs'[d] = r - 1)
      BY <1>3, <1>7, <1>8, <2>1
    <3> QED
      BY ONLY <3>1
  <2>2. CASE d # b
    <3>1. b_refs'[d] = b_refs[d] /\ b_holds'[d] = b_holds[d] /\ b_refs[d] \in Nat /\ b_holds[d] \in Nat
      BY <1>7, <1>8, <2>2 DEF BufferInv, BufTypes
    <3>2. b_holds[d] <= b_refs[d]
      BY <3>1 DEF BufferInv, Owners
    <3> QED
      BY <3>1, <3>2
  <2> QED
    BY <2>1, <2>2
<1>10. /\ b_obj' \in [Buffers -> Obj] /\ b_mem' \in [Buffers -> Seq(Nat)]
       /\ b_put' \in [Buffers -> Seq(Values)] /\ b_got' \in [Buffers -> Seq(Values)]
       /\ MemoryKept' /\ AllStored'
  <2>1. {b} \in SUBSET Buffers
    OBVIOUS
  <2> QED
    BY <1>6, <1>7, <1>8, <1>9, <2>1, FreedKeeps
<1>11. BufTypes'
    BY <1>6, <1>7, <1>8, <1>10 DEF BufferInv, BufTypes
<1> QED
    BY <1>8, <1>10, <1>11 DEF BufferInv

LEMMA ClearBufStep ==
    ASSUME BufferInv, clearPool
    PROVE  BufferInv'
<1>1. /\ b_refs' = [b \in Buffers |-> b_refs[b] - Cardinality(Queued(b))]
      /\ b_ques' = [i \in Exps |-> <<>>] /\ b_holds' = b_holds /\ b_smashed' = b_smashed /\ freed(Buffers)
    BY DEF clearPool
<1>2. \A b \in Buffers : b_refs[b] - Cardinality(Queued(b)) = b_holds[b] /\ b_holds[b] \in Nat /\ b_holds[b] <= b_refs[b]
  <2> TAKE b \in Buffers
  <2>1. b_ques \in Queues /\ OnceEach(b_ques) /\ b_refs[b] \in Nat /\ b_holds[b] \in Nat
    BY DEF BufferInv, BufTypes, Owners
  <2>2. Cardinality(Queued(b)) = IF InPool(b_ques, b) THEN 1 ELSE 0
    BY <2>1, QueuedOnce
  <2>3. IF InPool(b_ques, b) THEN b_refs[b] = 1 /\ b_holds[b] = 0 ELSE b_refs[b] = b_holds[b]
    BY DEF BufferInv, Owners
  <2> QED
    BY <2>1, <2>2, <2>3
<1>3. b_refs' \in [Buffers -> Nat] /\ \A b \in Buffers : b_refs'[b] = b_holds[b]
    BY <1>1, <1>2
<1>4. b_holds' \in [Buffers -> Nat]
    BY <1>1 DEF BufferInv, BufTypes
<1>5. \A b \in Buffers : b_refs'[b] <= b_refs[b] /\ b_holds'[b] <= b_holds[b] /\ b_holds'[b] <= b_refs'[b]
    BY <1>1, <1>2, <1>3
<1>6. /\ b_obj' \in [Buffers -> Obj] /\ b_mem' \in [Buffers -> Seq(Nat)]
      /\ b_put' \in [Buffers -> Seq(Values)] /\ b_got' \in [Buffers -> Seq(Values)]
      /\ MemoryKept' /\ AllStored'
  <2>1. Buffers \in SUBSET Buffers
    OBVIOUS
  <2> QED
    BY <1>1, <1>3, <1>4, <1>5, <2>1, FreedKeeps
<1>7. <<>> \in Seq(Buffers) /\ Len(<<>>) = 0
    OBVIOUS
<1>8. b_ques' \in Queues /\ \A i \in Exps : Len(b_ques'[i]) = 0
    BY <1>1, <1>7 DEF Queues
<1>9. BufTypes'
    BY <1>1, <1>3, <1>4, <1>6, <1>8 DEF BufferInv, BufTypes
<1>10. \A b \in Buffers : ~ InPool(b_ques', b)
    BY <1>8 DEF InPool
<1>11. OnceEach(b_ques')
    BY <1>8 DEF OnceEach
<1>12. Owners'
    BY <1>1, <1>3, <1>10, <1>11 DEF Owners
<1> QED
    BY <1>6, <1>9, <1>12 DEF BufferInv

LEMMA BufferInvNext == BufferInv /\ [BufferNext]_bufferVars => BufferInv'
<1> SUFFICES ASSUME BufferInv, [BufferNext]_bufferVars PROVE BufferInv'
    OBVIOUS
<1>1. CASE BufferNext
    BY <1>1, CreateBufStep, WriteStep, ReadStep, RetainBufStep, DestroyStep, ClearBufStep DEF BufferNext
<1>2. CASE UNCHANGED bufferVars
    BY <1>2 DEF bufferVars, BufferInv, BufTypes, MemoryKept, Owners, AllStored, InUse
<1> QED
    BY <1>1, <1>2

LEMMA InvApart == BufferInv => BuffersApart
<1> SUFFICES ASSUME BufferInv PROVE BuffersApart
    OBVIOUS
<1>1. ASSUME NEW b \in Buffers, InUse(b) PROVE b_got[b] = SubSeq(b_put[b], 1, Len(b_got[b]))
  <2>1. PICK put \in Seq(Values), g \in Seq(Values) : put = b_put[b] /\ g = b_got[b]
    BY DEF BufferInv, BufTypes
  <2>2. Stored(b_obj[b], b_mem[b], put, g)
    BY <1>1, <2>1 DEF BufferInv, AllStored
  <2>3. PICK n \in Nat : n = Len(g)
    OBVIOUS
  <2>4. n <= Len(put) /\ \A k \in 1 .. n : g[k] = put[k]
    BY <2>2, <2>3 DEF Stored
  <2>5. PICK x : x = SubSeq(put, 1, n)
    OBVIOUS
  <2>6. x \in Seq(Values) /\ Len(x) = n /\ \A k \in 1 .. n : x[k] = put[k]
    BY <2>3, <2>4, <2>5
  <2>7. Len(x) = Len(g) /\ \A k \in 1 .. Len(x) : x[k] = g[k]
    BY <2>3, <2>4, <2>6
  <2>8. x \in Seq(Values) /\ g \in Seq(Values)
    BY <2>1, <2>6
  <2>9. x = g
    BY ONLY <2>7, <2>8, SeqEqual
  <2> QED
    BY <2>1, <2>3, <2>5, <2>9
<1>2. ValuesKept
    BY <1>1 DEF ValuesKept
<1>3. ASSUME NEW b \in Buffers
      PROVE  /\ b_refs[b] = b_holds[b] + Cardinality(Queued(b)) /\ Cardinality(Queued(b)) <= 1
             /\ (Queued(b) # {} => b_holds[b] = 0)
  <2>1. b_ques \in Queues /\ OnceEach(b_ques) /\ b_refs[b] \in Nat /\ b_holds[b] \in Nat
    BY DEF BufferInv, BufTypes, Owners
  <2>2. /\ Cardinality(Queued(b)) = IF InPool(b_ques, b) THEN 1 ELSE 0
        /\ Queued(b) # {} <=> InPool(b_ques, b)
    BY <2>1, QueuedOnce
  <2>3. IF InPool(b_ques, b) THEN b_refs[b] = 1 /\ b_holds[b] = 0 ELSE b_refs[b] = b_holds[b]
    BY DEF BufferInv, Owners
  <2> QED
    BY <2>1, <2>2, <2>3
<1>4. PooledUnshared
    BY <1>3 DEF PooledUnshared
<1> QED
    BY <1>2, <1>4 DEF BuffersApart

\* For any sizes, values and widths: a buffer's user reads back what was written, in order,
\* and a buffer in the pool has no user and is there once (kit/Buffer.cpp, kit/BufferPool.cpp).
THEOREM BuffersStayApart == BufferSpec => []BuffersApart
<1>1. BufferSpec => []BufferInv
    BY BufferInvInit, BufferInvNext, PTL DEF BufferSpec
<1> QED
    BY <1>1, InvApart, PTL
---------------------------------------------------------------------------------
(* lstring.c: chains of strings.                                             *)

\* The members of S are in the m chains of T, each in one place.
Filled(T, m, S) ==
    /\ T \in [1 .. m -> Seq(S)]
    /\ \A i, j \in 1 .. m : \A k \in 1 .. Len(T[i]), l \in 1 .. Len(T[j]) :
          T[i][k] = T[j][l] => i = j /\ k = l
    /\ \A o \in S : \E i \in 1 .. m : \E k \in 1 .. Len(T[i]) : T[i][k] = o

Inside(T, i, o) == \E k \in 1 .. Len(T[i]) : T[i][k] = o

LEMMA SeqOfMore ==
    ASSUME NEW S, NEW R, S \subseteq R, NEW s \in Seq(S)
    PROVE  s \in Seq(R)
<1>1. s \in [1 .. Len(s) -> R] /\ Len(s) \in Nat
    OBVIOUS
<1> QED
    BY <1>1

LEMMA FrontAt ==
    ASSUME NEW S, NEW s \in Seq(S), NEW o
    PROVE  /\ <<o>> \o s \in Seq(S \cup {o}) /\ Len(<<o>> \o s) = Len(s) + 1
           /\ (<<o>> \o s)[1] = o /\ \A k \in 1 .. Len(s) : (<<o>> \o s)[k + 1] = s[k]
<1>1. s \in Seq(S \cup {o}) /\ <<o>> \in Seq(S \cup {o}) /\ Len(<<o>>) = 1 /\ <<o>>[1] = o
  <2>1. s \in Seq(S \cup {o})
    BY SeqOfMore
  <2> QED
    BY <2>1
<1>2. Len(<<o>> \o s) = 1 + Len(s) /\ <<o>> \o s \in Seq(S \cup {o})
    BY <1>1, ConcatProperties
<1>3. \A i \in 1 .. 1 + Len(s) : (<<o>> \o s)[i] = IF i <= 1 THEN <<o>>[i] ELSE s[i - 1]
    BY <1>1, ConcatProperties
<1>4. Len(s) \in Nat
    OBVIOUS
<1> QED
    BY ONLY <1>1, <1>2, <1>3, <1>4

\* A string becomes the first of a chain.
Put(T, j, o) == [T EXCEPT ![j] = <<o>> \o @]

LEMMA PutFirst ==
    ASSUME NEW m \in Nat, NEW S, NEW T, Filled(T, m, S), NEW o, o \notin S, NEW j \in 1 .. m,
           NEW T2, T2 = Put(T, j, o)
    PROVE  /\ Filled(T2, m, S \cup {o})
           /\ \A x : \A i \in 1 .. m : Inside(T2, i, x) => (x = o /\ i = j) \/ Inside(T, i, x)
<1>1. /\ T \in [1 .. m -> Seq(S)]
      /\ \A i, k \in 1 .. m : \A a \in 1 .. Len(T[i]), b \in 1 .. Len(T[k]) :
            T[i][a] = T[k][b] => i = k /\ a = b
      /\ \A x \in S : \E i \in 1 .. m : \E k \in 1 .. Len(T[i]) : T[i][k] = x
    BY DEF Filled
<1>2. PICK s : s = T[j]
    OBVIOUS
<1>3. PICK t : t = <<o>> \o s
    OBVIOUS
<1>4. s \in Seq(S) /\ Len(s) \in Nat
    BY <1>1, <1>2
<1>5. t \in Seq(S \cup {o}) /\ Len(t) = Len(s) + 1 /\ t[1] = o /\ \A k \in 1 .. Len(s) : t[k + 1] = s[k]
    BY <1>3, <1>4, FrontAt
<1>6. T2[j] = t /\ \A i \in 1 .. m : i # j => T2[i] = T[i]
    BY <1>1, <1>2, <1>3 DEF Put
<1>7. T2 \in [1 .. m -> Seq(S \cup {o})]
  <2>1. \A i \in 1 .. m : T2[i] \in Seq(S \cup {o})
    <3> TAKE i \in 1 .. m
    <3>1. T[i] \in Seq(S \cup {o})
      <4>1. T[i] \in Seq(S)
        BY <1>1
      <4> QED
        BY <4>1, SeqOfMore
    <3> QED
      BY <1>5, <1>6, <3>1
  <2>2. T2 = [i \in 1 .. m |-> T2[i]]
    BY <1>1 DEF Put
  <2> QED
    BY <2>1, <2>2
\* Where a member of a chain of T2 was in T.
<1>8. ASSUME NEW i \in 1 .. m, NEW a \in 1 .. Len(T2[i])
      PROVE  \/ i = j /\ a = 1 /\ T2[i][a] = o
             \/ i = j /\ \E b \in 1 .. Len(T[i]) : a = b + 1 /\ T2[i][a] = T[i][b]
             \/ i # j /\ a \in 1 .. Len(T[i]) /\ T2[i][a] = T[i][a]
  <2>1. CASE i = j
    <3>1. a \in 1 .. Len(s) + 1
      BY <1>5, <1>6, <2>1
    <3>2. a = 1 \/ (a - 1 \in 1 .. Len(s) /\ a = (a - 1) + 1)
      BY ONLY <1>4, <3>1
    <3> QED
      BY <1>2, <1>5, <1>6, <2>1, <3>2
  <2>2. CASE i # j
    BY <1>6, <2>2
  <2> QED
    BY <2>1, <2>2
<1>9. ASSUME NEW i \in 1 .. m, NEW b \in 1 .. Len(T[i]) PROVE T[i][b] # o
  <2>1. T[i] \in Seq(S)
    BY <1>1
  <2>2. T[i][b] \in S
    BY ONLY <2>1, b \in 1 .. Len(T[i])
  <2> QED
    BY <2>2
<1>10. ASSUME NEW i \in 1 .. m, NEW k \in 1 .. m, NEW a \in 1 .. Len(T2[i]), NEW b \in 1 .. Len(T2[k]),
              T2[i][a] = T2[k][b]
       PROVE  i = k /\ a = b
  <2>1. /\ \/ i = j /\ a = 1 /\ T2[i][a] = o
           \/ i = j /\ \E l \in 1 .. Len(T[i]) : a = l + 1 /\ T2[i][a] = T[i][l]
           \/ i # j /\ a \in 1 .. Len(T[i]) /\ T2[i][a] = T[i][a]
        /\ \/ k = j /\ b = 1 /\ T2[k][b] = o
           \/ k = j /\ \E l \in 1 .. Len(T[k]) : b = l + 1 /\ T2[k][b] = T[k][l]
           \/ k # j /\ b \in 1 .. Len(T[k]) /\ T2[k][b] = T[k][b]
    BY <1>8
  <2>2. CASE T2[i][a] = o
    BY <1>9, <1>10, <2>1, <2>2
  <2>3. CASE T2[i][a] # o
    <3>1. PICK e \in 1 .. Len(T[i]) : T2[i][a] = T[i][e] /\ a = (IF i = j THEN e + 1 ELSE e)
      BY <2>1, <2>3
    <3>2. T2[k][b] # o
      BY <1>10, <2>3
    <3>3. PICK q \in 1 .. Len(T[k]) : T2[k][b] = T[k][q] /\ b = (IF k = j THEN q + 1 ELSE q)
      BY <2>1, <3>2
    <3>4. T[i][e] = T[k][q]
      BY ONLY <1>10, <3>1, <3>3
    <3>5. i = k /\ e = q
      BY <1>1, <3>4
    <3> QED
      BY ONLY <3>1, <3>3, <3>5
  <2> QED
    BY <2>2, <2>3
<1>11. ASSUME NEW x \in S \cup {o} PROVE \E i \in 1 .. m : \E k \in 1 .. Len(T2[i]) : T2[i][k] = x
  <2>1. CASE x = o
    <3>1. 1 \in 1 .. Len(t)
      BY <1>4, <1>5
    <3> QED
      BY <1>5, <1>6, <2>1, <3>1
  <2>2. CASE x \in S
    <3>0. PICK i \in 1 .. m : \E k \in 1 .. Len(T[i]) : T[i][k] = x
      BY <1>1, <2>2
    <3>1. PICK k \in 1 .. Len(T[i]) : T[i][k] = x
      BY <3>0
    <3>2. CASE i = j
      <4>1. k \in 1 .. Len(s) /\ k + 1 \in 1 .. Len(t)
        BY <1>2, <1>4, <1>5, <3>1, <3>2
      <4>2. T2[j][k + 1] = x /\ k + 1 \in 1 .. Len(T2[j])
        BY <1>2, <1>5, <1>6, <3>1, <3>2, <4>1
      <4> QED
        BY <4>2
    <3>3. CASE i # j
      BY <1>6, <3>1, <3>3
    <3> QED
      BY <3>2, <3>3
  <2> QED
    BY <2>1, <2>2
<1>12. Filled(T2, m, S \cup {o})
    BY <1>7, <1>10, <1>11 DEF Filled
<1>13. ASSUME NEW i \in 1 .. m, NEW x, Inside(T2, i, x) PROVE (x = o /\ i = j) \/ Inside(T, i, x)
  <2>1. PICK a \in 1 .. Len(T2[i]) : T2[i][a] = x
    BY <1>13 DEF Inside
  <2> QED
    BY <1>8, <2>1 DEF Inside
<1> QED
    BY <1>12, <1>13

\* A chain is emptied.
Without(T, j) == [T EXCEPT ![j] = <<>>]

LEMMA ChainEmptied ==
    ASSUME NEW m \in Nat, NEW S, NEW T, Filled(T, m, S), NEW j \in 1 .. m,
           NEW T2, T2 = Without(T, j)
    PROVE  /\ Filled(T2, m, S \ Range(T[j]))
           /\ \A x : \A i \in 1 .. m : Inside(T2, i, x) => i # j /\ Inside(T, i, x)
<1>1. /\ T \in [1 .. m -> Seq(S)]
      /\ \A i, k \in 1 .. m : \A a \in 1 .. Len(T[i]), b \in 1 .. Len(T[k]) :
            T[i][a] = T[k][b] => i = k /\ a = b
      /\ \A x \in S : \E i \in 1 .. m : \E k \in 1 .. Len(T[i]) : T[i][k] = x
    BY DEF Filled
<1>2. T2[j] = <<>> /\ Len(<<>>) = 0 /\ \A i \in 1 .. m : i # j => T2[i] = T[i]
    BY <1>1 DEF Without
<1>3. Range(T[j]) = {T[j][k] : k \in 1 .. Len(T[j])}
  <2>1. DOMAIN T[j] = 1 .. Len(T[j])
    BY <1>1
  <2> QED
    BY <2>1 DEF Range
<1>4. ASSUME NEW i \in 1 .. m, NEW a \in 1 .. Len(T2[i])
      PROVE  i # j /\ a \in 1 .. Len(T[i]) /\ T2[i][a] = T[i][a]
    BY <1>2
<1>5. T2 \in [1 .. m -> Seq(S \ Range(T[j]))]
  <2>1. ASSUME NEW i \in 1 .. m PROVE T2[i] \in Seq(S \ Range(T[j]))
    <3>1. CASE i = j
      BY <1>2, <3>1, EmptySeq
    <3>2. CASE i # j
      <4>1. T2[i] = T[i] /\ T[i] \in Seq(S)
        BY <1>1, <1>2, <3>2
      <4>2. T[i] \in [1 .. Len(T[i]) -> S] /\ Len(T[i]) \in Nat
        BY <4>1
      <4>3. ASSUME NEW k \in 1 .. Len(T[i]) PROVE T[i][k] \in S \ Range(T[j])
        <5>1. T[i][k] \in S
          BY <4>2
        <5>2. \A l \in 1 .. Len(T[j]) : T[j][l] # T[i][k]
          BY <1>1, <3>2
        <5> QED
          BY <1>3, <5>1, <5>2
      <4>4. T[i] \in [1 .. Len(T[i]) -> S \ Range(T[j])]
        BY <4>2, <4>3
      <4> QED
        BY <4>1, <4>2, <4>4
    <3> QED
      BY <3>1, <3>2
  <2>2. T2 = [i \in 1 .. m |-> T2[i]]
    BY <1>1 DEF Without
  <2> QED
    BY <2>1, <2>2
<1>6. ASSUME NEW x \in S \ Range(T[j]) PROVE \E i \in 1 .. m : \E k \in 1 .. Len(T2[i]) : T2[i][k] = x
  <2>0. PICK i \in 1 .. m : \E k \in 1 .. Len(T[i]) : T[i][k] = x
    BY <1>1
  <2>1. PICK k \in 1 .. Len(T[i]) : T[i][k] = x
    BY <2>0
  <2>2. i # j
    BY <1>3, <2>1
  <2> QED
    BY <1>2, <2>1, <2>2
<1>7. ASSUME NEW i \in 1 .. m, NEW k \in 1 .. m, NEW a \in 1 .. Len(T2[i]), NEW b \in 1 .. Len(T2[k]),
             T2[i][a] = T2[k][b]
      PROVE  i = k /\ a = b
  <2>1. a \in 1 .. Len(T[i]) /\ b \in 1 .. Len(T[k]) /\ T[i][a] = T[k][b]
    BY <1>4, <1>7
  <2> QED
    BY <1>1, <2>1
<1>8. Filled(T2, m, S \ Range(T[j]))
    BY ONLY <1>5, <1>6, <1>7 DEF Filled
<1> QED
    BY <1>4, <1>8 DEF Inside

---------------------------------------------------------------------------------
(* luaS_resize.                                                              *)

\* A string is put at the head of its chain of n.
PutAt(T, o, n) == Put(T, lmod(o, n), o)
LinkedOn(T, s, n) ==
    \E g : /\ g[0] = T /\ \A k \in 1 .. Len(s) : g[k] = PutAt(g[k - 1], s[k], n)
           /\ relinked(T, s, n) = g[Len(s)]

\* relinked, string by string.
LEMMA Relinks ==
    ASSUME NEW m \in Nat, NEW O, NEW T \in [1 .. m -> Seq(O)], NEW s \in Seq(O), NEW n,
           \A k \in 1 .. Len(s) : lmod(s[k], n) \in 1 .. m
    PROVE  LinkedOn(T, s, n)
<1>1. PICK c \in Nat : c = Len(s)
    OBVIOUS
<1>2. PICK Ts : Ts = [1 .. m -> Seq(O)]
    OBVIOUS
<1>3. \A k \in 1 .. c : s[k] \in O
    BY <1>1
<1>4. ASSUME NEW U \in Ts, NEW k \in 1 .. c PROVE PutAt(U, s[k], n) \in Ts
  <2>1. PICK o \in O, j \in 1 .. m : o = s[k] /\ j = lmod(o, n)
    BY <1>1, <1>3
  <2>2. U[j] \in Seq(O)
    BY <1>2
  <2>3. <<o>> \o U[j] \in Seq(O)
    <3>1. <<o>> \in Seq(O)
      OBVIOUS
    <3> QED
      BY <2>2, <3>1, ConcatProperties
  <2>4. [U EXCEPT ![j] = <<o>> \o @] \in Ts
    BY <1>2, <2>3
  <2> QED
    BY <2>1, <2>4 DEF PutAt, Put
<1>5. PICK step : step = [x \in Nat \X Ts |-> IF x[1] + 1 \in 1 .. c THEN PutAt(x[2], s[x[1] + 1], n) ELSE x[2]]
    OBVIOUS
<1>6. step \in [Nat \X Ts -> Ts]
  <2>1. ASSUME NEW x \in Nat \X Ts
        PROVE (IF x[1] + 1 \in 1 .. c THEN PutAt(x[2], s[x[1] + 1], n) ELSE x[2]) \in Ts
    <3>1. x[1] \in Nat /\ x[2] \in Ts
      OBVIOUS
    <3> QED
      BY <1>4, <3>1
  <2> QED
    BY ONLY <1>5, <2>1
<1>7. T \in Ts
    BY <1>2
<1>8. Iterated(Ts, T, step)
    BY ONLY <1>6, <1>7, Recursion
<1>9. PICK f \in [Nat -> Ts] : f[0] = T /\ \A k \in Nat : f[k + 1] = step[<<k, f[k]>>]
    BY <1>8 DEF Iterated
<1>10. PICK h : h = [k \in 0 .. c |-> f[k]]
    OBVIOUS
<1>11. h \in [0 .. c -> Ts] /\ h[0] = T
    BY <1>9, <1>10
<1>12. \A k \in 1 .. c : h[k] = PutAt(h[k - 1], s[k], n)
  <2> TAKE k \in 1 .. c
  <2>1. PICK i \in Nat : i = k - 1 /\ k = i + 1 /\ i \in 0 .. c /\ k \in 0 .. c
    OBVIOUS
  <2>2. f[i + 1] = step[<<i, f[i]>>] /\ f[i] \in Ts
    BY <1>9
  <2>3. step[<<i, f[i]>>] = PutAt(f[i], s[i + 1], n)
    BY <1>5, <2>1, <2>2
  <2>4. h[k] = f[i + 1] /\ h[k - 1] = f[i]
    BY <1>10, <2>1
  <2> QED
    BY <2>1, <2>2, <2>3, <2>4
<1>13. h = [k \in 0 .. c |-> IF k = 0 THEN T ELSE PutAt(h[k - 1], s[k], n)]
  <2>1. ASSUME NEW k \in 0 .. c PROVE h[k] = IF k = 0 THEN T ELSE PutAt(h[k - 1], s[k], n)
    <3>1. k = 0 \/ k \in 1 .. c
      OBVIOUS
    <3> QED
      BY <1>11, <1>12, <3>1
  <2> QED
    BY <1>11, <2>1
<1>14. PICK g : /\ g = [k \in 0 .. c |-> IF k = 0 THEN T ELSE PutAt(g[k - 1], s[k], n)]
                /\ relinked(T, s, n) = g[c]
    BY <1>1, <1>13 DEF relinked, PutAt, Put
<1>15. g[0] = T /\ \A k \in 1 .. c : g[k] = PutAt(g[k - 1], s[k], n)
  <2>1. g[0] = T
    BY <1>14
  <2>2. ASSUME NEW k \in 1 .. c PROVE g[k] = PutAt(g[k - 1], s[k], n)
    <3>1. k \in 0 .. c /\ k # 0
      OBVIOUS
    <3> QED
      BY <1>14, <3>1
  <2> QED
    BY <2>1, <2>2
<1> QED
    BY ONLY <1>1, <1>14, <1>15 DEF LinkedOn

\* What a chain's strings are.
LEMMA ChainRange ==
    ASSUME NEW S, NEW s \in Seq(S)
    PROVE  /\ Range(s) = {s[k] : k \in 1 .. Len(s)} /\ Len(s) \in Nat
           /\ \A k \in 1 .. Len(s) : s[k] \in S
<1>1. DOMAIN s = 1 .. Len(s)
    OBVIOUS
<1>2. \A k \in 1 .. Len(s) : s[k] \in S
    OBVIOUS
<1> QED
    BY <1>1, <1>2 DEF Range

\* Strings that are in no chain yet come each to its own, the others stay where they are.
LEMMA Relinked ==
    ASSUME NEW m \in Nat, NEW O, NEW S, S \subseteq O, NEW T, Filled(T, m, S), NEW s \in Seq(O), NEW n,
           \A k \in 1 .. Len(s) : lmod(s[k], n) \in 1 .. m /\ s[k] \notin S,
           \A k, l \in 1 .. Len(s) : s[k] = s[l] => k = l
    PROVE  /\ Filled(relinked(T, s, n), m, S \cup Range(s))
           /\ \A x : \A i \in 1 .. m : Inside(relinked(T, s, n), i, x) =>
                 Inside(T, i, x) \/ i = lmod(x, n)
<1>1. PICK c \in Nat : c = Len(s)
    OBVIOUS
<1>2. T \in [1 .. m -> Seq(O)]
  <2>1. T \in [1 .. m -> Seq(S)]
    BY DEF Filled
  <2>2. ASSUME NEW i \in 1 .. m PROVE T[i] \in Seq(O)
    <3>1. T[i] \in Seq(S)
      BY <2>1
    <3> QED
      BY <3>1, SeqOfMore
  <2> QED
    BY <2>1, <2>2
<1>3. PICK g : /\ g[0] = T /\ \A k \in 1 .. c : g[k] = PutAt(g[k - 1], s[k], n)
               /\ relinked(T, s, n) = g[c]
  <2>1. \A k \in 1 .. Len(s) : lmod(s[k], n) \in 1 .. m
    OBVIOUS
  <2>2. LinkedOn(T, s, n)
    BY <1>2, <2>1, Relinks
  <2> QED
    BY <1>1, <2>2 DEF LinkedOn
<1> DEFINE first(k) == {s[j] : j \in 1 .. k}
           Good(k) == /\ Filled(g[k], m, S \cup first(k))
                      /\ \A x : \A i \in 1 .. m : Inside(g[k], i, x) => Inside(T, i, x) \/ i = lmod(x, n)
<1>4. PICK good : good = {k \in Nat : k <= c => Good(k)}
    OBVIOUS
<1>5. 0 \in good
  <2>1. first(0) = {}
    OBVIOUS
  <2>2. S \cup first(0) = S
    BY <2>1
  <2>3. Good(0)
    BY <1>3, <2>2
  <2> QED
    BY <1>4, <2>3
<1>6. ASSUME NEW k \in good PROVE k + 1 \in good
  <2>1. k \in Nat /\ k + 1 \in Nat
    BY <1>4
  <2>2. SUFFICES ASSUME k + 1 <= c PROVE Good(k + 1)
    BY <1>4, <2>1
  <2>3. k + 1 \in 1 .. c /\ (k + 1) - 1 = k /\ k <= c
    BY <2>1, <2>2
  <2>4. Good(k)
    BY <1>4, <2>3
  <2>5. PICK o : o = s[k + 1]
    OBVIOUS
  <2>6. PICK A : A = S \cup first(k)
    OBVIOUS
  <2>7. o \notin A /\ A \cup {o} = S \cup first(k + 1)
    <3>1. o \notin S /\ \A j \in 1 .. k : s[j] # o
      <4>1. \A j \in 1 .. k : j \in 1 .. Len(s) /\ j # k + 1
        BY <1>1, <2>1, <2>3
      <4> QED
        BY <1>1, <2>3, <2>5, <4>1
    <3>2. 1 .. k + 1 = (1 .. k) \cup {k + 1}
      BY <2>1
    <3> QED
      BY <2>5, <2>6, <3>1, <3>2
  <2>8. PICK j \in 1 .. m : j = lmod(o, n)
    BY <1>1, <2>3, <2>5
  <2>9. g[k + 1] = Put(g[k], j, o)
    BY <1>3, <2>3, <2>5, <2>8 DEF PutAt
  <2>10. /\ Filled(g[k + 1], m, A \cup {o})
         /\ \A x : \A i \in 1 .. m : Inside(g[k + 1], i, x) => (x = o /\ i = j) \/ Inside(g[k], i, x)
    <3>1. PICK U, V : U = g[k] /\ V = g[k + 1]
      OBVIOUS
    <3>2. Filled(U, m, A)
      BY <2>4, <2>6, <3>1
    <3>3. V = Put(U, j, o)
      BY ONLY <2>9, <3>1
    <3>4. /\ Filled(V, m, A \cup {o})
          /\ \A x : \A i \in 1 .. m : Inside(V, i, x) => (x = o /\ i = j) \/ Inside(U, i, x)
      BY <2>7, <3>2, <3>3, PutFirst
    <3> QED
      BY ONLY <3>1, <3>4
  <2>11. Filled(g[k + 1], m, S \cup first(k + 1))
    BY ONLY <2>7, <2>10
  <2>12. \A x : \A i \in 1 .. m : Inside(g[k + 1], i, x) => Inside(T, i, x) \/ i = lmod(x, n)
    BY <2>4, <2>8, <2>10
  <2> QED
    BY <2>11, <2>12
<1>7. good \in SUBSET Nat
    BY <1>4
<1>8. good = Nat
    BY ONLY <1>5, <1>6, <1>7, AllNumbers
<1>9. Good(c)
  <2> HIDE DEF Good
  <2>1. c \in good /\ c <= c
    BY <1>8
  <2> QED
    BY <1>4, <2>1
<1>10. first(c) = Range(s)
    BY <1>1, ChainRange
<1> QED
    BY <1>3, <1>9, <1>10

\* Chain i is emptied and its strings put where they belong.
Refiled(T, i, n) == relinked(Without(T, i), T[i], n)

LEMMA OneRehashed ==
    ASSUME NEW m \in Nat, NEW S, NEW T, Filled(T, m, S), NEW n, \A o \in S : lmod(o, n) \in 1 .. m,
           NEW j \in 1 .. m
    PROVE  /\ Filled(Refiled(T, j, n), m, S)
           /\ \A x : \A i \in 1 .. m : Inside(Refiled(T, j, n), i, x) =>
                 (i # j /\ Inside(T, i, x)) \/ i = lmod(x, n)
<1>1. PICK s, T2 : s = T[j] /\ T2 = Without(T, j)
    OBVIOUS
<1>2. s \in Seq(S) /\ \A k, l \in 1 .. Len(s) : s[k] = s[l] => k = l
  <2>1. /\ T \in [1 .. m -> Seq(S)]
        /\ \A i, k \in 1 .. m : \A a \in 1 .. Len(T[i]), b \in 1 .. Len(T[k]) :
              T[i][a] = T[k][b] => i = k /\ a = b
    BY DEF Filled
  <2>2. T[j] \in Seq(S)
    BY <2>1
  <2>3. \A k, l \in 1 .. Len(T[j]) : T[j][k] = T[j][l] => k = l
    BY <2>1
  <2> QED
    BY <1>1, <2>2, <2>3
<1>3. Range(s) = {s[k] : k \in 1 .. Len(s)} /\ \A k \in 1 .. Len(s) : s[k] \in S
    BY <1>2, ChainRange
<1>4. PICK R : R = S \ Range(s)
    OBVIOUS
<1>5. Filled(T2, m, R) /\ \A x : \A i \in 1 .. m : Inside(T2, i, x) => i # j /\ Inside(T, i, x)
    BY <1>1, <1>4, ChainEmptied
<1>6. R \subseteq S /\ R \cup Range(s) = S /\ \A k \in 1 .. Len(s) : lmod(s[k], n) \in 1 .. m /\ s[k] \notin R
    BY <1>3, <1>4
<1>7. /\ Filled(relinked(T2, s, n), m, R \cup Range(s))
      /\ \A x : \A i \in 1 .. m : Inside(relinked(T2, s, n), i, x) => Inside(T2, i, x) \/ i = lmod(x, n)
    BY ONLY <1>2, <1>5, <1>6, m \in Nat, Relinked
<1> QED
    BY <1>1, <1>5, <1>6, <1>7 DEF Refiled

\* rehashed, chain by chain.
LEMMA Rehashes ==
    ASSUME NEW m \in Nat, NEW S, NEW T, Filled(T, m, S), NEW n, \A o \in S : lmod(o, n) \in 1 .. m,
           NEW c \in Nat, c <= m
    PROVE  \E g : /\ g[0] = T /\ \A k \in 1 .. c : g[k] = Refiled(g[k - 1], k, n)
                  /\ rehashed(T, c, n) = g[c]
<1>1. PICK Ts : Ts = {U \in [1 .. m -> Seq(S)] : Filled(U, m, S)}
    OBVIOUS
<1>2. \A U : Filled(U, m, S) => U \in Ts
    BY <1>1 DEF Filled
<1>3. ASSUME NEW U \in Ts, NEW k \in 1 .. c PROVE Refiled(U, k, n) \in Ts
  <2>1. Filled(U, m, S)
    BY <1>1
  <2>2. k \in 1 .. m
    OBVIOUS
  <2>3. Filled(Refiled(U, k, n), m, S)
    BY <2>1, <2>2, OneRehashed
  <2> QED
    BY <1>2, <2>3
<1>4. PICK step : step = [x \in Nat \X Ts |-> IF x[1] + 1 \in 1 .. c THEN Refiled(x[2], x[1] + 1, n) ELSE x[2]]
    OBVIOUS
<1>5. step \in [Nat \X Ts -> Ts]
  <2>1. ASSUME NEW x \in Nat \X Ts
        PROVE (IF x[1] + 1 \in 1 .. c THEN Refiled(x[2], x[1] + 1, n) ELSE x[2]) \in Ts
    <3>1. x[1] \in Nat /\ x[2] \in Ts
      OBVIOUS
    <3> QED
      BY <1>3, <3>1
  <2> QED
    BY ONLY <1>4, <2>1
<1>6. T \in Ts
    BY <1>2
<1>7. Iterated(Ts, T, step)
    BY ONLY <1>5, <1>6, Recursion
<1>8. PICK f \in [Nat -> Ts] : f[0] = T /\ \A k \in Nat : f[k + 1] = step[<<k, f[k]>>]
    BY <1>7 DEF Iterated
<1>9. PICK h : h = [k \in 0 .. c |-> f[k]]
    OBVIOUS
<1>10. h[0] = T
    BY <1>8, <1>9
<1>11. \A k \in 1 .. c : h[k] = Refiled(h[k - 1], k, n)
  <2> TAKE k \in 1 .. c
  <2>1. PICK i \in Nat : i = k - 1 /\ k = i + 1 /\ i \in 0 .. c /\ k \in 0 .. c
    OBVIOUS
  <2>2. f[i + 1] = step[<<i, f[i]>>] /\ f[i] \in Ts
    BY <1>8
  <2>3. step[<<i, f[i]>>] = Refiled(f[i], i + 1, n)
    BY <1>4, <2>1, <2>2
  <2>4. h[k] = f[i + 1] /\ h[k - 1] = f[i]
    BY <1>9, <2>1
  <2> QED
    BY <2>1, <2>2, <2>3, <2>4
<1>12. h = [k \in 0 .. c |-> IF k = 0 THEN T ELSE Refiled(h[k - 1], k, n)]
  <2>1. ASSUME NEW k \in 0 .. c PROVE h[k] = IF k = 0 THEN T ELSE Refiled(h[k - 1], k, n)
    <3>1. k = 0 \/ k \in 1 .. c
      OBVIOUS
    <3> QED
      BY <1>10, <1>11, <3>1
  <2> QED
    BY <1>9, <2>1
<1>13. PICK g : /\ g = [k \in 0 .. c |-> IF k = 0 THEN T ELSE Refiled(g[k - 1], k, n)]
                /\ rehashed(T, c, n) = g[c]
    BY <1>12 DEF rehashed, Refiled, Without
<1>14. g[0] = T
    BY <1>13
<1>15. ASSUME NEW k \in 1 .. c PROVE g[k] = Refiled(g[k - 1], k, n)
  <2>1. k \in 0 .. c /\ k # 0
    OBVIOUS
  <2> QED
    BY <1>13, <2>1
<1> QED
    BY <1>13, <1>14, <1>15

\* After the walk over the first c chains, all there were, each string is at home.
LEMMA Rehashed ==
    ASSUME NEW m \in Nat, NEW S, NEW T, Filled(T, m, S), NEW n, \A o \in S : lmod(o, n) \in 1 .. m,
           NEW c \in Nat, c <= m, \A x : \A i \in 1 .. m : Inside(T, i, x) => i <= c
    PROVE  /\ Filled(rehashed(T, c, n), m, S)
           /\ \A x : \A i \in 1 .. m : Inside(rehashed(T, c, n), i, x) => i = lmod(x, n)
<1>1. PICK g : /\ g[0] = T /\ \A k \in 1 .. c : g[k] = Refiled(g[k - 1], k, n)
               /\ rehashed(T, c, n) = g[c]
    BY Rehashes
<1> DEFINE Good(k) == /\ Filled(g[k], m, S)
                      /\ \A x : \A i \in 1 .. m : Inside(g[k], i, x) => (k < i /\ i <= c) \/ i = lmod(x, n)
<1>2. PICK good : good = {k \in Nat : k <= c => Good(k)}
    OBVIOUS
<1>3. 0 \in good
  <2>1. Good(0)
    BY <1>1
  <2> QED
    BY <1>2, <2>1
<1>4. ASSUME NEW k \in good PROVE k + 1 \in good
  <2>1. k \in Nat /\ k + 1 \in Nat
    BY <1>2
  <2>2. SUFFICES ASSUME k + 1 <= c PROVE Good(k + 1)
    BY <1>2, <2>1
  <2>3. PICK j \in 1 .. m : j = k + 1 /\ j \in 1 .. c /\ j - 1 = k /\ k <= c
    BY <2>1, <2>2
  <2>4. Good(k)
    BY <1>2, <2>3
  <2>5. g[j] = Refiled(g[k], j, n)
    BY <1>1, <2>3
  <2>6. /\ Filled(g[j], m, S)
        /\ \A x : \A i \in 1 .. m : Inside(g[j], i, x) => (i # j /\ Inside(g[k], i, x)) \/ i = lmod(x, n)
    BY <2>4, <2>5, OneRehashed
  <2>7. ASSUME NEW i \in 1 .. m, NEW x, Inside(g[j], i, x) PROVE (j < i /\ i <= c) \/ i = lmod(x, n)
    <3>1. SUFFICES ASSUME i # lmod(x, n) PROVE j < i /\ i <= c
      OBVIOUS
    <3>2. i # j /\ Inside(g[k], i, x)
      BY <2>6, <2>7, <3>1
    <3>3. k < i /\ i <= c
      BY <2>4, <3>1, <3>2
    <3> QED
      BY ONLY <2>1, <2>3, <3>2, <3>3, i \in 1 .. m, m \in Nat
  <2> QED
    BY <2>3, <2>6, <2>7
<1>5. good \in SUBSET Nat
    BY <1>2
<1>6. good = Nat
    BY ONLY <1>3, <1>4, <1>5, AllNumbers
<1>7. Good(c)
  <2> HIDE DEF Good
  <2>1. c \in good /\ c <= c
    BY <1>6
  <2> QED
    BY <1>2, <2>1
<1> QED
    BY <1>1, <1>7

\* Each string of S is in its own chain of the m, once.
Home(T, m, S) == Filled(T, m, S) /\ \A x : \A i \in 1 .. m : Inside(T, i, x) => i = lmod(x, m)

Hashed(S) == \A o \in S : Text(o).hash \in Nat

LEMMA ChainThere ==
    ASSUME NEW S, Hashed(S), NEW n \in Nat \ {0}
    PROVE  \A o \in S : lmod(o, n) \in 1 .. n
<1> TAKE o \in S
<1>1. PICK h \in Nat : h = Text(o).hash
    BY DEF Hashed
<1>2. h % n \in 0 .. n - 1
    BY ONLY h \in Nat, n \in Nat \ {0}, SMT
<1>3. (h % n) + 1 \in 1 .. n
    BY ONLY <1>2, n \in Nat \ {0}
<1> QED
    BY <1>1, <1>3 DEF lmod

\* luaS_resize, to more chains or to fewer.
LEMMA Resized ==
    ASSUME NEW S, Hashed(S), NEW old \in Nat \ {0}, NEW n \in Nat \ {0}, NEW T, Home(T, old, S)
    PROVE  Home(luaS_resize(T, n), n, S)
<1>1. /\ T \in [1 .. old -> Seq(S)]
      /\ \A i, k \in 1 .. old : \A a \in 1 .. Len(T[i]), b \in 1 .. Len(T[k]) :
            T[i][a] = T[k][b] => i = k /\ a = b
      /\ \A x \in S : \E i \in 1 .. old : \E k \in 1 .. Len(T[i]) : T[i][k] = x
    BY DEF Home, Filled
<1>2. Len(T) = old
    BY <1>1
<1>3. PICK most : most = IF n < old THEN old ELSE n
    OBVIOUS
<1>4. most \in Nat /\ old <= most /\ n <= most /\ 1 .. old \subseteq 1 .. most /\ 1 .. n \subseteq 1 .. most
    BY <1>3
<1>5. PICK U : U = [i \in 1 .. most |-> IF i <= old THEN T[i] ELSE <<>>]
    OBVIOUS
<1>6. \A i \in 1 .. most : IF i \in 1 .. old THEN U[i] = T[i] ELSE U[i] = <<>> /\ ~ (i <= old)
    BY <1>4, <1>5
<1>7. Len(<<>>) = 0 /\ <<>> \in Seq(S)
    BY EmptySeq
<1>8. ASSUME NEW i \in 1 .. most, NEW a \in 1 .. Len(U[i]) PROVE i \in 1 .. old /\ U[i] = T[i]
    BY <1>6, <1>7
<1>9. Filled(U, most, S)
  <2>1. U \in [1 .. most -> Seq(S)]
    <3>1. \A i \in 1 .. most : U[i] \in Seq(S)
      BY <1>1, <1>6, <1>7
    <3>2. U = [i \in 1 .. most |-> U[i]]
      BY <1>5
    <3> QED
      BY ONLY <3>1, <3>2
  <2>2. ASSUME NEW i \in 1 .. most, NEW k \in 1 .. most, NEW a \in 1 .. Len(U[i]), NEW b \in 1 .. Len(U[k]),
               U[i][a] = U[k][b]
        PROVE  i = k /\ a = b
    <3>1. i \in 1 .. old /\ k \in 1 .. old /\ U[i] = T[i] /\ U[k] = T[k]
      BY <1>8
    <3> QED
      BY <1>1, <2>2, <3>1
  <2>3. ASSUME NEW x \in S PROVE \E i \in 1 .. most : \E k \in 1 .. Len(U[i]) : U[i][k] = x
    <3>1. PICK i \in 1 .. old : \E k \in 1 .. Len(T[i]) : T[i][k] = x
      BY <1>1
    <3>2. i \in 1 .. most /\ U[i] = T[i]
      BY <1>4, <1>6
    <3> QED
      BY <3>1, <3>2
  <2> QED
    BY ONLY <2>1, <2>2, <2>3 DEF Filled
<1>10. \A x : \A i \in 1 .. most : Inside(U, i, x) => i <= old
    BY <1>8 DEF Inside
<1>11. \A o \in S : lmod(o, n) \in 1 .. n
    BY ChainThere
<1>12. PICK R : R = rehashed(U, old, n)
    OBVIOUS
<1>13. Filled(R, most, S) /\ \A x : \A i \in 1 .. most : Inside(R, i, x) => i = lmod(x, n)
  <2>1. \A o \in S : lmod(o, n) \in 1 .. most
    BY <1>4, <1>11
  <2>2. old \in Nat
    OBVIOUS
  <2> QED
    BY ONLY <1>4, <1>9, <1>10, <1>12, <2>1, <2>2, Rehashed
<1>14. PICK V : V = [i \in 1 .. n |-> R[i]]
    OBVIOUS
<1>15. luaS_resize(T, n) = V
    BY <1>2, <1>3, <1>5, <1>12, <1>14 DEF luaS_resize
<1>16. /\ R \in [1 .. most -> Seq(S)]
       /\ \A i, k \in 1 .. most : \A a \in 1 .. Len(R[i]), b \in 1 .. Len(R[k]) :
             R[i][a] = R[k][b] => i = k /\ a = b
       /\ \A x \in S : \E i \in 1 .. most : \E k \in 1 .. Len(R[i]) : R[i][k] = x
    BY <1>13 DEF Filled
<1>17. \A i \in 1 .. n : i \in 1 .. most /\ V[i] = R[i]
    BY <1>4, <1>14
<1>18. Filled(V, n, S)
  <2>1. V \in [1 .. n -> Seq(S)]
    BY <1>14, <1>16, <1>17
  <2>2. ASSUME NEW i \in 1 .. n, NEW k \in 1 .. n, NEW a \in 1 .. Len(V[i]), NEW b \in 1 .. Len(V[k]),
               V[i][a] = V[k][b]
        PROVE  i = k /\ a = b
    BY <1>16, <1>17, <2>2
  <2>3. ASSUME NEW x \in S PROVE \E i \in 1 .. n : \E k \in 1 .. Len(V[i]) : V[i][k] = x
    <3>1. PICK i \in 1 .. most : \E k \in 1 .. Len(R[i]) : R[i][k] = x
      BY <1>16
    <3>2. Inside(R, i, x)
      BY <3>1 DEF Inside
    <3>3. i \in 1 .. n
      BY <1>11, <1>13, <3>2
    <3> QED
      BY <1>17, <3>1, <3>3
  <2> QED
    BY ONLY <2>1, <2>2, <2>3 DEF Filled
<1>19. \A x : \A i \in 1 .. n : Inside(V, i, x) => i = lmod(x, n)
    BY <1>13, <1>17 DEF Inside
<1> QED
    BY <1>15, <1>18, <1>19 DEF Home

\* A string that is not in the table comes first in its chain.
LEMMA HomeMore ==
    ASSUME NEW S, NEW m \in Nat \ {0}, NEW T, Home(T, m, S), NEW o, o \notin S, Text(o).hash \in Nat
    PROVE  Home(Put(T, lmod(o, m), o), m, S \cup {o})
<1>1. PICK j \in 1 .. m : j = lmod(o, m)
  <2>1. Hashed({o})
    BY DEF Hashed
  <2> QED
    BY <2>1, ChainThere
<1>2. PICK U : U = Put(T, j, o)
    OBVIOUS
<1>3. Filled(T, m, S) /\ \A x : \A i \in 1 .. m : Inside(T, i, x) => i = lmod(x, m)
    BY DEF Home
<1>4. Filled(U, m, S \cup {o}) /\ \A x : \A i \in 1 .. m : Inside(U, i, x) => (x = o /\ i = j) \/ Inside(T, i, x)
    BY <1>2, <1>3, PutFirst
<1> QED
    BY <1>1, <1>2, <1>3, <1>4 DEF Home

\* A string is taken out of its chain, where it is found.
Unchained(T, j, o) == [T EXCEPT ![j] = RemoveAt(@, Min({k \in DOMAIN @ : @[k] = o}))]

LEMMA HomeLess ==
    ASSUME NEW S, NEW m \in Nat, NEW T, Home(T, m, S), NEW o \in S
    PROVE  Home(Unchained(T, lmod(o, m), o), m, S \ {o})
<1>1. /\ T \in [1 .. m -> Seq(S)]
      /\ \A i, k \in 1 .. m : \A a \in 1 .. Len(T[i]), b \in 1 .. Len(T[k]) :
            T[i][a] = T[k][b] => i = k /\ a = b
      /\ \A x \in S : \E i \in 1 .. m : \E k \in 1 .. Len(T[i]) : T[i][k] = x
      /\ \A x : \A i \in 1 .. m : Inside(T, i, x) => i = lmod(x, m)
    BY DEF Home, Filled
<1>2. PICK j \in 1 .. m : \E k \in 1 .. Len(T[j]) : T[j][k] = o
    BY <1>1
<1>3. j = lmod(o, m)
    BY <1>1, <1>2 DEF Inside
<1>4. PICK s : s = T[j]
    OBVIOUS
<1>5. s \in Seq(S) /\ DOMAIN s = 1 .. Len(s)
  <2>1. s \in Seq(S)
    BY <1>1, <1>4
  <2> QED
    BY <2>1
<1>6. PICK q \in 1 .. Len(s) : s[q] = o
    BY <1>2, <1>4
<1>7. \A k \in 1 .. Len(s) : s[k] = o => k = q
  <2>1. \A a \in 1 .. Len(T[j]), b \in 1 .. Len(T[j]) : T[j][a] = T[j][b] => a = b
    BY <1>1
  <2> QED
    BY ONLY <1>4, <1>6, <2>1
<1>8. Min({k \in DOMAIN s : s[k] = o}) = q
  <2>1. {k \in DOMAIN s : s[k] = o} = {q}
    BY <1>5, <1>6, <1>7
  <2>2. Min({q}) = q
    BY DEF Min
  <2> QED
    BY <2>1, <2>2
<1>9. PICK t, U : t = RemoveAt(s, q) /\ U = Unchained(T, j, o)
    OBVIOUS
<1>10. U = [T EXCEPT ![j] = t]
    BY <1>4, <1>8, <1>9 DEF Unchained
<1>11. /\ t \in Seq(S)
       /\ \A k \in 1 .. Len(t) : \E l \in 1 .. Len(s) : t[k] = s[l] /\ l = (IF k < q THEN k ELSE k + 1)
       /\ \A l \in 1 .. Len(s) : l # q => \E k \in 1 .. Len(t) : t[k] = s[l]
    BY <1>5, <1>9, Unlinked
<1>12. U[j] = t /\ \A i \in 1 .. m : i # j => U[i] = T[i]
    BY <1>1, <1>10
<1>13. U \in [1 .. m -> Seq(S)]
    BY <1>1, <1>10, <1>11
\* Where a string of U was.
<1>14. ASSUME NEW i \in 1 .. m, NEW a \in 1 .. Len(U[i])
       PROVE  \E l \in 1 .. Len(T[i]) : U[i][a] = T[i][l] /\ l = (IF i = j /\ ~ (a < q) THEN a + 1 ELSE a)
    BY <1>4, <1>11, <1>12
<1>15. ASSUME NEW i \in 1 .. m, NEW a \in 1 .. Len(U[i]) PROVE U[i][a] \in S \ {o}
  <2>1. PICK l \in 1 .. Len(T[i]) : U[i][a] = T[i][l] /\ l = (IF i = j /\ ~ (a < q) THEN a + 1 ELSE a)
    BY <1>14
  <2>2. T[i] \in Seq(S)
    BY <1>1
  <2>3. T[i][l] \in S
    BY ONLY <2>2, l \in 1 .. Len(T[i])
  <2>4. U[i] \in Seq(S) /\ a \in Nat
    BY <1>13
  <2>5. i = j => l # q
    BY ONLY <2>1, <2>4, q \in 1 .. Len(s)
  <2>6. i # j => T[i][l] # T[j][q]
    BY <1>1, <1>4
  <2> QED
    BY <1>4, <1>6, <1>7, <2>1, <2>3, <2>5, <2>6
<1>16. U \in [1 .. m -> Seq(S \ {o})]
  <2>1. ASSUME NEW i \in 1 .. m PROVE U[i] \in Seq(S \ {o})
    <3>1. U[i] \in Seq(S)
      BY <1>13
    <3>2. U[i] \in [1 .. Len(U[i]) -> S \ {o}] /\ Len(U[i]) \in Nat
      BY <1>15, <3>1
    <3> QED
      BY <3>1, <3>2
  <2> QED
    BY <1>13, <2>1
<1>17. ASSUME NEW i \in 1 .. m, NEW k \in 1 .. m, NEW a \in 1 .. Len(U[i]), NEW b \in 1 .. Len(U[k]),
              U[i][a] = U[k][b]
       PROVE  i = k /\ a = b
  <2>1. PICK l \in 1 .. Len(T[i]) : U[i][a] = T[i][l] /\ l = (IF i = j /\ ~ (a < q) THEN a + 1 ELSE a)
    BY <1>14
  <2>2. PICK r \in 1 .. Len(T[k]) : U[k][b] = T[k][r] /\ r = (IF k = j /\ ~ (b < q) THEN b + 1 ELSE b)
    BY <1>14
  <2>3. i = k /\ l = r
    <3>1. T[i][l] = T[k][r]
      BY ONLY <1>17, <2>1, <2>2
    <3> QED
      BY <1>1, <3>1
  <2>4. a \in Nat /\ b \in Nat /\ q \in Nat
    <3>1. U[i] \in Seq(S) /\ U[k] \in Seq(S)
      BY <1>13
    <3> QED
      BY <1>5, <3>1
  <2> QED
    BY ONLY <2>1, <2>2, <2>3, <2>4
<1>18. ASSUME NEW x \in S \ {o} PROVE \E i \in 1 .. m : \E k \in 1 .. Len(U[i]) : U[i][k] = x
  <2>0. PICK i \in 1 .. m : \E l \in 1 .. Len(T[i]) : T[i][l] = x
    BY <1>1
  <2>1. PICK l \in 1 .. Len(T[i]) : T[i][l] = x
    BY <2>0
  <2>2. CASE i = j
    BY <1>4, <1>6, <1>11, <1>12, <2>1, <2>2
  <2>3. CASE i # j
    BY <1>12, <2>1, <2>3
  <2> QED
    BY <2>2, <2>3
<1>19. Filled(U, m, S \ {o})
    BY ONLY <1>16, <1>17, <1>18 DEF Filled
<1>20. \A x : \A i \in 1 .. m : Inside(U, i, x) => i = lmod(x, m)
  <2> SUFFICES ASSUME NEW i \in 1 .. m, NEW x, Inside(U, i, x) PROVE Inside(T, i, x)
    BY <1>1
  <2>1. PICK a \in 1 .. Len(U[i]) : U[i][a] = x
    BY DEF Inside
  <2> QED
    BY <1>14, <2>1 DEF Inside
<1> QED
    BY <1>3, <1>9, <1>19, <1>20 DEF Home

\* What a chain holds then: all the strings that belong there, and as many.
Belong(S, m, i) == {o \in S : lmod(o, m) = i}

LEMMA HomeChain ==
    ASSUME NEW S, NEW m \in Nat, NEW T, Home(T, m, S), NEW i \in 1 .. m,
           NEW here, here = Belong(S, m, i)
    PROVE  Range(T[i]) = here /\ Len(T[i]) = Cardinality(here)
<1>1. /\ T \in [1 .. m -> Seq(S)]
      /\ \A k \in 1 .. m : \A a \in 1 .. Len(T[i]), b \in 1 .. Len(T[k]) :
            T[i][a] = T[k][b] => i = k /\ a = b
      /\ \A x \in S : \E k \in 1 .. m : \E l \in 1 .. Len(T[k]) : T[k][l] = x
      /\ \A x : \A k \in 1 .. m : Inside(T, k, x) => k = lmod(x, m)
    BY DEF Home, Filled
<1>2. PICK s : s = T[i]
    OBVIOUS
<1>3. s \in Seq(S)
    BY <1>1, <1>2
<1>4. /\ Range(s) = {s[k] : k \in 1 .. Len(s)} /\ Len(s) \in Nat
      /\ \A k \in 1 .. Len(s) : s[k] \in S
    BY <1>3, ChainRange
<1>5. ASSUME NEW k \in 1 .. Len(s) PROVE s[k] \in here
  <2>1. Inside(T, i, s[k])
    BY <1>2 DEF Inside
  <2>2. i = lmod(s[k], m)
    BY <1>1, <2>1
  <2> QED
    BY <1>4, <2>2 DEF Belong
<1>6. \A o \in here : \E k \in 1 .. Len(s) : s[k] = o
  <2> TAKE o \in here
  <2>1. PICK k \in 1 .. m : \E l \in 1 .. Len(T[k]) : T[k][l] = o
    BY <1>1 DEF Belong
  <2>2. k = i
    BY <1>1, <2>1 DEF Inside, Belong
  <2> QED
    BY <1>2, <2>1, <2>2
<1>7. Range(s) = here
    BY <1>4, <1>5, <1>6
<1>8. \A k, l \in 1 .. Len(s) : s[k] = s[l] => k = l
  <2>1. \A a \in 1 .. Len(T[i]), b \in 1 .. Len(T[i]) : T[i][a] = T[i][b] => a = b
    BY <1>1
  <2> QED
    BY ONLY <1>2, <2>1
<1>9. ExistsBijection(1 .. Len(s), here)
  <2>1. s \in [1 .. Len(s) -> here]
    BY <1>3, <1>5
  <2>2. s \in Injection(1 .. Len(s), here)
    BY <1>8, <2>1 DEF Injection, IsInjective
  <2>3. s \in Surjection(1 .. Len(s), here)
    BY <1>6, <2>1 DEF Surjection
  <2>4. s \in Bijection(1 .. Len(s), here)
    BY <2>2, <2>3 DEF Bijection
  <2> QED
    BY <2>4 DEF ExistsBijection
<1>10. Cardinality(here) = Len(s)
    BY <1>4, <1>9, FS_CountingElements
<1> QED
    BY <1>2, <1>7, <1>10

---------------------------------------------------------------------------------
(* lstring.c and the collector.                                              *)

StringObjects == (StrTexts \cup {Text(memerrmsg)}) \X (Nat \ {0})

\* The strings of X the table is for.
Shorts(X) == {o \in X : ~ Text(o).long}

\* A short string is the only one with its text, memerrmsg is always there, and what is
\* dead will be swept.
MarksRight(mark, sweeping) ==
    LET there == DOMAIN mark
    IN  /\ mark \in [there -> {"white", "black", "dead"}]
        /\ there \subseteq StringObjects /\ IsFiniteSet(there)
        /\ \A o \in Shorts(there) : o[2] = 1
        /\ memerrmsg \in there /\ mark[memerrmsg] = "black"
        /\ sweeping \subseteq there \ {memerrmsg}
        /\ \A o \in there : mark[o] = "dead" => o \in sweeping

\* Each string of X is in its chain, and counted.
TableRight(hash, nuse, X) ==
    Len(hash) \in Nat \ {0} /\ Home(hash, Len(hash), X) /\ nuse = Cardinality(X)

Usable(mark, o) == o \in DOMAIN mark /\ mark[o] # "dead"

StringInv ==
    /\ MarksRight(st_mark, st_sweep)
    /\ TableRight(st_hash, st_nuse, Shorts(Strings))
    /\ \A o \in st_held : Usable(st_mark, o)
    /\ st_cache \in Seq(StringObjects) /\ Len(st_cache) # 0
    /\ \A j \in 1 .. Len(st_cache) : Usable(st_mark, st_cache[j])

LEMMA StringObject ==
    /\ memerrmsg \in StringObjects /\ ~ Text(memerrmsg).long /\ memerrmsg[2] = 1
    /\ \A o \in StringObjects : /\ o = <<Text(o), o[2]>> /\ Text(o).hash \in Nat
                                /\ Text(o).long \in BOOLEAN /\ o[2] \in Nat \ {0}
    /\ \A text \in StrTexts, n \in Nat \ {0} : <<text, n>> \in StringObjects /\ Text(<<text, n>>) = text
<1>1. Text(memerrmsg) = [name |-> "memerrmsg", hash |-> 0, long |-> FALSE] /\ memerrmsg[2] = 1
    BY DEF Text, memerrmsg
<1>2. Text(memerrmsg).hash = 0 /\ Text(memerrmsg).long = FALSE
    BY <1>1
<1>3. memerrmsg = <<Text(memerrmsg), 1>>
    BY <1>1 DEF memerrmsg
<1>4. memerrmsg \in StringObjects
    BY <1>3 DEF StringObjects
<1>5. ASSUME NEW o \in StringObjects
      PROVE  /\ o = <<Text(o), o[2]>> /\ Text(o).hash \in Nat
             /\ Text(o).long \in BOOLEAN /\ o[2] \in Nat \ {0}
  <2>1. o = <<Text(o), o[2]>> /\ Text(o) \in StrTexts \cup {Text(memerrmsg)} /\ o[2] \in Nat \ {0}
    BY DEF StringObjects, Text
  <2>2. CASE Text(o) \in StrTexts
    BY <2>1, <2>2, StringAssumption
  <2>3. CASE Text(o) = Text(memerrmsg)
    <3>1. Text(memerrmsg).hash \in Nat
      BY <1>2
    <3>2. Text(memerrmsg).long \in BOOLEAN
      BY ONLY <1>2, Zenon
    <3> QED
      BY ONLY <2>1, <2>3, <3>1, <3>2, Zenon
  <2> QED
    BY <2>1, <2>2, <2>3
<1>6. \A text \in StrTexts, n \in Nat \ {0} : <<text, n>> \in StringObjects /\ Text(<<text, n>>) = text
    BY DEF StringObjects, Text
<1> QED
    BY <1>1, <1>2, <1>4, <1>5, <1>6

LEMMA TableFor ==
    ASSUME NEW n \in Nat \ {0}, NEW hash, NEW X, Home(hash, n, X)
    PROVE  Len(hash) = n /\ TableRight(hash, Cardinality(X), X)
<1>1. hash \in [1 .. n -> Seq(X)]
    BY DEF Home, Filled
<1>2. Len(hash) = n
    BY <1>1
<1> QED
    BY <1>2 DEF TableRight

LEMMA ShortsThere ==
    ASSUME NEW there, there \subseteq StringObjects, IsFiniteSet(there)
    PROVE  IsFiniteSet(Shorts(there)) /\ Hashed(Shorts(there)) /\ Cardinality(Shorts(there)) \in Nat
<1>1. Shorts(there) \subseteq there
    BY DEF Shorts
<1>2. IsFiniteSet(Shorts(there))
    BY <1>1, FS_Subset
<1>3. Hashed(Shorts(there))
    BY <1>1, StringObject DEF Hashed
<1> QED
    BY <1>2, <1>3, FS_CardinalityType

LEMMA StringsInit == StringInit => StringInv
<1> SUFFICES ASSUME StringInit PROVE StringInv
    OBVIOUS
<1>1. PICK n \in MINSTRTABSIZE : st_hash = [i \in 1 .. n |-> IF i = 1 THEN <<memerrmsg>> ELSE <<>>]
    BY DEF StringInit
<1>2. n \in Nat \ {0}
    BY StringAssumption
<1>3. /\ st_mark = [o \in {memerrmsg} |-> "black"] /\ st_nuse = 1 /\ st_held = {} /\ st_sweep = {}
      /\ st_cache = [j \in 1 .. STRCACHE_M |-> memerrmsg]
    BY DEF StringInit
<1>4. DOMAIN st_mark = {memerrmsg} /\ st_mark[memerrmsg] = "black"
    BY <1>3
<1>5. IsFiniteSet({memerrmsg}) /\ Cardinality({memerrmsg}) = 1
    BY FS_Singleton
<1>6. MarksRight(st_mark, st_sweep)
    BY <1>3, <1>4, <1>5, StringObject DEF MarksRight, Shorts
<1>7. Shorts(Strings) = {memerrmsg}
    BY <1>4, StringObject DEF Shorts, Strings
<1>8. PICK S : S = {memerrmsg}
    OBVIOUS
<1>9. /\ st_hash[1] = <<memerrmsg>> /\ 1 \in 1 .. n
      /\ \A i \in 1 .. n : i # 1 => st_hash[i] = <<>>
    BY <1>1, <1>2
<1>10. /\ Len(<<memerrmsg>>) = 1 /\ <<memerrmsg>>[1] = memerrmsg /\ <<memerrmsg>> \in Seq(S)
       /\ Len(<<>>) = 0 /\ <<>> \in Seq(S)
    BY <1>8, EmptySeq
<1>11. ASSUME NEW i \in 1 .. n, NEW k \in 1 .. Len(st_hash[i])
       PROVE  i = 1 /\ k = 1 /\ st_hash[i][k] = memerrmsg
  <2>1. CASE i = 1
    <3>1. PICK s : s = <<memerrmsg>>
      OBVIOUS
    <3>2. st_hash[i] = s /\ Len(s) = 1 /\ s[1] = memerrmsg
      BY ONLY <1>9, <1>10, <2>1, <3>1
    <3>3. k = 1
      BY ONLY <3>2, k \in 1 .. Len(st_hash[i])
    <3> QED
      BY ONLY <2>1, <3>2, <3>3
  <2>2. CASE i # 1
    <3>1. k \in 1 .. 0
      BY ONLY <1>9, <1>10, <2>2, i \in 1 .. n, k \in 1 .. Len(st_hash[i])
    <3> QED
      BY ONLY <3>1
  <2> QED
    BY <2>1, <2>2
<1>12. st_hash \in [1 .. n -> Seq(S)]
    BY <1>1, <1>10
<1>13. Filled(st_hash, n, S)
  <2>1. \E i \in 1 .. n : \E k \in 1 .. Len(st_hash[i]) : st_hash[i][k] = memerrmsg
    <3>1. 1 \in 1 .. Len(st_hash[1]) /\ st_hash[1][1] = memerrmsg
      BY <1>9, <1>10
    <3> QED
      BY <1>9, <3>1
  <2> QED
    BY <1>8, <1>11, <1>12, <2>1 DEF Filled
<1>14. lmod(memerrmsg, n) = 1
  <2>1. Text(memerrmsg).hash = 0
    BY DEF Text, memerrmsg
  <2>2. 0 % n = 0
    BY <1>2
  <2> QED
    BY <2>1, <2>2 DEF lmod
<1>15. Home(st_hash, n, S)
    BY <1>11, <1>13, <1>14 DEF Home, Inside
<1>16. TableRight(st_hash, st_nuse, Shorts(Strings))
    BY <1>2, <1>3, <1>5, <1>7, <1>8, <1>15, TableFor
<1>17. /\ st_cache \in Seq(StringObjects) /\ Len(st_cache) # 0
       /\ \A j \in 1 .. Len(st_cache) : Usable(st_mark, st_cache[j])
  <2>1. STRCACHE_M \in Nat \ {0}
    BY StringAssumption
  <2>2. st_cache \in [1 .. STRCACHE_M -> StringObjects]
    BY <1>3, StringObject
  <2>3. st_cache \in Seq(StringObjects) /\ Len(st_cache) = STRCACHE_M
    BY <2>1, <2>2
  <2>4. Usable(st_mark, memerrmsg)
    BY <1>4 DEF Usable
  <2> QED
    BY <1>3, <2>1, <2>3, <2>4
<1> QED
    BY <1>3, <1>6, <1>16, <1>17 DEF StringInv

\* createstrobj's object was not there.
LEMMA Created ==
    ASSUME StringInv, NEW text \in StrTexts, text.long => <<text, MaxLong>> \notin Strings,
           ~ text.long => <<text, 1>> \notin Strings, NEW o, o = createstrobj(text).o
    PROVE  /\ Text(o) = text /\ o \in StringObjects /\ o \notin Strings /\ (~ text.long => o[2] = 1)
           /\ createstrobj(text).mark = [x \in Strings \cup {o} |-> IF x = o THEN "white" ELSE st_mark[x]]
<1> DEFINE Free(n) == <<text, n>> \notin Strings /\ \A j \in 1 .. n - 1 : <<text, j>> \in Strings
           new == CHOOSE n \in 1 .. MaxLong + 1 : Free(n)
<1>1. MaxLong \in Nat \ {0}
    BY StringAssumption
<1>2. \E n \in 1 .. MaxLong + 1 : Free(n)
  <2>1. PICK spot : spot = {n \in 1 .. MaxLong + 1 : <<text, n>> \notin Strings}
    OBVIOUS
  <2>2. spot \subseteq Nat /\ spot # {}
    BY <1>1, <2>1
  <2>3. PICK n \in spot : \A k \in spot : n <= k
    BY <2>2, LeastNumber
  <2>4. Free(n)
    BY <1>1, <2>1, <2>3
  <2> QED
    BY <2>1, <2>3, <2>4
<1>3. new \in 1 .. MaxLong + 1 /\ Free(new)
    BY <1>2
<1>4. o = <<text, new>>
    BY DEF createstrobj
<1>5. createstrobj(text).mark = [x \in Strings \cup {o} |-> IF x = o THEN "white" ELSE st_mark[x]]
    BY <1>4 DEF createstrobj
<1> HIDE DEF new
<1>6. new \in Nat \ {0}
    BY <1>1, <1>3
<1>7. ~ text.long => new = 1
    BY <1>1, <1>3, <1>6
<1> QED
    BY <1>3, <1>4, <1>5, <1>6, <1>7, StringObject

\* What the string given to the program may change, but for the cache.
Given(mark, sweeping, hash, nuse, o) ==
    /\ MarksRight(mark, sweeping)
    /\ TableRight(hash, nuse, Shorts(DOMAIN mark))
    /\ Usable(mark, o)
    /\ \A x : Usable(st_mark, x) => Usable(mark, x)

\* One that was not there.
LEMMA NewMarks ==
    ASSUME StringInv, NEW o \in StringObjects, o \notin Strings, ~ Text(o).long => o[2] = 1,
           NEW mark, mark = [x \in Strings \cup {o} |-> IF x = o THEN "white" ELSE st_mark[x]]
    PROVE  /\ MarksRight(mark, st_sweep) /\ Usable(mark, o)
           /\ \A x : Usable(st_mark, x) => Usable(mark, x)
           /\ Shorts(DOMAIN mark) = IF Text(o).long THEN Shorts(Strings) ELSE Shorts(Strings) \cup {o}
<1>1. PICK A : A = Strings
    OBVIOUS
<1>2. /\ st_mark \in [A -> {"white", "black", "dead"}]
      /\ A \subseteq StringObjects /\ IsFiniteSet(A)
      /\ \A x \in Shorts(A) : x[2] = 1
      /\ memerrmsg \in A /\ st_mark[memerrmsg] = "black"
      /\ st_sweep \subseteq A \ {memerrmsg}
      /\ \A x \in A : st_mark[x] = "dead" => x \in st_sweep
    BY <1>1 DEF StringInv, MarksRight, Strings
<1>3. DOMAIN mark = A \cup {o} /\ mark[o] = "white" /\ \A x \in A : mark[x] = st_mark[x]
    BY <1>1
<1>4. mark \in [A \cup {o} -> {"white", "black", "dead"}]
    BY <1>1, <1>2
<1>5. IsFiniteSet(A \cup {o})
    BY <1>2, FS_AddElement
<1>6. Shorts(A \cup {o}) = IF Text(o).long THEN Shorts(A) ELSE Shorts(A) \cup {o}
    BY DEF Shorts
<1>7. \A x \in Shorts(A \cup {o}) : x[2] = 1
    BY <1>2 DEF Shorts
<1>8. MarksRight(mark, st_sweep)
    BY <1>1, <1>2, <1>3, <1>4, <1>5, <1>7 DEF MarksRight
<1> QED
    BY <1>1, <1>2, <1>3, <1>6, <1>8 DEF Usable, Strings

\* Where in a chain a text is.
Equals(list, text) == {k \in DOMAIN list : Text(list[k]) = text}

\* A short string is in the chain of its text, the only one with that.
LEMMA Looked ==
    ASSUME StringInv, NEW text \in StrTexts, ~ text.long, NEW x, Text(x) = text,
           NEW list, list = st_hash[lmod(x, tbsize)],
           NEW equal, equal = Equals(list, text)
    PROVE  /\ equal # {} => list[Min(equal)] = <<text, 1>> /\ <<text, 1>> \in Strings
           /\ equal = {} => <<text, 1>> \notin Strings
<1>0. PICK S : S = Shorts(Strings)
    OBVIOUS
<1>1. PICK n \in Nat \ {0} : n = tbsize /\ S = Shorts(Strings) /\ Home(st_hash, n, S)
    BY <1>0 DEF StringInv, TableRight, tbsize
<1>2. /\ Strings \subseteq StringObjects /\ IsFiniteSet(Strings)
      /\ \A o \in S : o[2] = 1
    BY <1>1 DEF StringInv, MarksRight, Strings
<1>3. PICK y : y = <<text, 1>>
    OBVIOUS
<1>4. Text(y) = text /\ y \in StringObjects
    BY <1>3, StringObject
<1>5. PICK i \in 1 .. n : i = lmod(x, n) /\ i = lmod(y, n)
  <2>1. Hashed({y})
    BY <1>4, StringObject DEF Hashed
  <2>2. lmod(y, n) \in 1 .. n
    BY <2>1, ChainThere
  <2> QED
    BY <1>4, <2>2 DEF lmod
<1>6. list = st_hash[i]
    BY <1>1, <1>5
<1>7. list \in Seq(S) /\ DOMAIN list = 1 .. Len(list)
  <2>1. list \in Seq(S)
    BY <1>1, <1>6 DEF Home, Filled
  <2> QED
    BY <2>1
<1>8. \A k \in 1 .. Len(list) : list[k] \in S
    BY ONLY <1>7
<1>9. CASE equal # {}
  <2>1. equal \subseteq Nat
    BY <1>7 DEF Equals
  <2>2. PICK q \in equal : \A k \in equal : q <= k
    BY <1>9, <2>1, LeastNumber
  <2>3. Min(equal) \in equal
    BY <2>2 DEF Min
  <2>4. PICK k \in 1 .. Len(list) : k = Min(equal) /\ Text(list[k]) = text
    BY <1>7, <2>3 DEF Equals
  <2>5. list[k] \in Strings /\ list[k][2] = 1
    BY <1>1, <1>2, <1>8 DEF Shorts
  <2>6. list[k] = <<text, 1>>
    BY <1>2, <2>4, <2>5, StringObject
  <2> QED
    BY <1>9, <2>4, <2>5, <2>6
<1>10. CASE equal = {}
  <2>1. SUFFICES ASSUME y \in Strings PROVE FALSE
    BY <1>3, <1>10
  <2>2. y \in S
    BY <1>1, <1>4, <2>1 DEF Shorts
  <2>3. PICK j \in 1 .. n : Inside(st_hash, j, y)
    BY <1>1, <2>2 DEF Home, Filled, Inside
  <2>4. j = i
    BY <1>1, <1>5, <2>3 DEF Home
  <2>5. PICK k \in 1 .. Len(list) : list[k] = y
    BY <1>6, <2>3, <2>4 DEF Inside
  <2> QED
    BY <1>4, <1>7, <1>10, <2>5 DEF Equals
<1> QED
    BY <1>9, <1>10

\* The string the program is given.
LEMMA GivesString ==
    ASSUME StringInv, NEW text \in StrTexts, text.long => <<text, MaxLong>> \notin Strings,
           NEW r, r = luaS_newlstr(text)
    PROVE  Given(r.mark, st_sweep, r.hash, r.nuse, r.o)
<1>1. /\ MarksRight(st_mark, st_sweep) /\ TableRight(st_hash, st_nuse, Shorts(Strings))
      /\ text.long \in BOOLEAN
    BY StringAssumption DEF StringInv
<1>2. PICK new : new = createstrobj(text)
    OBVIOUS
<1>3. PICK S : S = Shorts(Strings)
    OBVIOUS
<1>4. PICK n \in Nat \ {0} : n = tbsize /\ Home(st_hash, n, S) /\ st_nuse = Cardinality(S)
    BY <1>1, <1>3 DEF TableRight, tbsize
<1>5. IsFiniteSet(S) /\ Hashed(S)
    BY <1>1, <1>3, ShortsThere DEF MarksRight, Strings
<1>6. CASE text.long
  <2>1. r.o = new.o /\ r.mark = new.mark /\ r.hash = st_hash /\ r.nuse = st_nuse
    BY <1>2, <1>6 DEF luaS_newlstr
  <2>2. /\ Text(new.o) = text /\ new.o \in StringObjects /\ new.o \notin Strings
        /\ new.mark = [x \in Strings \cup {new.o} |-> IF x = new.o THEN "white" ELSE st_mark[x]]
    <3>1. (text.long => <<text, MaxLong>> \notin Strings) /\ (~ text.long => <<text, 1>> \notin Strings)
      BY <1>6
    <3>2. PICK o : o = new.o
      OBVIOUS
    <3>3. /\ Text(o) = text /\ o \in StringObjects /\ o \notin Strings
          /\ createstrobj(text).mark = [x \in Strings \cup {o} |-> IF x = o THEN "white" ELSE st_mark[x]]
      BY <1>2, <3>1, <3>2, Created
    <3> QED
      BY ONLY <1>2, <3>2, <3>3
  <2>3. /\ MarksRight(new.mark, st_sweep) /\ Usable(new.mark, new.o)
        /\ \A x : Usable(st_mark, x) => Usable(new.mark, x)
        /\ Shorts(DOMAIN new.mark) = Shorts(Strings)
    BY <1>6, <2>2, NewMarks
  <2> QED
    BY ONLY <1>1, <2>1, <2>3 DEF Given
<1>7. CASE ~ text.long
  <2>1. Text(new.o) = text
    BY <1>2 DEF createstrobj, Text
  <2>2. PICK list, equal, found, wide :
            /\ list = st_hash[lmod(new.o, tbsize)]
            /\ equal = Equals(list, text)
            /\ found = list[Min(equal)]
            /\ wide = IF st_nuse >= tbsize THEN luaS_resize(st_hash, tbsize * 2) ELSE st_hash
    OBVIOUS
  <2>3. r = IF equal # {}
              THEN [o |-> found, mark |-> resurrected(found), hash |-> st_hash, nuse |-> st_nuse]
              ELSE [o |-> new.o, mark |-> new.mark, nuse |-> st_nuse + 1,
                    hash |-> Put(wide, lmod(new.o, Len(wide)), new.o)]
    BY <1>2, <1>7, <2>2 DEF luaS_newlstr, internshrstr, Put, Equals
  <2>4. IF equal # {} THEN found = <<text, 1>> /\ found \in Strings ELSE <<text, 1>> \notin Strings
    <3>1. PICK x : x = new.o /\ Text(x) = text /\ list = st_hash[lmod(x, tbsize)]
      BY <2>1, <2>2
    <3>2. /\ equal # {} => list[Min(equal)] = <<text, 1>> /\ <<text, 1>> \in Strings
          /\ equal = {} => <<text, 1>> \notin Strings
      <4>1. equal = Equals(list, text)
        BY <2>2
      <4> QED
        BY <1>7, <3>1, <4>1, Looked
    <3>3. found = list[Min(equal)]
      BY <2>2
    <3> QED
      BY ONLY <3>2, <3>3
  <2>5. CASE equal # {}
    <3>1. r.o = found /\ r.mark = resurrected(found) /\ r.hash = st_hash /\ r.nuse = st_nuse
      BY <2>3, <2>5
    <3>2. found \in DOMAIN st_mark
      BY <2>4, <2>5 DEF Strings
    <3>3. DOMAIN resurrected(found) = DOMAIN st_mark
      BY DEF resurrected
    <3>4. /\ resurrected(found) \in [DOMAIN st_mark -> {"white", "black", "dead"}]
          /\ \A x \in DOMAIN st_mark : resurrected(found)[x] =
                IF x = found /\ isdead(x) THEN "white" ELSE st_mark[x]
      BY <1>1, <3>2 DEF resurrected, isdead, MarksRight
    <3>5. MarksRight(resurrected(found), st_sweep)
      BY <1>1, <3>3, <3>4 DEF MarksRight, isdead
    <3>6. Usable(resurrected(found), found) /\ \A x : Usable(st_mark, x) => Usable(resurrected(found), x)
      BY <3>2, <3>3, <3>4 DEF Usable, isdead
    <3> QED
      BY <1>1, <3>1, <3>3, <3>5, <3>6 DEF Given, Strings
  <2>6. CASE equal = {}
    <3>1. r.o = new.o /\ r.mark = new.mark /\ r.nuse = st_nuse + 1 /\ r.hash = Put(wide, lmod(new.o, Len(wide)), new.o)
      BY <2>3, <2>6
    <3>2. /\ new.o \in StringObjects /\ new.o \notin Strings /\ new.o[2] = 1
          /\ new.mark = [x \in Strings \cup {new.o} |-> IF x = new.o THEN "white" ELSE st_mark[x]]
      BY <1>2, <1>7, <2>4, <2>6, Created
    <3>3. /\ MarksRight(new.mark, st_sweep) /\ Usable(new.mark, new.o)
          /\ \A x : Usable(st_mark, x) => Usable(new.mark, x)
          /\ Shorts(DOMAIN new.mark) = S \cup {new.o}
      BY <1>3, <1>7, <2>1, <3>2, NewMarks
    <3>4. PICK m \in Nat \ {0} : m = Len(wide) /\ Home(wide, m, S)
      <4>1. CASE st_nuse >= tbsize
        <5>1. PICK m \in Nat \ {0} : m = n * 2
          BY <1>4
        <5>2. wide = luaS_resize(st_hash, m)
          BY <1>4, <2>2, <4>1, <5>1
        <5>3. Home(wide, m, S)
          BY <1>4, <1>5, <5>2, Resized
        <5> QED
          BY <5>3, TableFor
      <4>2. CASE ~ (st_nuse >= tbsize)
        BY <1>4, <2>2, <4>2 DEF tbsize
      <4> QED
        BY <4>1, <4>2
    <3>5. new.o \notin S /\ Text(new.o).hash \in Nat
      BY <1>3, <3>2, StringObject DEF Shorts
    <3>6. Home(r.hash, m, S \cup {new.o})
      BY <3>1, <3>4, <3>5, HomeMore
    <3>7. Cardinality(S \cup {new.o}) = st_nuse + 1
      BY <1>4, <1>5, <3>5, FS_AddElement
    <3>8. TableRight(r.hash, r.nuse, S \cup {new.o})
      BY <3>1, <3>6, <3>7, TableFor
    <3> QED
      BY ONLY <3>1, <3>3, <3>8 DEF Given
  <2> QED
    BY <2>5, <2>6
<1> QED
    BY <1>1, <1>6, <1>7

LEMMA Holds ==
    ASSUME StringInv, NEW r, Given(r.mark, st_sweep, r.hash, r.nuse, r.o), gets(r)
    PROVE  /\ MarksRight(st_mark', st_sweep') /\ TableRight(st_hash', st_nuse', Shorts(Strings)')
           /\ \A o \in st_held' : Usable(st_mark', o)
           /\ \A x : Usable(st_mark, x) => Usable(st_mark', x)
BY DEF StringInv, Given, gets, Strings

LEMMA StringsNewlstr == ASSUME StringInv, NEW text \in StrTexts, newlstr(text) PROVE StringInv'
<1>1. PICK r : r = luaS_newlstr(text)
    OBVIOUS
<1>2. gets(r) /\ UNCHANGED st_cache /\ (text.long => <<text, MaxLong>> \notin Strings)
    BY <1>1, StringAssumption DEF newlstr
<1>3. Given(r.mark, st_sweep, r.hash, r.nuse, r.o)
    BY <1>1, <1>2, GivesString
<1> QED
    BY <1>2, <1>3, Holds DEF StringInv, Strings

\* The last entry of the cache makes room.
LEMMA CacheFront ==
    ASSUME NEW S, NEW s \in Seq(S), Len(s) # 0, NEW o \in S
    PROVE  /\ <<o>> \o Front(s) \in Seq(S) /\ Len(<<o>> \o Front(s)) = Len(s)
           /\ \A j \in 1 .. Len(s) : (<<o>> \o Front(s))[j] = IF j = 1 THEN o ELSE s[j - 1]
<1>1. PICK n \in Nat : n = Len(s) /\ n # 0
    OBVIOUS
<1>2. PICK t : t = SubSeq(s, 1, n - 1)
    OBVIOUS
<1>3. t \in Seq(S) /\ Len(t) = n - 1 /\ \A j \in 1 .. n - 1 : t[j] = s[j]
    BY <1>1, <1>2
<1>4. t = Front(s)
    BY <1>1, <1>2 DEF Front
<1>5. S \cup {o} = S
    OBVIOUS
<1>6. /\ <<o>> \o t \in Seq(S) /\ Len(<<o>> \o t) = Len(t) + 1
      /\ (<<o>> \o t)[1] = o /\ \A k \in 1 .. Len(t) : (<<o>> \o t)[k + 1] = t[k]
    BY <1>3, <1>5, FrontAt
<1>7. ASSUME NEW j \in 1 .. n PROVE (<<o>> \o t)[j] = IF j = 1 THEN o ELSE s[j - 1]
  <2>1. CASE j = 1
    BY <1>6, <2>1
  <2>2. CASE j # 1
    <3>1. j - 1 \in 1 .. n - 1 /\ (j - 1) + 1 = j
      BY <1>1, <2>2
    <3> QED
      BY <1>3, <1>6, <2>2, <3>1
  <2> QED
    BY <2>1, <2>2
<1> QED
    BY <1>1, <1>3, <1>4, <1>6, <1>7

LEMMA StringsNew == ASSUME StringInv, NEW text \in StrTexts, ~ text.long, luaS_new(text) PROVE StringInv'
<1>1. PICK hits, r : /\ hits = {j \in DOMAIN st_cache : Text(st_cache[j]) = text}
                     /\ r = luaS_newlstr(text)
    OBVIOUS
<1>2. /\ st_cache \in Seq(StringObjects) /\ Len(st_cache) \in Nat \ {0} /\ DOMAIN st_cache = 1 .. Len(st_cache)
      /\ \A j \in 1 .. Len(st_cache) : Usable(st_mark, st_cache[j])
  <2>1. st_cache \in Seq(StringObjects) /\ Len(st_cache) # 0
    BY DEF StringInv
  <2> QED
    BY <2>1 DEF StringInv
<1>3. CASE hits # {}
  <2>1. /\ st_held' = st_held \cup {st_cache[Min(hits)]}
        /\ UNCHANGED <<st_mark, st_hash, st_nuse, st_cache, st_sweep>>
    BY <1>1, <1>3 DEF luaS_new
  <2>2. hits \subseteq Nat
    BY <1>1, <1>2
  <2>3. PICK q \in hits : \A k \in hits : q <= k
    BY <1>3, <2>2, LeastNumber
  <2>4. Min(hits) \in hits
    BY <2>3 DEF Min
  <2>5. Usable(st_mark, st_cache[Min(hits)])
    BY <1>1, <1>2, <2>4
  <2> QED
    BY <2>1, <2>5 DEF StringInv, Strings
<1>4. CASE hits = {}
  <2>1. gets(r) /\ st_cache' = <<r.o>> \o Front(st_cache)
    BY <1>1, <1>4 DEF luaS_new
  <2>2. Given(r.mark, st_sweep, r.hash, r.nuse, r.o)
    BY <1>1, GivesString
  <2>3. /\ MarksRight(st_mark', st_sweep') /\ TableRight(st_hash', st_nuse', Shorts(Strings)')
        /\ \A o \in st_held' : Usable(st_mark', o)
        /\ \A x : Usable(st_mark, x) => Usable(st_mark', x)
    BY <2>1, <2>2, Holds
  <2>4. Usable(st_mark', r.o)
    BY <2>1, <2>2 DEF Given, gets
  <2>5. r.o \in StringObjects
    BY <2>3, <2>4 DEF Usable, MarksRight
  <2>6. /\ st_cache' \in Seq(StringObjects) /\ Len(st_cache') = Len(st_cache)
        /\ \A j \in 1 .. Len(st_cache) : st_cache'[j] = IF j = 1 THEN r.o ELSE st_cache[j - 1]
    <3>1. PICK s, o : s = st_cache /\ o = r.o
      OBVIOUS
    <3>2. s \in Seq(StringObjects) /\ Len(s) # 0 /\ o \in StringObjects
      BY <1>2, <2>5, <3>1
    <3>3. /\ <<o>> \o Front(s) \in Seq(StringObjects) /\ Len(<<o>> \o Front(s)) = Len(s)
          /\ \A j \in 1 .. Len(s) : (<<o>> \o Front(s))[j] = IF j = 1 THEN o ELSE s[j - 1]
      BY ONLY <3>2, CacheFront
    <3> QED
      BY ONLY <2>1, <3>1, <3>3
  <2>7. ASSUME NEW j \in 1 .. Len(st_cache') PROVE Usable(st_mark', st_cache'[j])
    <3>1. j \in 1 .. Len(st_cache)
      BY <2>6
    <3>2. CASE j = 1
      BY <2>4, <2>6, <3>1, <3>2
    <3>3. CASE j # 1
      <4>1. j - 1 \in 1 .. Len(st_cache)
        BY <1>2, <3>1, <3>3
      <4> QED
        BY <1>2, <2>3, <2>6, <3>1, <3>3, <4>1
    <3> QED
      BY <3>2, <3>3
  <2> QED
    BY <1>2, <2>3, <2>6, <2>7 DEF StringInv
<1> QED
    BY <1>3, <1>4

LEMMA StringsDrops == ASSUME StringInv, NEW o, drops(o) PROVE StringInv'
BY DEF StringInv, drops, Strings

LEMMA StringsMarks == ASSUME StringInv, NEW o \in st_held, marks(o) PROVE StringInv'
<1>1. /\ st_mark' = [st_mark EXCEPT ![o] = "black"] /\ st_sweep' = st_sweep
      /\ UNCHANGED <<st_hash, st_nuse, st_cache, st_held>>
    BY DEF marks
<1>2. MarksRight(st_mark, st_sweep) /\ o \in DOMAIN st_mark
    BY DEF StringInv, Usable
<1>3. /\ DOMAIN st_mark' = DOMAIN st_mark
      /\ \A x \in DOMAIN st_mark : st_mark'[x] = IF x = o THEN "black" ELSE st_mark[x]
      /\ st_mark' \in [DOMAIN st_mark -> {"white", "black", "dead"}]
    BY <1>1, <1>2 DEF MarksRight
<1>4. MarksRight(st_mark', st_sweep')
    BY <1>1, <1>2, <1>3 DEF MarksRight
<1>5. \A x : Usable(st_mark, x) => Usable(st_mark', x)
    BY <1>2, <1>3 DEF Usable
<1> QED
    BY <1>1, <1>3, <1>4, <1>5 DEF StringInv, Strings

LEMMA StringsAtomic == ASSUME StringInv, atomicStrings PROVE StringInv'
<1>1. PICK mark : mark = [o \in Strings |-> IF o \in st_held THEN "black" ELSE st_mark[o]]
    OBVIOUS
<1>2. /\ st_sweep = {} /\ st_sweep' = Strings \ {memerrmsg}
      /\ st_cache' = [j \in DOMAIN st_cache |-> IF mark[st_cache[j]] = "white" THEN memerrmsg ELSE st_cache[j]]
      /\ st_mark' = [o \in Strings |-> IF mark[o] = "white" THEN "dead" ELSE mark[o]]
      /\ UNCHANGED <<st_hash, st_nuse, st_held>>
    BY <1>1 DEF atomicStrings, luaS_clearcache
<1>3. /\ MarksRight(st_mark, st_sweep) /\ \A o \in st_held : Usable(st_mark, o)
      /\ st_cache \in Seq(StringObjects) /\ Len(st_cache) # 0
      /\ \A j \in 1 .. Len(st_cache) : Usable(st_mark, st_cache[j])
    BY DEF StringInv
<1>4. /\ DOMAIN st_mark' = Strings
      /\ \A o \in Strings : mark[o] = (IF o \in st_held THEN "black" ELSE st_mark[o])
      /\ \A o \in Strings : st_mark'[o] = (IF mark[o] = "white" THEN "dead" ELSE mark[o])
    BY <1>1, <1>2
<1>5. \A o \in Strings : mark[o] \in {"white", "black"}
    BY <1>2, <1>3, <1>4 DEF MarksRight, Strings
<1>6. memerrmsg \in Strings /\ mark[memerrmsg] = "black" /\ st_mark'[memerrmsg] = "black"
  <2>1. memerrmsg \in Strings /\ st_mark[memerrmsg] = "black"
    BY <1>3 DEF MarksRight, Strings
  <2> QED
    BY <1>4, <2>1
<1>7. st_mark' \in [Strings -> {"white", "black", "dead"}]
    BY <1>2, <1>5
<1>8. MarksRight(st_mark', st_sweep')
    BY <1>2, <1>3, <1>4, <1>6, <1>7 DEF MarksRight, Strings
<1>9. ASSUME NEW o \in Strings, mark[o] # "white" PROVE Usable(st_mark', o)
    BY <1>4, <1>5, <1>9 DEF Usable
<1>10. \A o \in st_held' : Usable(st_mark', o)
  <2> TAKE o \in st_held'
  <2>1. o \in Strings /\ o \in st_held
    BY <1>2, <1>3 DEF Usable, Strings
  <2>2. mark[o] = "black"
    BY <1>4, <2>1
  <2> QED
    BY <1>9, <2>1, <2>2
<1>11. PICK c \in Nat \ {0} : c = Len(st_cache) /\ DOMAIN st_cache = 1 .. c /\ \A j \in 1 .. c : st_cache[j] \in StringObjects
    BY <1>3
<1>12. /\ \A j \in 1 .. c : st_cache'[j] = IF mark[st_cache[j]] = "white" THEN memerrmsg ELSE st_cache[j]
       /\ st_cache' \in [1 .. c -> StringObjects]
    BY <1>2, <1>11, StringObject
<1>13. st_cache' \in Seq(StringObjects) /\ Len(st_cache') = c
    BY <1>12
<1>14. ASSUME NEW j \in 1 .. c PROVE Usable(st_mark', st_cache'[j])
  <2>1. st_cache[j] \in Strings
    BY <1>3, <1>11 DEF Usable, Strings
  <2>2. CASE mark[st_cache[j]] = "white"
    BY <1>6, <1>9, <1>12, <2>2
  <2>3. CASE mark[st_cache[j]] # "white"
    BY <1>9, <1>12, <2>1, <2>3
  <2> QED
    BY <2>2, <2>3
<1>15. TableRight(st_hash', st_nuse', Shorts(Strings)')
    BY <1>2, <1>4 DEF StringInv, Strings
<1> QED
    BY <1>8, <1>10, <1>13, <1>14, <1>15 DEF StringInv

\* A table with few strings is halved, and never to nothing.
LEMMA ChecksSizes ==
    ASSUME NEW hash, NEW nuse, NEW X, IsFiniteSet(X), Hashed(X), TableRight(hash, nuse, X)
    PROVE  TableRight(checkSizes(hash, nuse), nuse, X)
<1>1. PICK n \in Nat \ {0} : n = Len(hash) /\ Home(hash, n, X)
    BY DEF TableRight
<1>2. nuse = Cardinality(X) /\ nuse \in Nat
    BY FS_CardinalityType DEF TableRight
<1>3. CASE nuse < n \div 4
  <2>1. PICK m \in Nat \ {0} : m = n \div 2
    BY <1>2, <1>3
  <2>2. checkSizes(hash, nuse) = luaS_resize(hash, m)
    BY <1>1, <1>3, <2>1 DEF checkSizes
  <2>3. Home(luaS_resize(hash, m), m, X)
    BY <1>1, Resized
  <2> QED
    BY <1>2, <2>2, <2>3, TableFor
<1>4. CASE ~ (nuse < n \div 4)
    BY <1>1, <1>4 DEF checkSizes
<1> QED
    BY <1>3, <1>4

LEMMA StringsSweep == ASSUME StringInv, NEW o \in st_sweep, sweep(o) PROVE StringInv'
<1>1. /\ MarksRight(st_mark, st_sweep) /\ TableRight(st_hash, st_nuse, Shorts(Strings))
      /\ \A x \in st_held : Usable(st_mark, x)
      /\ \A j \in 1 .. Len(st_cache) : Usable(st_mark, st_cache[j])
    BY DEF StringInv
<1>2. PICK removed, hash, nuse :
          /\ removed = (isdead(o) /\ ~ Text(o).long)
          /\ hash = (IF removed THEN luaS_remove(o) ELSE st_hash)
          /\ nuse = (IF removed THEN st_nuse - 1 ELSE st_nuse)
    OBVIOUS
<1>3. /\ st_mark' = IF isdead(o) THEN [x \in Strings \ {o} |-> st_mark[x]]
                    ELSE [st_mark EXCEPT ![o] = "white"]
      /\ st_nuse' = nuse
      /\ st_hash' = (IF st_sweep = {o} THEN checkSizes(hash, nuse) ELSE hash)
      /\ st_sweep' = st_sweep \ {o}
      /\ UNCHANGED <<st_cache, st_held>>
    BY <1>2 DEF sweep
<1>4. o \in Strings /\ o # memerrmsg /\ Strings \subseteq StringObjects /\ IsFiniteSet(Strings)
    BY <1>1 DEF MarksRight, Strings
<1>5. PICK left : left = IF isdead(o) THEN Strings \ {o} ELSE Strings
    OBVIOUS
<1>6. /\ DOMAIN st_mark' = left /\ left \subseteq Strings
      /\ \A x \in left : st_mark'[x] = IF x = o THEN "white" ELSE st_mark[x]
      /\ st_mark' \in [left -> {"white", "black", "dead"}]
    BY <1>1, <1>3, <1>4, <1>5 DEF MarksRight, Strings
<1>7. IsFiniteSet(left) /\ left \subseteq StringObjects
    BY <1>4, <1>6, FS_Subset
<1>8. MarksRight(st_mark', st_sweep')
  <2>1. \A x \in Shorts(left) : x[2] = 1
    BY <1>1, <1>6 DEF MarksRight, Shorts, Strings
  <2>2. memerrmsg \in left /\ st_mark'[memerrmsg] = "black"
    BY <1>1, <1>4, <1>5, <1>6 DEF MarksRight, Strings
  <2>3. st_sweep' \subseteq left \ {memerrmsg}
    BY <1>1, <1>3, <1>5 DEF MarksRight, Strings
  <2>4. \A x \in left : st_mark'[x] = "dead" => x \in st_sweep'
    BY <1>1, <1>3, <1>6 DEF MarksRight, Strings
  <2> QED
    BY <1>6, <1>7, <2>1, <2>2, <2>3, <2>4 DEF MarksRight
<1>9. \A x : Usable(st_mark, x) => Usable(st_mark', x)
    BY <1>5, <1>6 DEF Usable, isdead, Strings
<1>10. PICK S, X : S = Shorts(Strings) /\ X = Shorts(left)
    OBVIOUS
<1>11. IsFiniteSet(S) /\ IsFiniteSet(X) /\ Hashed(X)
    BY <1>4, <1>7, <1>10, ShortsThere
<1>12. TableRight(hash, nuse, X)
  <2>1. CASE removed
    <3>1. o \in S /\ X = S \ {o}
      BY <1>2, <1>4, <1>5, <1>10, <2>1 DEF Shorts
    <3>2. PICK n \in Nat \ {0} : n = tbsize /\ Home(st_hash, n, S) /\ st_nuse = Cardinality(S)
      BY <1>1, <1>10 DEF TableRight, tbsize
    <3>3. hash = Unchained(st_hash, lmod(o, n), o)
      BY <1>2, <2>1, <3>2 DEF luaS_remove, Unchained
    <3>4. Home(hash, n, X)
      BY <3>1, <3>2, <3>3, HomeLess
    <3>5. Cardinality(X) = nuse
      BY <1>2, <1>11, <2>1, <3>1, <3>2, FS_RemoveElement
    <3> QED
      BY <3>4, <3>5, TableFor
  <2>2. CASE ~ removed
    <3>1. X = S
      BY <1>2, <1>4, <1>5, <1>10, <2>2 DEF Shorts
    <3> QED
      BY <1>1, <1>2, <1>10, <2>2, <3>1
  <2> QED
    BY <2>1, <2>2
<1>13. TableRight(st_hash', st_nuse', X)
  <2>1. TableRight(checkSizes(hash, nuse), nuse, X)
    BY <1>11, <1>12, ChecksSizes
  <2> QED
    BY <1>3, <1>12, <2>1
<1>14. Shorts(Strings)' = X
    BY <1>6, <1>10 DEF Strings, Shorts
<1> QED
    BY <1>1, <1>3, <1>8, <1>9, <1>13, <1>14 DEF StringInv

LEMMA StringsStep == ASSUME StringInv, [StringNext]_stringVars PROVE StringInv'
<1>1. ASSUME NEW text \in StrTexts, newlstr(text) PROVE StringInv'
    BY <1>1, StringsNewlstr
<1>2. ASSUME NEW text \in StrTexts, ~ text.long, luaS_new(text) PROVE StringInv'
    BY <1>2, StringsNew
<1>3. ASSUME NEW o \in st_held, drops(o) PROVE StringInv'
    BY <1>3, StringsDrops
<1>4. ASSUME NEW o \in st_held, marks(o) PROVE StringInv'
    BY <1>4, StringsMarks
<1>5. CASE atomicStrings
    BY <1>5, StringsAtomic
<1>6. ASSUME NEW o \in st_sweep, sweep(o) PROVE StringInv'
    BY <1>6, StringsSweep
<1>7. CASE UNCHANGED stringVars
    BY <1>7 DEF stringVars, StringInv, Strings
<1> QED
    BY <1>1, <1>2, <1>3, <1>4, <1>5, <1>6, <1>7 DEF StringNext

LEMMA StringsShow == StringInv => StringsInterned
<1> SUFFICES ASSUME StringInv PROVE StringsInterned
    OBVIOUS
<1>1. PICK S : S = Shorts(Strings)
    OBVIOUS
<1>2. /\ MarksRight(st_mark, st_sweep) /\ TableRight(st_hash, st_nuse, S)
      /\ \A o \in st_held : o \in Strings /\ ~ isdead(o)
      /\ st_cache \in Seq(StringObjects)
      /\ \A j \in 1 .. Len(st_cache) : st_cache[j] \in Strings /\ ~ isdead(st_cache[j])
    BY <1>1 DEF StringInv, Usable, Strings, isdead
<1>3. ASSUME NEW a \in st_held, NEW b \in st_held PROVE eqstr(a, b) <=> Text(a) = Text(b)
  <2>1. /\ a \in Strings /\ b \in Strings /\ a \in StringObjects /\ b \in StringObjects
        /\ (~ Text(a).long => a[2] = 1) /\ (~ Text(b).long => b[2] = 1)
    BY <1>2 DEF MarksRight, Strings, Shorts
  <2>2. a = <<Text(a), a[2]>> /\ b = <<Text(b), b[2]>>
    BY <2>1, StringObject
  <2>3. CASE Text(a).long
    BY <2>3 DEF eqstr
  <2>4. CASE ~ Text(a).long
    <3>1. Text(a) = Text(b) => a = b
      BY <2>1, <2>2, <2>4
    <3> QED
      BY <2>4, <3>1 DEF eqstr
  <2> QED
    BY <2>3, <2>4
<1>4. \A j \in DOMAIN st_cache : st_cache[j] \in Strings /\ ~ isdead(st_cache[j])
  <2>1. DOMAIN st_cache = 1 .. Len(st_cache)
    BY <1>2
  <2> QED
    BY <1>2, <2>1
<1>5. PICK n \in Nat \ {0} : n = tbsize /\ Home(st_hash, n, S) /\ st_nuse = Cardinality(S)
    BY <1>2 DEF TableRight, tbsize
<1>6. ASSUME NEW i \in 1 .. tbsize,
             NEW here, here = {o \in Strings : ~ Text(o).long /\ lmod(o, tbsize) = i}
      PROVE  Range(st_hash[i]) = here /\ Len(st_hash[i]) = Cardinality(here)
  <2>1. here = Belong(S, n, i) /\ i \in 1 .. n
    BY <1>1, <1>5, <1>6 DEF Shorts, Belong
  <2> QED
    BY <1>5, <2>1, HomeChain
<1>7. S = {o \in Strings : ~ Text(o).long}
    BY <1>1 DEF Shorts
<1> QED
    BY <1>2, <1>3, <1>4, <1>5, <1>6, <1>7 DEF StringsInterned

\* For any texts, sizes of the table and of the cache, and every order of calls and of the
\* collector's steps: short strings are equal exactly if they are one object, each is once in
\* its chain and counted, and no string the program or the cache may use is freed.
THEOREM StringsAreOne == StringSpec => []StringsInterned
<1>1. StringSpec => []StringInv
    BY StringsInit, StringsStep, PTL DEF StringSpec
<1> QED
    BY <1>1, StringsShow, PTL
=================================================================================
