------------------------------ MODULE TerminalProofs ----------------------------
(***************************************************************************)
(* For any number of sockets, sessions and packets: a session keeps its    *)
(* packets, of either direction, in order and all of them, whichever       *)
(* sockets come and break while it lives.                                  *)
(***************************************************************************)
EXTENDS Terminal, TLAPS, SequenceTheorems, WellFoundedInduction

---------------------------------------------------------------------------------
(* Sending.  The state is: the session of each packet sent, the packets    *)
(* given, and of each session those it keeps.                              *)

\* K are the packets a session keeps, N the sessions of those sent, G those given.
Numbers(N, G, K) ==
    /\ \A i \in 1 .. Len(G) : G[i] \in 1 .. Len(N)
    /\ \A sid \in 1 .. Len(K) : \A i \in 1 .. Len(K[sid]) :
          K[sid][i] \in 1 .. Len(N) /\ N[K[sid][i]] = sid

GivenInOrder(N, G) ==
    \A i, j \in 1 .. Len(G) : i < j /\ N[G[i]] = N[G[j]] => G[i] < G[j]

KeptInOrder(N, G, K) ==
    \A sid \in 1 .. Len(K) :
        /\ \A i, j \in 1 .. Len(K[sid]) : i < j => K[sid][i] < K[sid][j]
        /\ \A i \in 1 .. Len(G), j \in 1 .. Len(K[sid]) : N[G[i]] = sid => G[i] < K[sid][j]

NoneLost(N, G, K) ==
    \A n \in 1 .. Len(N) :
        /\ N[n] \in 1 .. Len(K)
        /\ \/ \E i \in 1 .. Len(G) : G[i] = n
           \/ \E j \in 1 .. Len(K[N[n]]) : K[N[n]][j] = n

SendInv(N, G, K) ==
    /\ N \in Seq(Nat) /\ G \in Seq(Nat) /\ K \in Seq(Seq(Nat))
    /\ Numbers(N, G, K) /\ GivenInOrder(N, G) /\ KeptInOrder(N, G, K) /\ NoneLost(N, G, K)

\* A packet is given directly, of a session that keeps none.
LEMMA SendsDirect ==
    ASSUME NEW N, NEW G, NEW K, SendInv(N, G, K), NEW sid \in 1 .. Len(K), Len(K[sid]) = 0
    PROVE  SendInv(Append(N, sid), Append(G, Len(N) + 1), K)
<1>0. N \in Seq(Nat) /\ G \in Seq(Nat) /\ K \in Seq(Seq(Nat)) /\ Len(N) + 1 \in Nat /\ sid \in Nat
    BY DEF SendInv
<1>i. Len(N) \in Nat /\ Len(G) \in Nat /\ Len(K) \in Nat /\ sid \in Nat
    BY <1>0
<1>n. Numbers(N, G, K) /\ GivenInOrder(N, G) /\ KeptInOrder(N, G, K) /\ NoneLost(N, G, K)
    BY DEF SendInv
<1>1. PICK N2, G2 : N2 = Append(N, sid) /\ G2 = Append(G, Len(N) + 1)
    OBVIOUS
<1>s. N2 \in Seq(Nat) /\ G2 \in Seq(Nat)
    BY <1>0, <1>1, AppendProperties
<1>2. /\ Len(N2) = Len(N) + 1 /\ N2[Len(N) + 1] = sid
      /\ \A i \in 1 .. Len(N) : N2[i] = N[i]
      /\ Len(G2) = Len(G) + 1 /\ G2[Len(G) + 1] = Len(N) + 1
      /\ \A i \in 1 .. Len(G) : G2[i] = G[i]
    BY <1>0, <1>1, AppendProperties
<1>a. Len(N2) = Len(N) + 1
    BY <1>2
<1>b. Len(G2) = Len(G) + 1
    BY <1>2
<1>3. \A i \in 1 .. Len(G) : G[i] \in 1 .. Len(N)
    BY <1>n DEF Numbers
<1>4. \A i \in 1 .. Len(G) : G2[i] = G[i] /\ G2[i] \in 1 .. Len(N2) /\ N2[G2[i]] = N[G[i]]
    BY <1>i, <1>2, <1>a, <1>3
<1>5. G2[Len(G) + 1] \in 1 .. Len(N2) /\ N2[G2[Len(G) + 1]] = sid
    BY <1>i, <1>2, <1>a
<1>6. \A i \in 1 .. Len(G2) : i \in 1 .. Len(G) \/ i = Len(G) + 1
    BY <1>i, <1>b
<1>7. \A t \in 1 .. Len(K) : \A i \in 1 .. Len(K[t]) :
          K[t][i] \in 1 .. Len(N) /\ N[K[t][i]] = t
    BY <1>n DEF Numbers
<1>8. \A t \in 1 .. Len(K) : \A i \in 1 .. Len(K[t]) :
          K[t][i] \in 1 .. Len(N2) /\ N2[K[t][i]] = t
    BY <1>i, <1>2, <1>a, <1>7
<1>9. Numbers(N2, G2, K)
  <2>1. \A i \in 1 .. Len(G2) : G2[i] \in 1 .. Len(N2)
    BY <1>4, <1>5, <1>6
  <2> QED
    BY <1>8, <2>1 DEF Numbers
<1>10. GivenInOrder(N2, G2)
  <2> SUFFICES ASSUME NEW i \in 1 .. Len(G2), NEW j \in 1 .. Len(G2), i < j, N2[G2[i]] = N2[G2[j]]
               PROVE  G2[i] < G2[j]
    BY DEF GivenInOrder
  <2>1. i \in 1 .. Len(G)
    BY <1>i, <1>b
  <2>2. CASE j \in 1 .. Len(G)
    <3>1. N[G[i]] = N[G[j]]
      BY <1>4, <2>1, <2>2
    <3>2. G[i] < G[j]
      BY <1>n, <2>1, <2>2, <3>1 DEF GivenInOrder
    <3> QED
      BY <1>4, <2>1, <2>2, <3>2
  <2>3. CASE j = Len(G) + 1
    BY <1>i, <1>2, <1>3, <2>1, <2>3
  <2> QED
    BY <1>6, <2>2, <2>3
<1>11. KeptInOrder(N2, G2, K)
  <2> SUFFICES ASSUME NEW t \in 1 .. Len(K)
               PROVE  /\ \A i, j \in 1 .. Len(K[t]) : i < j => K[t][i] < K[t][j]
                      /\ \A i \in 1 .. Len(G2), j \in 1 .. Len(K[t]) : N2[G2[i]] = t => G2[i] < K[t][j]
    BY DEF KeptInOrder
  <2>1. \A i, j \in 1 .. Len(K[t]) : i < j => K[t][i] < K[t][j]
    BY <1>n DEF KeptInOrder
  <2>2. ASSUME NEW i \in 1 .. Len(G2), NEW j \in 1 .. Len(K[t]), N2[G2[i]] = t
        PROVE  G2[i] < K[t][j]
    <3>1. CASE i \in 1 .. Len(G)
      <4>1. N[G[i]] = t
        BY <1>4, <2>2, <3>1
      <4>2. G[i] < K[t][j]
        BY <1>n, <2>2, <3>1, <4>1 DEF KeptInOrder
      <4> QED
        BY <1>4, <3>1, <4>2
    <3>2. CASE i = Len(G) + 1
      <4>1. t = sid
        BY <1>5, <2>2, <3>2
      <4>2. 1 .. Len(K[t]) = {}
        BY <4>1
      <4> QED
        BY <2>2, <4>2
    <3> QED
      BY <1>6, <2>2, <3>1, <3>2
  <2> QED
    BY <2>1, <2>2
<1>12. NoneLost(N2, G2, K)
  <2> SUFFICES ASSUME NEW n \in 1 .. Len(N2)
               PROVE  /\ N2[n] \in 1 .. Len(K)
                      /\ \/ \E i \in 1 .. Len(G2) : G2[i] = n
                         \/ \E j \in 1 .. Len(K[N2[n]]) : K[N2[n]][j] = n
    BY DEF NoneLost
  <2>0. Len(G) + 1 \in 1 .. Len(G2) /\ \A i \in 1 .. Len(G) : i \in 1 .. Len(G2)
    BY <1>i, <1>b
  <2>1. CASE n = Len(N) + 1
    BY <1>2, <2>0, <2>1
  <2>2. CASE n \in 1 .. Len(N)
    <3>1. N2[n] = N[n]
      BY <1>2, <2>2
    <3>2. N[n] \in 1 .. Len(K)
      BY <1>n, <2>2 DEF NoneLost
    <3>3. CASE \E i \in 1 .. Len(G) : G[i] = n
      BY <1>4, <2>0, <3>1, <3>2, <3>3
    <3>4. CASE \E j \in 1 .. Len(K[N[n]]) : K[N[n]][j] = n
      BY <3>1, <3>2, <3>4
    <3> QED
      BY <1>n, <2>2, <3>3, <3>4 DEF NoneLost
  <2> QED
    BY <1>i, <1>a, <2>1, <2>2
<1> QED
    BY <1>0, <1>s, <1>1, <1>9, <1>10, <1>11, <1>12 DEF SendInv

\* A packet is kept.
LEMMA SendsLater ==
    ASSUME NEW N, NEW G, NEW K, SendInv(N, G, K), NEW sid \in 1 .. Len(K)
    PROVE  SendInv(Append(N, sid), G, [K EXCEPT ![sid] = Append(K[sid], Len(N) + 1)])
<1>0. N \in Seq(Nat) /\ G \in Seq(Nat) /\ K \in Seq(Seq(Nat)) /\ Len(N) + 1 \in Nat /\ sid \in Nat
      /\ K[sid] \in Seq(Nat)
    BY DEF SendInv
<1>i. Len(N) \in Nat /\ Len(G) \in Nat /\ Len(K) \in Nat /\ sid \in Nat /\ Len(K[sid]) \in Nat
    BY <1>0
<1>n. Numbers(N, G, K) /\ GivenInOrder(N, G) /\ KeptInOrder(N, G, K) /\ NoneLost(N, G, K)
    BY DEF SendInv
<1>1. PICK N2, k : N2 = Append(N, sid) /\ k = Append(K[sid], Len(N) + 1)
    OBVIOUS
<1>s. N2 \in Seq(Nat) /\ k \in Seq(Nat)
    BY <1>0, <1>1, AppendProperties
<1>2. /\ Len(N2) = Len(N) + 1 /\ N2[Len(N) + 1] = sid
      /\ \A i \in 1 .. Len(N) : N2[i] = N[i]
      /\ Len(k) = Len(K[sid]) + 1 /\ k[Len(K[sid]) + 1] = Len(N) + 1
      /\ \A i \in 1 .. Len(K[sid]) : k[i] = K[sid][i]
    BY <1>0, <1>1, AppendProperties
<1>a. Len(N2) = Len(N) + 1
    BY <1>2
<1>b. Len(k) = Len(K[sid]) + 1
    BY <1>2
<1>c. \A i \in 1 .. Len(k) : i \in 1 .. Len(K[sid]) \/ i = Len(K[sid]) + 1
    BY <1>i, <1>b
<1>3. PICK K2 : K2 = [K EXCEPT ![sid] = k]
    OBVIOUS
<1>k. K2 \in Seq(Seq(Nat))
    BY <1>0, <1>s, <1>3, ExceptSeq
<1>4. /\ Len(K2) = Len(K) /\ K2[sid] = k
      /\ \A j \in 1 .. Len(K) : j # sid => K2[j] = K[j]
    BY <1>0, <1>s, <1>3, ExceptSeq
<1>5. /\ \A i \in 1 .. Len(G) : G[i] \in 1 .. Len(N)
      /\ \A t \in 1 .. Len(K) : \A i \in 1 .. Len(K[t]) : K[t][i] \in 1 .. Len(N) /\ N[K[t][i]] = t
    BY <1>n DEF Numbers
<1>6. \A i \in 1 .. Len(G) : G[i] \in 1 .. Len(N2) /\ N2[G[i]] = N[G[i]]
    BY <1>i, <1>2, <1>a, <1>5
<1>7. \A t \in 1 .. Len(K) : \A i \in 1 .. Len(K[t]) : K[t][i] \in 1 .. Len(N2) /\ N2[K[t][i]] = t
  <2> TAKE t \in 1 .. Len(K)
  <2> TAKE i \in 1 .. Len(K[t])
  <2>1. K[t][i] \in 1 .. Len(N) /\ N[K[t][i]] = t
    BY <1>5
  <2>2. K[t][i] \in 1 .. Len(N2)
    BY <1>i, <1>a, <2>1
  <2> QED
    BY <1>2, <2>1, <2>2
<1>8. \A i \in 1 .. Len(K[sid]) : k[i] = K[sid][i] /\ k[i] \in 1 .. Len(N) /\ N2[k[i]] = sid
    BY <1>2, <1>5, <1>7
<1>9. k[Len(K[sid]) + 1] = Len(N) + 1 /\ Len(N) + 1 \in 1 .. Len(N2) /\ N2[Len(N) + 1] = sid
    BY <1>i, <1>2, <1>a
<1>10. Numbers(N2, G, K2)
  <2> SUFFICES ASSUME NEW t \in 1 .. Len(K), NEW i \in 1 .. Len(K2[t])
               PROVE  K2[t][i] \in 1 .. Len(N2) /\ N2[K2[t][i]] = t
    BY <1>4, <1>6 DEF Numbers
  <2>1. CASE t # sid
    BY <1>4, <1>7, <2>1
  <2>2. CASE t = sid
    <3>1. i \in 1 .. Len(k) /\ K2[t][i] = k[i]
      BY <1>4, <2>2
    <3>2. CASE i \in 1 .. Len(K[sid])
      <4>1. k[i] \in 1 .. Len(N2)
        BY <1>8, <3>2, <1>i, <1>a
      <4> QED
        BY <1>8, <2>2, <3>1, <3>2, <4>1
    <3>3. CASE i = Len(K[sid]) + 1
      BY <1>9, <2>2, <3>1, <3>3
    <3> QED
      BY <1>c, <3>1, <3>2, <3>3
  <2> QED
    BY <2>1, <2>2
<1>11. GivenInOrder(N2, G)
  <2> SUFFICES ASSUME NEW i \in 1 .. Len(G), NEW j \in 1 .. Len(G), i < j, N2[G[i]] = N2[G[j]]
               PROVE  G[i] < G[j]
    BY DEF GivenInOrder
  <2>1. N[G[i]] = N[G[j]]
    BY <1>6
  <2> QED
    BY <1>n, <2>1 DEF GivenInOrder
<1>12. KeptInOrder(N2, G, K2)
  <2> SUFFICES ASSUME NEW t \in 1 .. Len(K)
               PROVE  /\ \A i, j \in 1 .. Len(K2[t]) : i < j => K2[t][i] < K2[t][j]
                      /\ \A i \in 1 .. Len(G), j \in 1 .. Len(K2[t]) : N2[G[i]] = t => G[i] < K2[t][j]
    BY <1>4 DEF KeptInOrder
  <2>1. \A i, j \in 1 .. Len(K[t]) : i < j => K[t][i] < K[t][j]
    BY <1>n DEF KeptInOrder
  <2>2. \A i \in 1 .. Len(G), j \in 1 .. Len(K[t]) : N2[G[i]] = t => G[i] < K[t][j]
    BY <1>n, <1>6 DEF KeptInOrder
  <2>3. CASE t # sid
    BY <1>4, <2>1, <2>2, <2>3
  <2>4. CASE t = sid
    <3>1. K2[t] = k
      BY <1>4, <2>4
    <3>2. ASSUME NEW i \in 1 .. Len(k), NEW j \in 1 .. Len(k), i < j
          PROVE  k[i] < k[j]
      <4>1. i \in 1 .. Len(K[sid])
        BY <1>i, <1>b, <3>2
      <4>2. CASE j \in 1 .. Len(K[sid])
        BY <1>8, <2>1, <2>4, <3>2, <4>1, <4>2
      <4>3. CASE j = Len(K[sid]) + 1
        BY <1>i, <1>8, <1>9, <4>1, <4>3, SMTT(30)
      <4> QED
        BY <1>c, <4>2, <4>3
    <3>3. ASSUME NEW i \in 1 .. Len(G), NEW j \in 1 .. Len(k), N2[G[i]] = t
          PROVE  G[i] < k[j]
      <4>1. CASE j \in 1 .. Len(K[sid])
        BY <1>8, <2>2, <2>4, <3>3, <4>1
      <4>2. CASE j = Len(K[sid]) + 1
        BY <1>i, <1>5, <1>9, <4>2, SMTT(30)
      <4> QED
        BY <1>c, <4>1, <4>2
    <3> QED
      BY <3>1, <3>2, <3>3
  <2> QED
    BY <2>3, <2>4
<1>13. NoneLost(N2, G, K2)
  <2> SUFFICES ASSUME NEW n \in 1 .. Len(N2)
               PROVE  /\ N2[n] \in 1 .. Len(K2)
                      /\ \/ \E i \in 1 .. Len(G) : G[i] = n
                         \/ \E j \in 1 .. Len(K2[N2[n]]) : K2[N2[n]][j] = n
    BY DEF NoneLost
  <2>0. Len(K[sid]) + 1 \in 1 .. Len(k) /\ \A i \in 1 .. Len(K[sid]) : i \in 1 .. Len(k)
    BY <1>i, <1>b
  <2>1. CASE n = Len(N) + 1
    BY <1>4, <1>9, <2>0, <2>1
  <2>2. CASE n \in 1 .. Len(N)
    <3>1. N2[n] = N[n]
      BY <1>2, <2>2
    <3>2. N[n] \in 1 .. Len(K2)
      BY <1>n, <1>4, <2>2 DEF NoneLost
    <3>3. CASE \E i \in 1 .. Len(G) : G[i] = n
      BY <3>1, <3>2, <3>3
    <3>4. ASSUME NEW j \in 1 .. Len(K[N[n]]), K[N[n]][j] = n
          PROVE  \E h \in 1 .. Len(K2[N2[n]]) : K2[N2[n]][h] = n
      <4>1. CASE N[n] = sid
        <5>1. K2[N2[n]] = k /\ j \in 1 .. Len(k) /\ k[j] = n
          BY <1>4, <1>8, <2>0, <3>1, <3>4, <4>1
        <5> QED
          BY <5>1
      <4>2. CASE N[n] # sid
        <5>1. K2[N2[n]] = K[N[n]]
          BY <1>4, <3>1, <3>2, <4>2
        <5> QED
          BY <3>4, <5>1
      <4> QED
        BY <4>1, <4>2
    <3> QED
      BY <1>n, <2>2, <3>1, <3>2, <3>3, <3>4 DEF NoneLost
  <2> QED
    BY <1>i, <1>a, <2>1, <2>2
<1> QED
    BY <1>0, <1>s, <1>k, <1>1, <1>3, <1>10, <1>11, <1>12, <1>13 DEF SendInv

\* The first k of the kept packets are given.
LEMMA SendsKept ==
    ASSUME NEW N, NEW G, NEW K, SendInv(N, G, K), NEW sid \in 1 .. Len(K), NEW k \in 0 .. Len(K[sid])
    PROVE  SendInv(N, G \o SubSeq(K[sid], 1, k), [K EXCEPT ![sid] = SubSeq(K[sid], k + 1, Len(K[sid]))])
<1>0. N \in Seq(Nat) /\ G \in Seq(Nat) /\ K \in Seq(Seq(Nat)) /\ K[sid] \in Seq(Nat)
    BY DEF SendInv
<1>i. Len(N) \in Nat /\ Len(G) \in Nat /\ Len(K) \in Nat /\ sid \in Nat /\ k \in Nat
      /\ Len(K[sid]) \in Nat
    BY <1>0
<1>n. Numbers(N, G, K) /\ GivenInOrder(N, G) /\ KeptInOrder(N, G, K) /\ NoneLost(N, G, K)
    BY DEF SendInv
<1>1. PICK f, l : f = SubSeq(K[sid], 1, k) /\ l = SubSeq(K[sid], k + 1, Len(K[sid]))
    OBVIOUS
<1>e. \A i \in 1 .. Len(K[sid]) : K[sid][i] \in Nat
    BY <1>0
<1>s. f \in Seq(Nat) /\ l \in Seq(Nat)
  <2>1. \A i \in 1 .. k : K[sid][i] \in Nat
    BY <1>i, <1>e
  <2>2. \A i \in k + 1 .. Len(K[sid]) : K[sid][i] \in Nat
    BY <1>i, <1>e
  <2> QED
    BY <1>i, <1>1, <2>1, <2>2, SubSeqProperties
<1>2. /\ Len(f) = k /\ \A i \in 1 .. k : f[i] = K[sid][i]
  <2>1. \A i \in 1 .. k : K[sid][i] \in Nat
    BY <1>i, <1>e
  <2>2. /\ Len(f) = (IF 1 <= k THEN k - 1 + 1 ELSE 0)
        /\ \A i \in 1 .. k - 1 + 1 : f[i] = K[sid][1 + i - 1]
    BY <1>i, <1>1, <2>1, SubSeqProperties
  <2> QED
    BY <1>i, <2>2
<1>3. /\ Len(l) = Len(K[sid]) - k
      /\ \A i \in 1 .. Len(K[sid]) - k : l[i] = K[sid][k + i]
  <2>0. \A i \in k + 1 .. Len(K[sid]) : K[sid][i] \in Nat
    BY <1>i, <1>e
  <2>1. /\ Len(l) = (IF k + 1 <= Len(K[sid]) THEN Len(K[sid]) - (k + 1) + 1 ELSE 0)
        /\ \A i \in 1 .. Len(K[sid]) - (k + 1) + 1 : l[i] = K[sid][k + 1 + i - 1]
    BY <1>i, <1>1, <2>0, SubSeqProperties
  <2> QED
    BY <1>i, <2>1
<1>4. PICK G2 : G2 = G \o f
    OBVIOUS
<1>g. G2 \in Seq(Nat)
    BY <1>0, <1>s, <1>4, ConcatProperties
<1>5. /\ Len(G2) = Len(G) + k
      /\ \A i \in 1 .. Len(G) : G2[i] = G[i]
      /\ \A i \in Len(G) + 1 .. Len(G) + k : i - Len(G) \in 1 .. k /\ G2[i] = K[sid][i - Len(G)]
  <2>1. /\ Len(G2) = Len(G) + Len(f)
        /\ \A i \in 1 .. Len(G) + Len(f) : G2[i] = IF i <= Len(G) THEN G[i] ELSE f[i - Len(G)]
    BY <1>0, <1>s, <1>4, ConcatProperties
  <2> QED
    BY <1>i, <1>2, <2>1
<1>6. PICK K2 : K2 = [K EXCEPT ![sid] = l]
    OBVIOUS
<1>k. K2 \in Seq(Seq(Nat))
    BY <1>0, <1>s, <1>6, ExceptSeq
<1>7. /\ Len(K2) = Len(K) /\ K2[sid] = l
      /\ \A j \in 1 .. Len(K) : j # sid => K2[j] = K[j]
    BY <1>0, <1>s, <1>6, ExceptSeq
<1>f. Len(G2) = Len(G) + k
    BY <1>5
<1>h. Len(l) = Len(K[sid]) - k
    BY <1>3
<1>8. /\ \A i \in 1 .. Len(G) : G[i] \in 1 .. Len(N)
      /\ \A t \in 1 .. Len(K) : \A i \in 1 .. Len(K[t]) : K[t][i] \in 1 .. Len(N) /\ N[K[t][i]] = t
    BY <1>n DEF Numbers
<1>9. \A i \in 1 .. k : i \in 1 .. Len(K[sid])
    BY <1>i
<1>10. \A i \in 1 .. Len(G2) : \/ i \in 1 .. Len(G) /\ G2[i] = G[i]
                              \/ /\ i > Len(G) /\ i - Len(G) \in 1 .. k
                                 /\ i - Len(G) \in 1 .. Len(K[sid])
                                 /\ G2[i] = K[sid][i - Len(G)] /\ N[G2[i]] = sid
  <2> SUFFICES ASSUME NEW i \in 1 .. Len(G2), i \notin 1 .. Len(G)
               PROVE  /\ i > Len(G) /\ i - Len(G) \in 1 .. k
                      /\ i - Len(G) \in 1 .. Len(K[sid])
                      /\ G2[i] = K[sid][i - Len(G)] /\ N[G2[i]] = sid
    BY <1>5
  <2>1. i \in Len(G) + 1 .. Len(G) + k
    BY <1>i, <1>f
  <2>2. i > Len(G) /\ i - Len(G) \in 1 .. k /\ G2[i] = K[sid][i - Len(G)]
    BY <1>i, <1>5, <2>1
  <2> QED
    BY <1>8, <1>9, <2>2
<1>11. \A j \in 1 .. Len(l) : k + j \in 1 .. Len(K[sid]) /\ l[j] = K[sid][k + j] /\ k + j > k
    BY <1>i, <1>3, <1>h
<1>12. Numbers(N, G2, K2)
  <2>1. \A i \in 1 .. Len(G2) : G2[i] \in 1 .. Len(N)
    BY <1>8, <1>10
  <2>2. ASSUME NEW t \in 1 .. Len(K), NEW i \in 1 .. Len(K2[t])
        PROVE  K2[t][i] \in 1 .. Len(N) /\ N[K2[t][i]] = t
    <3>1. CASE t = sid
      <4>1. i \in 1 .. Len(l) /\ K2[t][i] = l[i]
        BY <1>7, <2>2, <3>1
      <4> QED
        BY <1>8, <1>11, <3>1, <4>1
    <3>2. CASE t # sid
      BY <1>8, <1>7, <2>2, <3>2
    <3> QED
      BY <3>1, <3>2
  <2> QED
    BY <1>7, <2>1, <2>2 DEF Numbers
<1>13. \A i, j \in 1 .. Len(K[sid]) : i < j => K[sid][i] < K[sid][j]
    BY <1>n DEF KeptInOrder
<1>14. \A i \in 1 .. Len(G), j \in 1 .. Len(K[sid]) : N[G[i]] = sid => G[i] < K[sid][j]
    BY <1>n DEF KeptInOrder
<1>15. GivenInOrder(N, G2)
  <2> SUFFICES ASSUME NEW i \in 1 .. Len(G2), NEW j \in 1 .. Len(G2), i < j, N[G2[i]] = N[G2[j]]
               PROVE  G2[i] < G2[j]
    BY DEF GivenInOrder
  <2>1. CASE j \in 1 .. Len(G) /\ G2[j] = G[j]
    <3>1. i \in 1 .. Len(G)
      BY <1>i, <1>f, <2>1
    <3>2. G2[i] = G[i]
      BY <1>5, <3>1
    <3> QED
      BY <1>n, <2>1, <3>1, <3>2 DEF GivenInOrder
  <2>2. CASE j > Len(G) /\ i \in 1 .. Len(G) /\ G2[i] = G[i]
    <3>1. j - Len(G) \in 1 .. Len(K[sid]) /\ G2[j] = K[sid][j - Len(G)] /\ N[G2[j]] = sid
      <4>1. j \notin 1 .. Len(G)
        BY <1>i, <2>2
      <4> QED
        BY <1>10, <4>1
    <3> QED
      BY <1>14, <2>2, <3>1
  <2>3. CASE j > Len(G) /\ i > Len(G)
    <3>1. j \notin 1 .. Len(G) /\ i \notin 1 .. Len(G)
      BY <1>i, <2>3
    <3>2. /\ j - Len(G) \in 1 .. Len(K[sid]) /\ G2[j] = K[sid][j - Len(G)]
          /\ i - Len(G) \in 1 .. Len(K[sid]) /\ G2[i] = K[sid][i - Len(G)]
      BY <1>10, <3>1
    <3>3. i - Len(G) < j - Len(G)
      BY <1>i, <1>f
    <3> QED
      BY <1>13, <3>2, <3>3
  <2> QED
    BY <1>10, <2>1, <2>2, <2>3
<1>16. KeptInOrder(N, G2, K2)
  <2> SUFFICES ASSUME NEW t \in 1 .. Len(K)
               PROVE  /\ \A i, j \in 1 .. Len(K2[t]) : i < j => K2[t][i] < K2[t][j]
                      /\ \A i \in 1 .. Len(G2), j \in 1 .. Len(K2[t]) : N[G2[i]] = t => G2[i] < K2[t][j]
    BY <1>7 DEF KeptInOrder
  <2>1. CASE t = sid
    <3>1. K2[t] = l
      BY <1>7, <2>1
    <3>2. ASSUME NEW i \in 1 .. Len(l), NEW j \in 1 .. Len(l), i < j
          PROVE  l[i] < l[j]
      <4>1. k + i < k + j
        BY <1>i, <1>h, <3>2
      <4> QED
        BY <1>11, <1>13, <4>1
    <3>3. ASSUME NEW i \in 1 .. Len(G2), NEW j \in 1 .. Len(l), N[G2[i]] = t
          PROVE  G2[i] < l[j]
      <4>1. k + j \in 1 .. Len(K[sid]) /\ l[j] = K[sid][k + j]
        BY <1>11
      <4>2. CASE i \in 1 .. Len(G) /\ G2[i] = G[i]
        BY <1>14, <2>1, <3>3, <4>1, <4>2
      <4>3. CASE i \notin 1 .. Len(G)
        <5>1. i - Len(G) \in 1 .. k /\ i - Len(G) \in 1 .. Len(K[sid]) /\ G2[i] = K[sid][i - Len(G)]
          BY <1>10, <4>3
        <5>2. i - Len(G) < k + j
          BY <1>i, <1>h, <5>1
        <5> QED
          BY <1>13, <4>1, <5>1, <5>2
      <4> QED
        BY <1>10, <4>2, <4>3
    <3> QED
      BY <3>1, <3>2, <3>3
  <2>2. CASE t # sid
    <3>1. K2[t] = K[t]
      BY <1>7, <2>2
    <3>2. \A i, j \in 1 .. Len(K2[t]) : i < j => K2[t][i] < K2[t][j]
      BY <1>n, <3>1 DEF KeptInOrder
    <3>3. ASSUME NEW i \in 1 .. Len(G2), NEW j \in 1 .. Len(K2[t]), N[G2[i]] = t
          PROVE  G2[i] < K2[t][j]
      <4>1. i \in 1 .. Len(G) /\ G2[i] = G[i]
        BY <1>10, <2>2, <3>3
      <4> QED
        BY <1>n, <3>1, <3>3, <4>1 DEF KeptInOrder
    <3> QED
      BY <3>2, <3>3
  <2> QED
    BY <2>1, <2>2
<1>17. NoneLost(N, G2, K2)
  <2> SUFFICES ASSUME NEW n \in 1 .. Len(N)
               PROVE  /\ N[n] \in 1 .. Len(K2)
                      /\ \/ \E i \in 1 .. Len(G2) : G2[i] = n
                         \/ \E j \in 1 .. Len(K2[N[n]]) : K2[N[n]][j] = n
    BY DEF NoneLost
  <2>0. \A i \in 1 .. Len(G) : i \in 1 .. Len(G2)
    BY <1>i, <1>f
  <2>1. N[n] \in 1 .. Len(K)
    BY <1>n DEF NoneLost
  <2>2. CASE \E i \in 1 .. Len(G) : G[i] = n
    BY <1>5, <1>7, <2>0, <2>1, <2>2
  <2>3. ASSUME NEW j \in 1 .. Len(K[N[n]]), K[N[n]][j] = n
        PROVE  \/ \E i \in 1 .. Len(G2) : G2[i] = n
               \/ \E i \in 1 .. Len(K2[N[n]]) : K2[N[n]][i] = n
    <3>1. CASE N[n] # sid
      <4>1. K2[N[n]] = K[N[n]]
        BY <1>7, <2>1, <3>1
      <4> QED
        BY <2>3, <4>1
    <3>2. CASE N[n] = sid /\ j \in 1 .. k
      <4>1. /\ Len(G) + j \in 1 .. Len(G2) /\ Len(G) + j \in Len(G) + 1 .. Len(G) + k
            /\ (Len(G) + j) - Len(G) = j
        BY <1>i, <1>f, <3>2
      <4>2. G2[Len(G) + j] = K[sid][j]
        BY <1>5, <4>1
      <4> QED
        BY <2>3, <3>2, <4>1, <4>2
    <3>3. CASE N[n] = sid /\ j > k
      <4>0. j \in 1 .. Len(K[sid])
        BY <2>3, <3>3
      <4>1. j - k \in 1 .. Len(l) /\ k + (j - k) = j
        BY <1>i, <1>h, <3>3, <4>0
      <4>2. l[j - k] = n
        BY <1>11, <2>3, <3>3, <4>1
      <4> QED
        BY <1>7, <3>3, <4>1, <4>2
    <3>4. j \in 1 .. k \/ j > k
      <4>1. j \in Nat /\ 1 <= j
        BY <1>0, <2>1
      <4> QED
        BY <1>i, <4>1
    <3> QED
      BY <3>1, <3>2, <3>3, <3>4
  <2> QED
    BY <1>n, <1>7, <2>1, <2>2, <2>3 DEF NoneLost
<1> QED
    BY <1>0, <1>g, <1>k, <1>1, <1>4, <1>6, <1>12, <1>15, <1>16, <1>17 DEF SendInv

\* A session is made.
LEMMA SendsNew ==
    ASSUME NEW N, NEW G, NEW K, SendInv(N, G, K)
    PROVE  SendInv(N, G, Append(K, <<>>))
<1>0. N \in Seq(Nat) /\ G \in Seq(Nat) /\ K \in Seq(Seq(Nat)) /\ <<>> \in Seq(Nat)
    BY EmptySeq DEF SendInv
<1>i. Len(N) \in Nat /\ Len(G) \in Nat /\ Len(K) \in Nat /\ Len(<<>>) = 0
    BY <1>0
<1>n. Numbers(N, G, K) /\ GivenInOrder(N, G) /\ KeptInOrder(N, G, K) /\ NoneLost(N, G, K)
    BY DEF SendInv
<1>1. PICK K2 : K2 = Append(K, <<>>)
    OBVIOUS
<1>k. K2 \in Seq(Seq(Nat))
    BY <1>0, <1>1, AppendProperties
<1>2. /\ Len(K2) = Len(K) + 1 /\ K2[Len(K) + 1] = <<>>
      /\ \A i \in 1 .. Len(K) : K2[i] = K[i]
    BY <1>0, <1>1, AppendProperties
<1>3. \A i \in 1 .. Len(K2) : i \in 1 .. Len(K) \/ Len(K2[i]) = 0
    BY <1>i, <1>2
<1>4. Numbers(N, G, K2)
    BY <1>n, <1>i, <1>2, <1>3 DEF Numbers
<1>5. KeptInOrder(N, G, K2)
    BY <1>n, <1>i, <1>2, <1>3, SMTT(30) DEF KeptInOrder
<1>6. NoneLost(N, G, K2)
  <2> SUFFICES ASSUME NEW n \in 1 .. Len(N)
               PROVE  /\ N[n] \in 1 .. Len(K2)
                      /\ \/ \E i \in 1 .. Len(G) : G[i] = n
                         \/ \E j \in 1 .. Len(K2[N[n]]) : K2[N[n]][j] = n
    BY DEF NoneLost
  <2>1. N[n] \in 1 .. Len(K) /\ N[n] \in 1 .. Len(K2) /\ K2[N[n]] = K[N[n]]
    BY <1>n, <1>i, <1>2 DEF NoneLost
  <2> QED
    BY <1>n, <2>1 DEF NoneLost
<1> QED
    BY <1>0, <1>k, <1>1, <1>2, <1>4, <1>5, <1>6 DEF SendInv
---------------------------------------------------------------------------------
(* Receiving.  The state is: the packets handled, H; of each session those *)
(* pulled, P; of each socket its session, W, how many arrived before it, F,*)
(* and how many have left the socket's queue, T.                           *)

Pack == [sock : Socks, n : Nat, pid : Pids \cup {CONNECT}]

\* z is x and then y.
Joined(z, x, y) ==
    /\ \A i \in 1 .. Len(x) : i \in 1 .. Len(z) /\ z[i] = x[i]
    /\ \A i \in 1 .. Len(y) : Len(x) + i \in 1 .. Len(z) /\ z[Len(x) + i] = y[i]
    /\ \A i \in 1 .. Len(z) :
          \/ i \in 1 .. Len(x) /\ z[i] = x[i]
          \/ i > Len(x) /\ i - Len(x) \in 1 .. Len(y) /\ z[i] = y[i - Len(x)]

LEMMA ConcatJoins ==
    ASSUME NEW S, NEW x \in Seq(S), NEW y \in Seq(S)
    PROVE  x \o y \in Seq(S) /\ Len(x \o y) = Len(x) + Len(y) /\ Joined(x \o y, x, y)
<1>1. PICK z : z = x \o y
    OBVIOUS
<1>2. /\ z \in Seq(S) /\ Len(z) = Len(x) + Len(y)
      /\ \A i \in 1 .. Len(x) + Len(y) : z[i] = IF i <= Len(x) THEN x[i] ELSE y[i - Len(x)]
    BY <1>1, ConcatProperties
<1>3. PICK a \in Nat, b \in Nat : a = Len(x) /\ b = Len(y)
    OBVIOUS
<1>4. Len(z) = a + b
    BY <1>2, <1>3
<1>5. \A i \in 1 .. a + b : z[i] = IF i <= a THEN x[i] ELSE y[i - a]
    BY <1>2, <1>3
<1>6. \A i \in 1 .. a : i \in 1 .. a + b /\ z[i] = x[i]
    BY ONLY <1>5, a \in Nat, b \in Nat
<1>7. \A i \in 1 .. b : a + i \in 1 .. a + b /\ z[a + i] = y[i]
  <2> TAKE i \in 1 .. b
  <2>1. a + i \in 1 .. a + b /\ ~ (a + i <= a) /\ (a + i) - a = i
    BY ONLY a \in Nat, b \in Nat, i \in 1 .. b
  <2> QED
    BY ONLY <1>5, <2>1
<1>8. \A i \in 1 .. a + b : \/ i \in 1 .. a /\ z[i] = x[i]
                            \/ i > a /\ i - a \in 1 .. b /\ z[i] = y[i - a]
  <2> TAKE i \in 1 .. a + b
  <2>1. i \in 1 .. a \/ (i > a /\ i - a \in 1 .. b /\ ~ (i <= a))
    BY ONLY a \in Nat, b \in Nat, i \in 1 .. a + b
  <2> QED
    BY ONLY <1>5, <1>6, <2>1, i \in 1 .. a + b
<1>9. Joined(z, x, y)
    BY ONLY <1>3, <1>4, <1>6, <1>7, <1>8 DEF Joined
<1> QED
    BY <1>1, <1>2, <1>9

\* What is said of a packet that a session has or had.  W is the session of each socket, F the
\* arrivals up to the one that made it, T those popped since the start, X those the loop it
\* was made in has released.
Known(p, W, F, T, X) ==
    /\ p.sock \in Socks /\ p.n \in Nat /\ p.n <= T[p.sock]
    /\ p.n > F[p.sock] => W[p.sock] # NULL /\ p.n \notin X[p.sock]

\* p is before r, if both came to one socket after its session was made.
Before(p, r, F) ==
    p.sock = r.sock /\ p.n > F[p.sock] /\ r.n > F[r.sock] => p.n < r.n

HandledOnce(H, W, F, T, X) ==
    /\ \A i \in 1 .. Len(H) : Known(H[i], W, F, T, X)
    /\ \A i, j \in 1 .. Len(H) : i < j => Before(H[i], H[j], F)

PulledOnce(H, P, W, F, T, X) ==
    \A sid \in 1 .. Len(P) :
        /\ \A i \in 1 .. Len(P[sid]) :
              /\ Known(P[sid][i], W, F, T, X)
              /\ P[sid][i].n > F[P[sid][i].sock] => W[P[sid][i].sock] = sid
        /\ \A i, j \in 1 .. Len(P[sid]) : i < j => Before(P[sid][i], P[sid][j], F)
        /\ \A i \in 1 .. Len(H), j \in 1 .. Len(P[sid]) : Before(H[i], P[sid][j], F)

Has(q, s, n) == \E i \in 1 .. Len(q) : q[i].sock = s /\ q[i].n = n

NoneDropped(H, P, W, F, T, X) ==
    \A s \in Socks : W[s] # NULL =>
        /\ W[s] \in 1 .. Len(P)
        /\ \A n \in F[s] + 1 .. T[s] : n \in X[s] \/ Has(H, s, n) \/ Has(P[W[s]], s, n)

RecvInv(H, P, W, F, T, X) ==
    /\ F \in [Socks -> Nat] /\ T \in [Socks -> Nat] /\ Len(H) \in Nat /\ Len(P) \in Nat
    /\ \A sid \in 1 .. Len(P) : Len(P[sid]) \in Nat
    /\ \A s \in Socks : \A n \in X[s] : n \in Nat /\ n <= T[s]
    /\ HandledOnce(H, W, F, T, X) /\ PulledOnce(H, P, W, F, T, X) /\ NoneDropped(H, P, W, F, T, X)

\* A session pulls the queue of its socket.
LEMMA Pulls ==
    ASSUME NEW H, NEW P, NEW W, NEW F, NEW T, NEW X, RecvInv(H, P, W, F, T, X),
           NEW s \in Socks, NEW sid \in 1 .. Len(P), W[s] = sid, W[s] # NULL,
           NEW q, Len(q) \in Nat,
           \A i \in 1 .. Len(q) : q[i].sock = s /\ q[i].n = T[s] + i,
           NEW T2, T2 = [T EXCEPT ![s] = T[s] + Len(q)],
           NEW P2, Len(P2) = Len(P), \A t \in 1 .. Len(P) : t # sid => P2[t] = P[t],
           Len(P2[sid]) \in Nat, Joined(P2[sid], P[sid], q), F[s] <= T[s]
    PROVE  RecvInv(H, P2, W, F, T2, X)
<1>1. F \in [Socks -> Nat] /\ T \in [Socks -> Nat] /\ Len(H) \in Nat /\ Len(P) \in Nat
      /\ \A t \in 1 .. Len(P) : Len(P[t]) \in Nat
    BY DEF RecvInv
<1>x. \A u \in Socks : \A n \in X[u] : n \in Nat /\ n <= T[u]
    BY DEF RecvInv
<1>2. HandledOnce(H, W, F, T, X) /\ PulledOnce(H, P, W, F, T, X) /\ NoneDropped(H, P, W, F, T, X)
    BY DEF RecvInv
<1>3. /\ T2 \in [Socks -> Nat] /\ T2[s] = T[s] + Len(q) /\ T[s] \in Nat /\ F[s] \in Nat
      /\ \A u \in Socks : F[u] \in Nat /\ T[u] \in Nat /\ T2[u] \in Nat
      /\ \A u \in Socks : u # s => T2[u] = T[u]
    BY <1>1
<1>4. \A u \in Socks : T[u] <= T2[u]
    BY <1>3
<1>5. \A p : Known(p, W, F, T, X) => Known(p, W, F, T2, X)
    BY <1>3, <1>4 DEF Known
<1>8. \A i \in 1 .. Len(q) : /\ q[i].sock = s /\ q[i].n = T[s] + i /\ q[i].n \in Nat
                             /\ q[i].n > T[s] /\ q[i].n <= T2[s]
    BY <1>3
<1>6. \A i \in 1 .. Len(q) : Known(q[i], W, F, T2, X) /\ W[q[i].sock] = sid
  <2> TAKE i \in 1 .. Len(q)
  <2>1. q[i].sock = s /\ q[i].n \in Nat /\ q[i].n > T[s] /\ q[i].n <= T2[s]
    BY <1>8
  <2>2. q[i].n \notin X[s]
    BY <1>x, <1>3, <2>1
  <2> QED
    BY <2>1, <2>2 DEF Known
<1>7. \A p : Known(p, W, F, T, X) /\ p.sock = s => p.n \in Nat /\ p.n <= T[s]
    BY DEF Known
<1>9. HandledOnce(H, W, F, T2, X)
    BY <1>2, <1>5 DEF HandledOnce
<1>10. ASSUME NEW t \in 1 .. Len(P)
       PROVE  /\ \A i \in 1 .. Len(P[t]) :
                   /\ Known(P[t][i], W, F, T, X)
                   /\ P[t][i].n > F[P[t][i].sock] => W[P[t][i].sock] = t
              /\ \A i, j \in 1 .. Len(P[t]) : i < j => Before(P[t][i], P[t][j], F)
              /\ \A i \in 1 .. Len(H), j \in 1 .. Len(P[t]) : Before(H[i], P[t][j], F)
    BY <1>2 DEF PulledOnce
<1>11. \A i \in 1 .. Len(P2[sid]) :
          \/ i \in 1 .. Len(P[sid]) /\ P2[sid][i] = P[sid][i]
          \/ i > Len(P[sid]) /\ i - Len(P[sid]) \in 1 .. Len(q) /\ P2[sid][i] = q[i - Len(P[sid])]
    BY DEF Joined
<1>12. Len(P[sid]) \in Nat
    BY <1>1
<1>a. ASSUME NEW p, Known(p, W, F, T, X), NEW i \in 1 .. Len(q)
      PROVE  Before(p, q[i], F)
  <2>1. CASE p.sock = s
    <3>1. p.n \in Nat /\ p.n <= T[s] /\ q[i].n \in Nat /\ q[i].n > T[s]
      BY <1>7, <1>8, <1>a, <2>1
    <3> QED
      BY <1>3, <3>1 DEF Before
  <2>2. CASE p.sock # s
    BY <1>8, <2>2 DEF Before
  <2> QED
    BY <2>1, <2>2
<1>13. PulledOnce(H, P2, W, F, T2, X)
  <2> SUFFICES ASSUME NEW t \in 1 .. Len(P)
               PROVE  /\ \A i \in 1 .. Len(P2[t]) :
                           /\ Known(P2[t][i], W, F, T2, X)
                           /\ P2[t][i].n > F[P2[t][i].sock] => W[P2[t][i].sock] = t
                      /\ \A i, j \in 1 .. Len(P2[t]) : i < j => Before(P2[t][i], P2[t][j], F)
                      /\ \A i \in 1 .. Len(H), j \in 1 .. Len(P2[t]) : Before(H[i], P2[t][j], F)
    BY DEF PulledOnce
  <2>1. CASE t # sid
    <3>1. P2[t] = P[t]
      BY <2>1
    <3> QED
      BY <1>5, <1>10, <3>1
  <2>2. CASE t = sid
    <3>1. ASSUME NEW i \in 1 .. Len(P2[sid])
          PROVE  /\ Known(P2[sid][i], W, F, T2, X)
                 /\ P2[sid][i].n > F[P2[sid][i].sock] => W[P2[sid][i].sock] = sid
      <4>1. CASE i \in 1 .. Len(P[sid]) /\ P2[sid][i] = P[sid][i]
        BY <1>5, <1>10, <4>1
      <4>2. CASE i - Len(P[sid]) \in 1 .. Len(q) /\ P2[sid][i] = q[i - Len(P[sid])]
        BY <1>6, <4>2
      <4> QED
        BY <1>11, <4>1, <4>2
    <3>2. ASSUME NEW i \in 1 .. Len(P2[sid]), NEW j \in 1 .. Len(P2[sid]), i < j
          PROVE  Before(P2[sid][i], P2[sid][j], F)
      <4>1. CASE j \in 1 .. Len(P[sid]) /\ P2[sid][j] = P[sid][j]
        <5>1. i \in 1 .. Len(P[sid])
          BY <1>12, <3>2, <4>1
        <5>2. P2[sid][i] = P[sid][i]
          BY <5>1 DEF Joined
        <5> QED
          BY <1>10, <3>2, <4>1, <5>1, <5>2
      <4>2. CASE j > Len(P[sid]) /\ j - Len(P[sid]) \in 1 .. Len(q) /\ P2[sid][j] = q[j - Len(P[sid])]
        <5>2. CASE i \in 1 .. Len(P[sid]) /\ P2[sid][i] = P[sid][i]
          <6>1. Known(P2[sid][i], W, F, T, X)
            BY <1>10, <5>2
          <6> QED
            BY <1>a, <4>2, <6>1
        <5>3. CASE i - Len(P[sid]) \in 1 .. Len(q) /\ P2[sid][i] = q[i - Len(P[sid])]
          <6>1. P2[sid][i].n = T[s] + (i - Len(P[sid])) /\ P2[sid][j].n = T[s] + (j - Len(P[sid]))
            BY <1>8, <4>2, <5>3
          <6>2. T[s] + (i - Len(P[sid])) < T[s] + (j - Len(P[sid]))
            BY <1>3, <1>12, <3>2
          <6> QED
            BY <6>1, <6>2 DEF Before
        <5> QED
          BY <1>11, <5>2, <5>3
      <4> QED
        BY <1>11, <4>1, <4>2
    <3>3. ASSUME NEW i \in 1 .. Len(H), NEW j \in 1 .. Len(P2[sid])
          PROVE  Before(H[i], P2[sid][j], F)
      <4>1. CASE j \in 1 .. Len(P[sid]) /\ P2[sid][j] = P[sid][j]
        BY <1>10, <4>1
      <4>2. CASE j - Len(P[sid]) \in 1 .. Len(q) /\ P2[sid][j] = q[j - Len(P[sid])]
        <5>1. Known(H[i], W, F, T, X)
          BY <1>2 DEF HandledOnce
        <5> QED
          BY <1>a, <4>2, <5>1
      <4> QED
        BY <1>11, <4>1, <4>2
    <3> QED
      BY <2>2, <3>1, <3>2, <3>3
  <2> QED
    BY <2>1, <2>2
<1>14. NoneDropped(H, P2, W, F, T2, X)
  <2> SUFFICES ASSUME NEW u \in Socks, W[u] # NULL
               PROVE  /\ W[u] \in 1 .. Len(P)
                      /\ \A n \in F[u] + 1 .. T2[u] :
                            n \in X[u] \/ Has(H, u, n) \/ Has(P2[W[u]], u, n)
    BY DEF NoneDropped
  <2>1. W[u] \in 1 .. Len(P)
    BY <1>2 DEF NoneDropped
  <2>2. ASSUME NEW n \in F[u] + 1 .. T2[u]
        PROVE  n \in X[u] \/ Has(H, u, n) \/ Has(P2[W[u]], u, n)
    <3>1. CASE n \in F[u] + 1 .. T[u]
      <4>1. n \in X[u] \/ Has(H, u, n) \/ Has(P[W[u]], u, n)
        BY <1>2, <3>1 DEF NoneDropped
      <4>2. CASE W[u] # sid
        <5>1. P2[W[u]] = P[W[u]]
          BY <2>1, <4>2
        <5> QED
          BY <4>1, <5>1
      <4>3. CASE W[u] = sid /\ Has(P[sid], u, n)
        <5>1. PICK i \in 1 .. Len(P[sid]) : P[sid][i].sock = u /\ P[sid][i].n = n
          BY <4>3 DEF Has
        <5>2. i \in 1 .. Len(P2[sid]) /\ P2[sid][i] = P[sid][i]
          BY DEF Joined
        <5> QED
          BY <4>3, <5>1, <5>2 DEF Has
      <4> QED
        BY <4>1, <4>2, <4>3
    <3>2. CASE n \notin F[u] + 1 .. T[u]
      <4>1. u = s
        BY <1>3, <2>2, <3>2
      <4>2. PICK i \in 1 .. Len(q) : T[s] + i = n
        <5>1. n - T[s] \in 1 .. Len(q) /\ T[s] + (n - T[s]) = n
          BY <1>3, <2>2, <3>2, <4>1
        <5> QED
          BY <5>1
      <4>3. Len(P[sid]) + i \in 1 .. Len(P2[sid]) /\ P2[sid][Len(P[sid]) + i] = q[i]
        BY DEF Joined
      <4>4. q[i].sock = s /\ q[i].n = n
        BY <1>8, <4>2
      <4> QED
        BY <4>1, <4>3, <4>4 DEF Has
    <3> QED
      BY <3>1, <3>2
  <2> QED
    BY <2>1, <2>2
<1> QED
  <2>1. \A t \in 1 .. Len(P2) : Len(P2[t]) \in Nat
    BY <1>1
  <2>2. \A u \in Socks : \A n \in X[u] : n \in Nat /\ n <= T2[u]
    BY <1>x, <1>3, <1>4
  <2> QED
    BY <1>1, <1>3, <1>9, <1>13, <1>14, <2>1, <2>2 DEF RecvInv

\* A session's packets are handled, all of them.
LEMMA Handles ==
    ASSUME NEW H, NEW P, NEW W, NEW F, NEW T, NEW X, RecvInv(H, P, W, F, T, X),
           NEW sid \in 1 .. Len(P), sid # NULL,
           NEW H2, Len(H2) \in Nat, Joined(H2, H, P[sid]),
           NEW P2, Len(P2) = Len(P), Len(P2[sid]) = 0,
           \A t \in 1 .. Len(P) : t # sid => P2[t] = P[t]
    PROVE  RecvInv(H2, P2, W, F, T, X)
<1>1. F \in [Socks -> Nat] /\ T \in [Socks -> Nat] /\ Len(H) \in Nat /\ Len(P) \in Nat
      /\ \A t \in 1 .. Len(P) : Len(P[t]) \in Nat
    BY DEF RecvInv
<1>x. \A u \in Socks : \A n \in X[u] : n \in Nat /\ n <= T[u]
    BY DEF RecvInv
<1>2. HandledOnce(H, W, F, T, X) /\ PulledOnce(H, P, W, F, T, X) /\ NoneDropped(H, P, W, F, T, X)
    BY DEF RecvInv
<1>3. ASSUME NEW t \in 1 .. Len(P)
      PROVE  /\ \A i \in 1 .. Len(P[t]) :
                  /\ Known(P[t][i], W, F, T, X)
                  /\ P[t][i].n > F[P[t][i].sock] => W[P[t][i].sock] = t
             /\ \A i, j \in 1 .. Len(P[t]) : i < j => Before(P[t][i], P[t][j], F)
             /\ \A i \in 1 .. Len(H), j \in 1 .. Len(P[t]) : Before(H[i], P[t][j], F)
    BY <1>2 DEF PulledOnce
<1>4. \A i \in 1 .. Len(H2) :
          \/ i \in 1 .. Len(H) /\ H2[i] = H[i]
          \/ i > Len(H) /\ i - Len(H) \in 1 .. Len(P[sid]) /\ H2[i] = P[sid][i - Len(H)]
    BY DEF Joined
<1>5. HandledOnce(H2, W, F, T, X)
  <2>1. ASSUME NEW i \in 1 .. Len(H2)
        PROVE  Known(H2[i], W, F, T, X)
    <3>1. CASE i \in 1 .. Len(H) /\ H2[i] = H[i]
      BY <1>2, <3>1 DEF HandledOnce
    <3>2. CASE i - Len(H) \in 1 .. Len(P[sid]) /\ H2[i] = P[sid][i - Len(H)]
      BY <1>3, <3>2
    <3> QED
      BY <1>4, <3>1, <3>2
  <2>2. ASSUME NEW i \in 1 .. Len(H2), NEW j \in 1 .. Len(H2), i < j
        PROVE  Before(H2[i], H2[j], F)
    <3>1. CASE j \in 1 .. Len(H) /\ H2[j] = H[j]
      <4>1. i \in 1 .. Len(H)
        BY <1>1, <2>2, <3>1
      <4>2. H2[i] = H[i]
        BY <4>1 DEF Joined
      <4> QED
        BY <1>2, <2>2, <3>1, <4>1, <4>2 DEF HandledOnce
    <3>2. CASE j > Len(H) /\ j - Len(H) \in 1 .. Len(P[sid]) /\ H2[j] = P[sid][j - Len(H)]
      <4>1. CASE i \in 1 .. Len(H) /\ H2[i] = H[i]
        BY <1>3, <3>2, <4>1
      <4>2. CASE i - Len(H) \in 1 .. Len(P[sid]) /\ H2[i] = P[sid][i - Len(H)]
        <5>1. i - Len(H) < j - Len(H)
          BY <1>1, <2>2
        <5>2. PICK a \in 1 .. Len(P[sid]), b \in 1 .. Len(P[sid]) :
                 a < b /\ H2[i] = P[sid][a] /\ H2[j] = P[sid][b]
          BY <3>2, <4>2, <5>1
        <5>3. Before(P[sid][a], P[sid][b], F)
          BY <1>3, <5>2
        <5> QED
          BY <5>2, <5>3
      <4> QED
        BY <1>4, <4>1, <4>2
    <3> QED
      BY <1>4, <3>1, <3>2
  <2> QED
    BY <2>1, <2>2 DEF HandledOnce
<1>6. \A t \in 1 .. Len(P) : t = sid \/ P2[t] = P[t]
    OBVIOUS
<1>7. 1 .. Len(P2[sid]) = {}
    OBVIOUS
<1>8. PulledOnce(H2, P2, W, F, T, X)
  <2> SUFFICES ASSUME NEW t \in 1 .. Len(P)
               PROVE  /\ \A i \in 1 .. Len(P2[t]) :
                           /\ Known(P2[t][i], W, F, T, X)
                           /\ P2[t][i].n > F[P2[t][i].sock] => W[P2[t][i].sock] = t
                      /\ \A i, j \in 1 .. Len(P2[t]) : i < j => Before(P2[t][i], P2[t][j], F)
                      /\ \A i \in 1 .. Len(H2), j \in 1 .. Len(P2[t]) : Before(H2[i], P2[t][j], F)
    BY DEF PulledOnce
  <2>1. CASE t = sid
    BY <1>7, <2>1
  <2>2. CASE t # sid
    <3>1. P2[t] = P[t]
      BY <2>2
    <3>2. ASSUME NEW i \in 1 .. Len(H2), NEW j \in 1 .. Len(P[t])
          PROVE  Before(H2[i], P[t][j], F)
      <4>1. CASE i \in 1 .. Len(H) /\ H2[i] = H[i]
        BY <1>3, <4>1
      <4>2. CASE i - Len(H) \in 1 .. Len(P[sid]) /\ H2[i] = P[sid][i - Len(H)]
        <5>1. /\ H2[i].n > F[H2[i].sock] => W[H2[i].sock] = sid
              /\ P[t][j].n > F[P[t][j].sock] => W[P[t][j].sock] = t
          BY <1>3, <4>2
        <5> QED
          BY <2>2, <5>1 DEF Before
      <4> QED
        BY <1>4, <4>1, <4>2
    <3> QED
      BY <1>3, <3>1, <3>2
  <2> QED
    BY <2>1, <2>2
<1>9. NoneDropped(H2, P2, W, F, T, X)
  <2> SUFFICES ASSUME NEW u \in Socks, W[u] # NULL
               PROVE  /\ W[u] \in 1 .. Len(P)
                      /\ \A n \in F[u] + 1 .. T[u] :
                            n \in X[u] \/ Has(H2, u, n) \/ Has(P2[W[u]], u, n)
    BY DEF NoneDropped
  <2>1. W[u] \in 1 .. Len(P)
    BY <1>2 DEF NoneDropped
  <2>2. ASSUME NEW n \in F[u] + 1 .. T[u]
        PROVE  n \in X[u] \/ Has(H2, u, n) \/ Has(P2[W[u]], u, n)
    <3>1. n \in X[u] \/ Has(H, u, n) \/ Has(P[W[u]], u, n)
      BY <1>2 DEF NoneDropped
    <3>2. CASE Has(H, u, n)
      <4>1. PICK i \in 1 .. Len(H) : H[i].sock = u /\ H[i].n = n
        BY <3>2 DEF Has
      <4>2. i \in 1 .. Len(H2) /\ H2[i] = H[i]
        BY DEF Joined
      <4> QED
        BY <4>1, <4>2 DEF Has
    <3>3. CASE W[u] = sid /\ Has(P[sid], u, n)
      <4>1. PICK i \in 1 .. Len(P[sid]) : P[sid][i].sock = u /\ P[sid][i].n = n
        BY <3>3 DEF Has
      <4>2. Len(H) + i \in 1 .. Len(H2) /\ H2[Len(H) + i] = P[sid][i]
        BY DEF Joined
      <4> QED
        BY <4>1, <4>2 DEF Has
    <3> QED
      BY <1>6, <2>1, <3>1, <3>2, <3>3
  <2> QED
    BY <2>1, <2>2
<1> QED
  <2>1. \A t \in 1 .. Len(P2) : Len(P2[t]) \in Nat
    BY <1>1, <1>6
  <2> QED
    BY <1>1, <1>x, <1>5, <1>8, <1>9, <2>1 DEF RecvInv

\* All that came to socket s and has been popped is before its session, if it has one.
Owned(s, P, W, F, T, X, W2, F2, T2, X2) ==
    /\ F2 \in [Socks -> Nat] /\ T2 \in [Socks -> Nat] /\ F2[s] = T2[s] /\ T[s] <= T2[s]
    /\ \A u \in Socks : u # s => F2[u] = F[u] /\ T2[u] = T[u] /\ W2[u] = W[u] /\ X2[u] = X[u]
    /\ X2[s] \subseteq X[s]
    /\ W2[s] = NULL \/ W2[s] \in 1 .. Len(P)

LEMMA Owns ==
    ASSUME NEW H, NEW P, NEW W, NEW F, NEW T, NEW X, RecvInv(H, P, W, F, T, X),
           NEW s \in Socks, NEW W2, NEW F2, NEW T2, NEW X2,
           Owned(s, P, W, F, T, X, W2, F2, T2, X2)
    PROVE  RecvInv(H, P, W2, F2, T2, X2)
<1>o. /\ F2 \in [Socks -> Nat] /\ T2 \in [Socks -> Nat] /\ F2[s] = T2[s] /\ T[s] <= T2[s]
      /\ \A u \in Socks : u # s => F2[u] = F[u] /\ T2[u] = T[u] /\ W2[u] = W[u] /\ X2[u] = X[u]
      /\ X2[s] \subseteq X[s]
      /\ W2[s] = NULL \/ W2[s] \in 1 .. Len(P)
    BY DEF Owned
<1>1. F \in [Socks -> Nat] /\ T \in [Socks -> Nat] /\ Len(H) \in Nat /\ Len(P) \in Nat
      /\ \A t \in 1 .. Len(P) : Len(P[t]) \in Nat
    BY DEF RecvInv
<1>x. \A u \in Socks : \A n \in X[u] : n \in Nat /\ n <= T[u]
    BY DEF RecvInv
<1>2. HandledOnce(H, W, F, T, X) /\ PulledOnce(H, P, W, F, T, X) /\ NoneDropped(H, P, W, F, T, X)
    BY DEF RecvInv
<1>n. T[s] \in Nat /\ F2[s] \in Nat /\ T2[s] \in Nat
    BY <1>o, <1>1
<1>3. ASSUME NEW p, Known(p, W, F, T, X)
      PROVE  /\ Known(p, W2, F2, T2, X2)
             /\ p.n > F2[p.sock] => W2[p.sock] = W[p.sock] /\ F2[p.sock] = F[p.sock]
  <2>1. p.sock \in Socks /\ p.n \in Nat /\ p.n <= T[p.sock]
    BY <1>3 DEF Known
  <2>2. CASE p.sock = s
    <3>1. p.n <= T2[s] /\ ~ (p.n > F2[s])
      BY <1>o, <1>n, <2>1, <2>2
    <3> QED
      BY <2>1, <2>2, <3>1 DEF Known
  <2>3. CASE p.sock # s
    BY <1>o, <1>3, <2>1, <2>3 DEF Known
  <2> QED
    BY <2>2, <2>3
<1>b. ASSUME NEW p, NEW r, Known(p, W, F, T, X), Before(p, r, F)
      PROVE  Before(p, r, F2)
    BY <1>3, <1>b DEF Before
<1>4. HandledOnce(H, W2, F2, T2, X2)
  <2>1. \A i \in 1 .. Len(H) : Known(H[i], W, F, T, X)
    BY <1>2 DEF HandledOnce
  <2>2. \A i, j \in 1 .. Len(H) : i < j => Before(H[i], H[j], F)
    BY <1>2 DEF HandledOnce
  <2>3. \A i \in 1 .. Len(H) : Known(H[i], W2, F2, T2, X2)
    BY <1>3, <2>1
  <2>4. \A i, j \in 1 .. Len(H) : i < j => Before(H[i], H[j], F2)
    BY <1>b, <2>1, <2>2
  <2> QED
    BY <2>3, <2>4 DEF HandledOnce
<1>5. PulledOnce(H, P, W2, F2, T2, X2)
  <2> SUFFICES ASSUME NEW t \in 1 .. Len(P)
               PROVE  /\ \A i \in 1 .. Len(P[t]) :
                           /\ Known(P[t][i], W2, F2, T2, X2)
                           /\ P[t][i].n > F2[P[t][i].sock] => W2[P[t][i].sock] = t
                      /\ \A i, j \in 1 .. Len(P[t]) : i < j => Before(P[t][i], P[t][j], F2)
                      /\ \A i \in 1 .. Len(H), j \in 1 .. Len(P[t]) : Before(H[i], P[t][j], F2)
    BY DEF PulledOnce
  <2>1. /\ \A i \in 1 .. Len(P[t]) :
              /\ Known(P[t][i], W, F, T, X)
              /\ P[t][i].n > F[P[t][i].sock] => W[P[t][i].sock] = t
        /\ \A i, j \in 1 .. Len(P[t]) : i < j => Before(P[t][i], P[t][j], F)
        /\ \A i \in 1 .. Len(H), j \in 1 .. Len(P[t]) : Before(H[i], P[t][j], F)
    BY <1>2 DEF PulledOnce
  <2>2. \A i \in 1 .. Len(H) : Known(H[i], W, F, T, X)
    BY <1>2 DEF HandledOnce
  <2>3. ASSUME NEW i \in 1 .. Len(P[t])
        PROVE  /\ Known(P[t][i], W2, F2, T2, X2)
               /\ P[t][i].n > F2[P[t][i].sock] => W2[P[t][i].sock] = t
    BY <1>3, <2>1
  <2>4. \A i, j \in 1 .. Len(P[t]) : i < j => Before(P[t][i], P[t][j], F2)
    BY <1>b, <2>1
  <2>5. \A i \in 1 .. Len(H), j \in 1 .. Len(P[t]) : Before(H[i], P[t][j], F2)
    BY <1>b, <2>1, <2>2
  <2> QED
    BY <2>3, <2>4, <2>5
<1>6. NoneDropped(H, P, W2, F2, T2, X2)
  <2> SUFFICES ASSUME NEW u \in Socks, W2[u] # NULL
               PROVE  /\ W2[u] \in 1 .. Len(P)
                      /\ \A n \in F2[u] + 1 .. T2[u] :
                            n \in X2[u] \/ Has(H, u, n) \/ Has(P[W2[u]], u, n)
    BY DEF NoneDropped
  <2>1. CASE u = s
    <3>1. F2[s] + 1 .. T2[s] = {}
      BY <1>o, <1>n
    <3> QED
      BY <1>o, <2>1, <3>1
  <2>2. CASE u # s
    BY <1>2, <1>o, <2>2 DEF NoneDropped
  <2> QED
    BY <2>1, <2>2
<1>7. \A u \in Socks : \A n \in X2[u] : n \in Nat /\ n <= T2[u]
  <2> SUFFICES ASSUME NEW u \in Socks, NEW n \in X2[u]
               PROVE  n \in Nat /\ n <= T2[u]
    OBVIOUS
  <2>1. n \in X[u]
    BY <1>o
  <2>2. n \in Nat /\ n <= T[u]
    BY <1>x, <2>1
  <2> QED
    BY <1>o, <1>n, <2>2
<1> QED
    BY <1>1, <1>o, <1>4, <1>5, <1>6, <1>7 DEF RecvInv

\* The next packet of socket s is released.
Drops(s, T, X, T2, X2) ==
    /\ T2 = [T EXCEPT ![s] = T[s] + 1]
    /\ X2[s] = X[s] \cup {T[s] + 1} /\ \A u \in Socks : u # s => X2[u] = X[u]

LEMMA Loses ==
    ASSUME NEW H, NEW P, NEW W, NEW F, NEW T, NEW X, RecvInv(H, P, W, F, T, X),
           NEW s \in Socks, NEW T2, NEW X2, Drops(s, T, X, T2, X2)
    PROVE  RecvInv(H, P, W, F, T2, X2)
<1> USE DEF Drops
<1>1. F \in [Socks -> Nat] /\ T \in [Socks -> Nat] /\ Len(H) \in Nat /\ Len(P) \in Nat
      /\ \A t \in 1 .. Len(P) : Len(P[t]) \in Nat
    BY DEF RecvInv
<1>x. \A u \in Socks : \A n \in X[u] : n \in Nat /\ n <= T[u]
    BY DEF RecvInv
<1>2. HandledOnce(H, W, F, T, X) /\ PulledOnce(H, P, W, F, T, X) /\ NoneDropped(H, P, W, F, T, X)
    BY DEF RecvInv
<1>3. /\ T2 \in [Socks -> Nat] /\ T[s] \in Nat /\ T2[s] = T[s] + 1
      /\ \A u \in Socks : T[u] \in Nat /\ T2[u] \in Nat /\ T[u] <= T2[u]
      /\ \A u \in Socks : u # s => T2[u] = T[u]
    BY <1>1
<1>4. ASSUME NEW p, Known(p, W, F, T, X)
      PROVE  Known(p, W, F, T2, X2)
  <2>1. p.sock \in Socks /\ p.n \in Nat /\ p.n <= T[p.sock] /\ p.n <= T2[p.sock]
    <3>1. p.sock \in Socks /\ p.n \in Nat /\ p.n <= T[p.sock]
      BY <1>4 DEF Known
    <3> QED
      BY <1>3, <3>1
  <2>2. p.n \notin X[p.sock] => p.n \notin X2[p.sock]
    <3>1. CASE p.sock = s
      <4>1. p.n # T[s] + 1
        BY <1>3, <2>1, <3>1
      <4> QED
        BY <3>1, <4>1
    <3>2. CASE p.sock # s
      BY <2>1, <3>2
    <3> QED
      BY <3>1, <3>2
  <2> QED
    BY <1>4, <2>1, <2>2 DEF Known
<1>5. HandledOnce(H, W, F, T2, X2)
    BY <1>2, <1>4 DEF HandledOnce
<1>6. PulledOnce(H, P, W, F, T2, X2)
    BY <1>2, <1>4 DEF PulledOnce
<1>7. NoneDropped(H, P, W, F, T2, X2)
  <2> SUFFICES ASSUME NEW u \in Socks, W[u] # NULL
               PROVE  /\ W[u] \in 1 .. Len(P)
                      /\ \A n \in F[u] + 1 .. T2[u] :
                            n \in X2[u] \/ Has(H, u, n) \/ Has(P[W[u]], u, n)
    BY DEF NoneDropped
  <2>1. /\ W[u] \in 1 .. Len(P)
        /\ \A n \in F[u] + 1 .. T[u] : n \in X[u] \/ Has(H, u, n) \/ Has(P[W[u]], u, n)
    BY <1>2 DEF NoneDropped
  <2>2. X[u] \subseteq X2[u]
    BY <1>3
  <2>3. ASSUME NEW n \in F[u] + 1 .. T2[u]
        PROVE  n \in X2[u] \/ Has(H, u, n) \/ Has(P[W[u]], u, n)
    <3>1. CASE n \in F[u] + 1 .. T[u]
      BY <2>1, <2>2, <3>1
    <3>2. CASE n \notin F[u] + 1 .. T[u]
      <4>1. F[u] \in Nat
        BY <1>1
      <4>2. u = s /\ n = T[s] + 1
        BY <1>3, <2>3, <3>2, <4>1
      <4> QED
        BY <4>2
    <3> QED
      BY <3>1, <3>2
  <2> QED
    BY <2>1, <2>3
<1>8. \A u \in Socks : \A n \in X2[u] : n \in Nat /\ n <= T2[u]
  <2> SUFFICES ASSUME NEW u \in Socks, NEW n \in X2[u]
               PROVE  n \in Nat /\ n <= T2[u]
    OBVIOUS
  <2>1. CASE n \in X[u]
    <3>1. n \in Nat /\ n <= T[u]
      BY <1>x, <2>1
    <3> QED
      BY <1>3, <3>1
  <2>2. CASE n \notin X[u]
    <3>1. u = s /\ n = T[s] + 1
      BY <2>2
    <3> QED
      BY <1>3, <3>1
  <2> QED
    BY <2>1, <2>2
<1> QED
    BY <1>1, <1>3, <1>5, <1>6, <1>7, <1>8 DEF RecvInv

\* A session is made.
LEMMA RecvsNew ==
    ASSUME NEW H, NEW P, NEW W, NEW F, NEW T, NEW X, RecvInv(H, P, W, F, T, X),
           NEW P2, Len(P2) = Len(P) + 1, Len(P2[Len(P) + 1]) = 0,
           \A t \in 1 .. Len(P) : P2[t] = P[t]
    PROVE  RecvInv(H, P2, W, F, T, X)
<1>1. F \in [Socks -> Nat] /\ T \in [Socks -> Nat] /\ Len(H) \in Nat /\ Len(P) \in Nat
      /\ \A t \in 1 .. Len(P) : Len(P[t]) \in Nat
    BY DEF RecvInv
<1>x. \A u \in Socks : \A n \in X[u] : n \in Nat /\ n <= T[u]
    BY DEF RecvInv
<1>2. HandledOnce(H, W, F, T, X) /\ PulledOnce(H, P, W, F, T, X) /\ NoneDropped(H, P, W, F, T, X)
    BY DEF RecvInv
<1>3. \A t \in 1 .. Len(P2) : \/ t \in 1 .. Len(P) /\ P2[t] = P[t]
                              \/ Len(P2[t]) = 0
  <2> TAKE t \in 1 .. Len(P2)
  <2>1. t \in 1 .. Len(P) \/ t = Len(P) + 1
    BY <1>1
  <2> QED
    BY <2>1
<1>4. PulledOnce(H, P2, W, F, T, X)
  <2> SUFFICES ASSUME NEW t \in 1 .. Len(P2)
               PROVE  /\ \A i \in 1 .. Len(P2[t]) :
                           /\ Known(P2[t][i], W, F, T, X)
                           /\ P2[t][i].n > F[P2[t][i].sock] => W[P2[t][i].sock] = t
                      /\ \A i, j \in 1 .. Len(P2[t]) : i < j => Before(P2[t][i], P2[t][j], F)
                      /\ \A i \in 1 .. Len(H), j \in 1 .. Len(P2[t]) : Before(H[i], P2[t][j], F)
    BY DEF PulledOnce
  <2>1. CASE t \in 1 .. Len(P) /\ P2[t] = P[t]
    BY <1>2, <2>1 DEF PulledOnce
  <2>2. CASE Len(P2[t]) = 0
    <3>1. 1 .. Len(P2[t]) = {}
      BY <2>2
    <3> QED
      BY <3>1
  <2> QED
    BY <1>3, <2>1, <2>2
<1>5. NoneDropped(H, P2, W, F, T, X)
  <2> SUFFICES ASSUME NEW u \in Socks, W[u] # NULL
               PROVE  /\ W[u] \in 1 .. Len(P2)
                      /\ \A n \in F[u] + 1 .. T[u] :
                            n \in X[u] \/ Has(H, u, n) \/ Has(P2[W[u]], u, n)
    BY DEF NoneDropped
  <2>1. /\ W[u] \in 1 .. Len(P)
        /\ \A n \in F[u] + 1 .. T[u] : n \in X[u] \/ Has(H, u, n) \/ Has(P[W[u]], u, n)
    BY <1>2 DEF NoneDropped
  <2>2. W[u] \in 1 .. Len(P2)
    BY <1>1, <2>1
  <2> QED
    BY <2>1, <2>2
<1>6. \A t \in 1 .. Len(P2) : Len(P2[t]) \in Nat
    BY <1>1, <1>3
<1>7. Len(P2) \in Nat
    BY <1>1
<1> QED
    BY <1>1, <1>x, <1>2, <1>4, <1>5, <1>6, <1>7 DEF RecvInv

---------------------------------------------------------------------------------
(* The state as those two see it.                                            *)

Session == [alive : BOOLEAN, socket : Socks, send : Seq(Nat), recv : Seq(Pack)]
Socket  == [valid : BOOLEAN, ready : BOOLEAN, recv : Seq(Pack), session : Nat \cup {NULL}]

keeps(sess) == [i \in 1 .. Len(sess) |-> sess[i].send]
pulls(sess) == [i \in 1 .. Len(sess) |-> sess[i].recv]
sessionOf(socks) == [s \in Socks |-> socks[s].session]
taken(socks, came) == [s \in Socks |-> came[s] - Len(socks[s].recv)]
released(last, lost) == [s \in Socks |-> last[s] + 1 .. last[s] + lost[s]]

LEMMA SessionParts ==
    ASSUME NEW sess \in Seq(Session)
    PROVE  /\ Len(sess) \in Nat
           /\ \A i \in 1 .. Len(sess) : /\ sess[i] \in Session /\ sess[i].send \in Seq(Nat)
                                        /\ sess[i].recv \in Seq(Pack) /\ sess[i].socket \in Socks
           /\ keeps(sess) \in Seq(Seq(Nat)) /\ Len(keeps(sess)) = Len(sess)
           /\ pulls(sess) \in Seq(Seq(Pack)) /\ Len(pulls(sess)) = Len(sess)
           /\ \A i \in 1 .. Len(sess) : keeps(sess)[i] = sess[i].send /\ pulls(sess)[i] = sess[i].recv
<1>1. Len(sess) \in Nat /\ \A i \in 1 .. Len(sess) : sess[i] \in Session
    BY ElementOfSeq, LenProperties
<1>2. \A i \in 1 .. Len(sess) : /\ sess[i].send \in Seq(Nat) /\ sess[i].recv \in Seq(Pack)
                                /\ sess[i].socket \in Socks
    BY <1>1 DEF Session
<1>3. PICK n \in Nat : n = Len(sess)
    BY <1>1
<1>4. keeps(sess) \in Seq(Seq(Nat)) /\ Len(keeps(sess)) = n
  <2>1. keeps(sess) \in [1 .. n -> Seq(Nat)]
    BY <1>2, <1>3 DEF keeps
  <2> QED
    BY <2>1, LenProperties, SeqDef
<1>5. pulls(sess) \in Seq(Seq(Pack)) /\ Len(pulls(sess)) = n
  <2>1. pulls(sess) \in [1 .. n -> Seq(Pack)]
    BY <1>2, <1>3 DEF pulls
  <2> QED
    BY <2>1, LenProperties, SeqDef
<1>6. \A i \in 1 .. Len(sess) : keeps(sess)[i] = sess[i].send /\ pulls(sess)[i] = sess[i].recv
    BY DEF keeps, pulls
<1> QED
    BY <1>1, <1>2, <1>3, <1>4, <1>5, <1>6

\* Session sid of sess has become x.
Replaced(y, sess, sid, x) ==
    /\ y \in Seq(Session) /\ Len(y) = Len(sess)
    /\ keeps(y) = [keeps(sess) EXCEPT ![sid] = x.send]
    /\ pulls(y) = [pulls(sess) EXCEPT ![sid] = x.recv]

LEMMA SessionExcept ==
    ASSUME NEW sess \in Seq(Session), NEW sid \in 1 .. Len(sess), NEW x \in Session,
           NEW y, y = [sess EXCEPT ![sid] = x]
    PROVE  Replaced(y, sess, sid, x)
<1>2. /\ y \in Seq(Session) /\ Len(y) = Len(sess) /\ y[sid] = x
      /\ \A i \in 1 .. Len(sess) : i # sid => y[i] = sess[i]
    BY ExceptSeq
<1>3. keeps(y) = [keeps(sess) EXCEPT ![sid] = x.send]
    BY ONLY <1>2, sid \in 1 .. Len(sess) DEF keeps
<1>4. pulls(y) = [pulls(sess) EXCEPT ![sid] = x.recv]
    BY ONLY <1>2, sid \in 1 .. Len(sess) DEF pulls
<1> QED
    BY <1>2, <1>3, <1>4 DEF Replaced

LEMMA SessionAppend ==
    ASSUME NEW sess \in Seq(Session), NEW x \in Session
    PROVE  /\ Append(sess, x) \in Seq(Session)
           /\ Len(Append(sess, x)) = Len(sess) + 1
           /\ keeps(Append(sess, x)) = Append(keeps(sess), x.send)
           /\ pulls(Append(sess, x)) = Append(pulls(sess), x.recv)
<1>0. /\ Len(sess) \in Nat
      /\ keeps(sess) \in Seq(Seq(Nat)) /\ Len(keeps(sess)) = Len(sess)
      /\ pulls(sess) \in Seq(Seq(Pack)) /\ Len(pulls(sess)) = Len(sess)
      /\ \A i \in 1 .. Len(sess) : keeps(sess)[i] = sess[i].send /\ pulls(sess)[i] = sess[i].recv
    BY SessionParts
<1>1. PICK y : y = Append(sess, x)
    OBVIOUS
<1>2. /\ y \in Seq(Session) /\ Len(y) = Len(sess) + 1 /\ y[Len(sess) + 1] = x
      /\ \A i \in 1 .. Len(sess) : y[i] = sess[i]
    BY <1>1, AppendProperties
<1>3. /\ keeps(y) \in Seq(Seq(Nat)) /\ Len(keeps(y)) = Len(y)
      /\ pulls(y) \in Seq(Seq(Pack)) /\ Len(pulls(y)) = Len(y)
      /\ \A i \in 1 .. Len(y) : keeps(y)[i] = y[i].send /\ pulls(y)[i] = y[i].recv
    BY <1>2, SessionParts
<1>4. x.send \in Seq(Nat) /\ x.recv \in Seq(Pack)
    BY DEF Session
<1>5. \A i \in 1 .. Len(y) : i \in 1 .. Len(sess) \/ i = Len(sess) + 1
    BY <1>0, <1>2
<1>6. keeps(y) = Append(keeps(sess), x.send)
  <2>1. PICK z : z = Append(keeps(sess), x.send)
    OBVIOUS
  <2>2. /\ z \in Seq(Seq(Nat)) /\ Len(z) = Len(sess) + 1 /\ z[Len(sess) + 1] = x.send
        /\ \A i \in 1 .. Len(sess) : z[i] = keeps(sess)[i]
    BY <1>0, <1>4, <2>1, AppendProperties
  <2>3. \A i \in 1 .. Len(y) : keeps(y)[i] = z[i]
    BY <1>0, <1>2, <1>3, <1>5, <2>2
  <2>4. Len(keeps(y)) = Len(z)
    BY <1>2, <1>3, <2>2
  <2> QED
    BY <1>3, <2>1, <2>2, <2>3, <2>4, SeqEqual
<1>7. pulls(y) = Append(pulls(sess), x.recv)
  <2>1. PICK z : z = Append(pulls(sess), x.recv)
    OBVIOUS
  <2>2. /\ z \in Seq(Seq(Pack)) /\ Len(z) = Len(sess) + 1 /\ z[Len(sess) + 1] = x.recv
        /\ \A i \in 1 .. Len(sess) : z[i] = pulls(sess)[i]
    BY <1>0, <1>4, <2>1, AppendProperties
  <2>3. \A i \in 1 .. Len(y) : pulls(y)[i] = z[i]
    BY <1>0, <1>2, <1>3, <1>5, <2>2
  <2>4. Len(pulls(y)) = Len(z)
    BY <1>2, <1>3, <2>2
  <2> QED
    BY <1>3, <2>1, <2>2, <2>3, <2>4, SeqEqual
<1> QED
    BY <1>1, <1>2, <1>6, <1>7

---------------------------------------------------------------------------------
(* The invariant.                                                            *)

Typed ==
    /\ t_socks \in [Socks -> Socket] /\ t_sess \in Seq(Session) /\ t_handled \in Seq(Pack)
    /\ t_came \in [Socks -> Nat] /\ t_from \in [Socks -> Nat]
    /\ t_last \in [Socks -> Nat] /\ t_lost \in [Socks -> Nat]
    /\ t_loop \in [sock : Socks \cup {NULL}, rest : Nat]
    /\ t_out \in Seq(Nat) /\ \A i \in 1 .. Len(t_out) : t_out[i] \in 1 .. Len(t_sess)

\* A socket's queue ends with the last packet that came; it has them all before the session.
Waiting ==
    \A s \in Socks :
        /\ t_from[s] + Len(t_socks[s].recv) <= t_came[s]
        /\ t_socks[s].session = NULL => t_from[s] + Len(t_socks[s].recv) = t_came[s]
        /\ \A i \in 1 .. Len(t_socks[s].recv) :
              /\ t_socks[s].recv[i].sock = s
              /\ t_socks[s].recv[i].n = t_came[s] - Len(t_socks[s].recv) + i

\* The loop that made a session goes on where it pulled, for no longer than it counted.
Looping ==
    /\ \A s \in Socks : t_lost[s] <= t_last[s]
    /\ t_loop # NoLoop =>
         /\ t_loop.sock \in Socks /\ t_loop.rest \in Nat \ {0}
         /\ t_loop.rest <= t_came[t_loop.sock]
         /\ t_socks[t_loop.sock].session # NULL =>
               /\ t_last[t_loop.sock] + t_lost[t_loop.sock]
                     = t_came[t_loop.sock] - Len(t_socks[t_loop.sock].recv)
               /\ t_lost[t_loop.sock] + t_loop.rest <= t_last[t_loop.sock]

Sending == SendInv(t_sent, t_given, keeps(t_sess))

Receiving == RecvInv(t_handled, pulls(t_sess), sessionOf(t_socks), t_from, taken(t_socks, t_came),
                     released(t_last, t_lost))

TerminalInv == Typed /\ Waiting /\ Looping /\ Sending /\ Receiving

\* What the parts of Typed say of one session and of one socket.
LEMMA TypedParts ==
    ASSUME Typed
    PROVE  /\ Len(t_sess) \in Nat
           /\ \A s \in Socks : /\ t_socks[s] \in Socket
                               /\ t_socks[s].recv \in Seq(Pack) /\ Len(t_socks[s].recv) \in Nat
                               /\ t_socks[s].session \in Nat \cup {NULL}
                               /\ t_came[s] \in Nat /\ t_from[s] \in Nat
                               /\ t_last[s] \in Nat /\ t_lost[s] \in Nat
<1>1. \A s \in Socks : /\ t_socks[s] \in Socket /\ t_came[s] \in Nat /\ t_from[s] \in Nat
                       /\ t_last[s] \in Nat /\ t_lost[s] \in Nat
    BY DEF Typed
<1>2. \A s \in Socks : t_socks[s].recv \in Seq(Pack) /\ t_socks[s].session \in Nat \cup {NULL}
    BY <1>1 DEF Socket
<1>3. \A s \in Socks : Len(t_socks[s].recv) \in Nat
    BY <1>2
<1>4. Len(t_sess) \in Nat
    BY DEF Typed
<1> QED
    BY <1>1, <1>2, <1>3, <1>4

\* The start.
LEMMA TerminalStarts ==
    ASSUME TerminalInit
    PROVE  TerminalInv
<1>1. <<>> \in Seq(Nat) /\ <<>> \in Seq(Pack) /\ <<>> \in Seq(Session) /\ Len(<<>>) = 0
    BY EmptySeq
<1>2. \A s \in Socks : /\ t_socks[s] \in Socket /\ t_socks[s].recv = <<>> /\ t_socks[s].session = NULL
                       /\ t_came[s] = 0 /\ t_from[s] = 0 /\ t_last[s] = 0 /\ t_lost[s] = 0
  <2> TAKE s \in Socks
  <2>1. t_socks[s] = [valid |-> TRUE, ready |-> FALSE, recv |-> <<>>, session |-> NULL]
    BY DEF TerminalInit
  <2>2. t_came[s] = 0 /\ t_from[s] = 0 /\ t_last[s] = 0 /\ t_lost[s] = 0
    BY DEF TerminalInit
  <2> QED
    BY <1>1, <2>1, <2>2 DEF Socket
<1>3. /\ t_socks \in [Socks -> Socket] /\ t_came \in [Socks -> Nat] /\ t_from \in [Socks -> Nat]
      /\ t_last \in [Socks -> Nat] /\ t_lost \in [Socks -> Nat]
  <2>1. /\ t_came \in [Socks -> Nat] /\ t_from \in [Socks -> Nat]
        /\ t_last \in [Socks -> Nat] /\ t_lost \in [Socks -> Nat]
    BY DEF TerminalInit
  <2>2. t_socks = [s \in Socks |-> t_socks[s]]
    BY DEF TerminalInit
  <2> QED
    BY <1>2, <2>1, <2>2
<1>4. Typed
  <2>1. t_out = <<>> /\ t_sess = <<>> /\ t_handled = <<>> /\ 1 .. Len(t_out) = {}
    BY <1>1 DEF TerminalInit
  <2> QED
    BY <1>1, <1>3, <2>1 DEF Typed, TerminalInit, NoLoop
<1>5. Waiting
  <2> SUFFICES ASSUME NEW s \in Socks
               PROVE  /\ t_from[s] + Len(t_socks[s].recv) <= t_came[s]
                      /\ t_socks[s].session = NULL => t_from[s] + Len(t_socks[s].recv) = t_came[s]
                      /\ \A i \in 1 .. Len(t_socks[s].recv) :
                           /\ t_socks[s].recv[i].sock = s
                           /\ t_socks[s].recv[i].n = t_came[s] - Len(t_socks[s].recv) + i
    BY DEF Waiting
  <2>1. Len(t_socks[s].recv) = 0 /\ t_came[s] = 0 /\ t_from[s] = 0
    BY <1>1, <1>2
  <2>2. 1 .. Len(t_socks[s].recv) = {}
    BY <2>1
  <2> QED
    BY <2>1, <2>2
<1>6. /\ keeps(t_sess) \in Seq(Seq(Nat)) /\ Len(keeps(t_sess)) = 0
      /\ pulls(t_sess) \in Seq(Seq(Pack)) /\ Len(pulls(t_sess)) = 0
    BY <1>1, SessionParts DEF TerminalInit
<1>7. Sending
  <2>1. t_sent = <<>> /\ t_given = <<>>
    BY DEF TerminalInit
  <2>2. PICK K : K = keeps(t_sess)
    OBVIOUS
  <2>3. 1 .. Len(t_sent) = {} /\ 1 .. Len(t_given) = {} /\ 1 .. Len(K) = {}
    BY <1>1, <1>6, <2>1, <2>2
  <2>4. /\ Numbers(t_sent, t_given, K) /\ GivenInOrder(t_sent, t_given)
        /\ KeptInOrder(t_sent, t_given, K) /\ NoneLost(t_sent, t_given, K)
    BY <2>3 DEF Numbers, GivenInOrder, KeptInOrder, NoneLost
  <2> QED
    BY <1>1, <1>6, <2>1, <2>2, <2>4 DEF Sending, SendInv
<1>9. Looping
    BY <1>2 DEF Looping, TerminalInit
<1>8. Receiving
  <2>1. t_handled = <<>>
    BY DEF TerminalInit
  <2>2. PICK P, W, T, X : /\ P = pulls(t_sess) /\ W = sessionOf(t_socks)
                          /\ T = taken(t_socks, t_came) /\ X = released(t_last, t_lost)
    OBVIOUS
  <2>3. 1 .. Len(t_handled) = {} /\ 1 .. Len(P) = {} /\ \A s \in Socks : W[s] = NULL
    BY <1>1, <1>2, <1>6, <2>1, <2>2 DEF sessionOf
  <2>4. /\ HandledOnce(t_handled, W, t_from, T, X) /\ PulledOnce(t_handled, P, W, t_from, T, X)
        /\ NoneDropped(t_handled, P, W, t_from, T, X)
    BY <2>3 DEF HandledOnce, PulledOnce, NoneDropped
  <2>5. T \in [Socks -> Nat]
    <3>1. \A s \in Socks : t_came[s] - Len(t_socks[s].recv) = 0
      BY <1>1, <1>2
    <3> QED
      BY <2>2, <3>1 DEF taken
  <2>6. \A s \in Socks : X[s] = {}
    BY <1>2, <2>2 DEF released
  <2> QED
    BY <1>1, <1>3, <1>6, <2>1, <2>2, <2>3, <2>4, <2>5, <2>6 DEF Receiving, RecvInv
<1> QED
    BY <1>4, <1>5, <1>7, <1>8, <1>9 DEF TerminalInv

\* Sockets that become writable or break, and sessions that are deleted.
LEMMA FlagsStep ==
    ASSUME TerminalInv, NEW s \in Socks, writable(s) \/ breaks(s)
    PROVE  TerminalInv'
<1>0. Typed /\ Waiting /\ Looping /\ Sending /\ Receiving
    BY DEF TerminalInv
<1>1. UNCHANGED <<t_sess, t_out, t_sent, t_given, t_came, t_loop, t_from, t_last, t_lost, t_handled>>
    BY DEF writable, breaks, loopVars
<1>2. PICK x : t_socks' = [t_socks EXCEPT ![s] = x] /\ x \in Socket
               /\ x.recv = t_socks[s].recv /\ x.session = t_socks[s].session
  <2>1. t_socks[s] \in Socket
    BY <1>0, TypedParts
  <2>2. CASE writable(s)
    <3>1. PICK x : x = [t_socks[s] EXCEPT !.ready = TRUE]
      OBVIOUS
    <3>2. t_socks' = [t_socks EXCEPT ![s] = x]
      BY <2>2, <3>1 DEF writable
    <3>3. x \in Socket /\ x.recv = t_socks[s].recv /\ x.session = t_socks[s].session
      BY ONLY <2>1, <3>1 DEF Socket
    <3> QED
      BY <3>2, <3>3
  <2>3. CASE breaks(s)
    <3>1. PICK x : x = [t_socks[s] EXCEPT !.valid = FALSE]
      OBVIOUS
    <3>2. t_socks' = [t_socks EXCEPT ![s] = x]
      BY <2>3, <3>1 DEF breaks
    <3>3. x \in Socket /\ x.recv = t_socks[s].recv /\ x.session = t_socks[s].session
      BY ONLY <2>1, <3>1 DEF Socket
    <3> QED
      BY <3>2, <3>3
  <2> QED
    BY <2>2, <2>3
<1>3. t_socks \in [Socks -> Socket]
    BY <1>0 DEF Typed
<1>4. t_socks' \in [Socks -> Socket]
    BY <1>2, <1>3
<1>5. \A u \in Socks : t_socks'[u].recv = t_socks[u].recv /\ t_socks'[u].session = t_socks[u].session
    BY <1>2, <1>3
<1>6. Typed'
    BY <1>0, <1>1, <1>4 DEF Typed
<1>7. Waiting'
    BY <1>0, <1>1, <1>5 DEF Waiting
<1>8. Sending'
    BY <1>0, <1>1 DEF Sending, keeps
<1>9. sessionOf(t_socks') = sessionOf(t_socks) /\ taken(t_socks', t_came) = taken(t_socks, t_came)
    BY <1>5 DEF sessionOf, taken
<1>10. Receiving'
    BY <1>0, <1>1, <1>9 DEF Receiving, pulls
<1>11. Looping'
    BY <1>0, <1>1, <1>5 DEF Looping
<1> QED
    BY <1>6, <1>7, <1>8, <1>10, <1>11 DEF TerminalInv

\* A step that gives one session another value and leaves the sockets alone.
LEMMA SessionStep ==
    ASSUME TerminalInv, NEW sid \in 1 .. Len(t_sess), NEW x \in Session,
           t_sess' = [t_sess EXCEPT ![sid] = x], x.recv = t_sess[sid].recv,
           UNCHANGED <<t_socks, t_came, loopVars, t_handled>>,
           t_out' = t_out \/ t_out' = <<>> \/ t_out' = Append(t_out, sid)
    PROVE  /\ Typed' /\ Waiting' /\ Looping' /\ Receiving'
           /\ keeps(t_sess)' = [keeps(t_sess) EXCEPT ![sid] = x.send]
<1>0. Typed /\ Waiting /\ Looping /\ Sending /\ Receiving
    BY DEF TerminalInv
<1>1. t_sess \in Seq(Session) /\ Len(t_sess) \in Nat
    BY <1>0 DEF Typed
<1>2. /\ t_sess' \in Seq(Session) /\ Len(t_sess') = Len(t_sess)
      /\ keeps(t_sess') = [keeps(t_sess) EXCEPT ![sid] = x.send]
      /\ pulls(t_sess') = [pulls(t_sess) EXCEPT ![sid] = x.recv]
  <2>1. Replaced(t_sess', t_sess, sid, x)
    BY <1>1, SessionExcept
  <2> QED
    BY <2>1 DEF Replaced
<1>3. pulls(t_sess') = pulls(t_sess)
    BY <1>1, <1>2 DEF pulls
<1>4. t_out' \in Seq(Nat) /\ \A i \in 1 .. Len(t_out') : t_out'[i] \in 1 .. Len(t_sess)
  <2>1. t_out \in Seq(Nat) /\ \A i \in 1 .. Len(t_out) : t_out[i] \in 1 .. Len(t_sess)
    BY <1>0 DEF Typed
  <2>2. CASE t_out' = t_out
    BY <2>1, <2>2
  <2>3. CASE t_out' = <<>>
    <3>1. t_out' \in Seq(Nat) /\ Len(t_out') = 0
      BY <2>3, EmptySeq
    <3>2. 1 .. Len(t_out') = {}
      BY <3>1
    <3> QED
      BY <3>1, <3>2
  <2>4. CASE t_out' = Append(t_out, sid)
    <3>1. PICK y : y = Append(t_out, sid)
      OBVIOUS
    <3>2. sid \in Nat
      BY <1>1
    <3>3. /\ y \in Seq(Nat) /\ Len(y) = Len(t_out) + 1 /\ y[Len(t_out) + 1] = sid
          /\ \A i \in 1 .. Len(t_out) : y[i] = t_out[i]
      BY <2>1, <3>1, <3>2, AppendProperties
    <3>4. \A i \in 1 .. Len(y) : i \in 1 .. Len(t_out) \/ i = Len(t_out) + 1
      BY <2>1, <3>3
    <3>5. \A i \in 1 .. Len(y) : y[i] \in 1 .. Len(t_sess)
      BY <2>1, <3>3, <3>4
    <3> QED
      <4>1. t_out' = y
        BY <2>4, <3>1
      <4>2. y \in Seq(Nat)
        BY <3>3
      <4> QED
        BY ONLY <3>5, <4>1, <4>2
  <2> QED
    BY <2>2, <2>3, <2>4
<1>5. Typed'
    BY <1>0, <1>2, <1>4 DEF Typed, loopVars
<1>6. Waiting' /\ Looping'
    BY <1>0 DEF Waiting, Looping, loopVars
<1>7. Receiving'
    BY <1>0, <1>3 DEF Receiving, loopVars
<1> QED
    BY <1>2, <1>5, <1>6, <1>7

LEMMA DeleteStep ==
    ASSUME TerminalInv, NEW sid \in 1 .. Len(t_sess), delSession(sid)
    PROVE  TerminalInv'
<1>0. Typed /\ Sending
    BY DEF TerminalInv
<1>1. t_sess[sid] \in Session /\ t_sess \in Seq(Session)
    BY <1>0, SessionParts DEF Typed
<1>2. PICK x : x = [t_sess[sid] EXCEPT !.alive = FALSE]
    OBVIOUS
<1>3. x \in Session /\ x.recv = t_sess[sid].recv /\ x.send = t_sess[sid].send
    BY <1>1, <1>2 DEF Session
<1>4. t_sess' = [t_sess EXCEPT ![sid] = x] /\ UNCHANGED <<t_socks, t_out, t_sent, t_given, t_came, loopVars, t_handled>>
    BY <1>2 DEF delSession
<1>5. Typed' /\ Waiting' /\ Looping' /\ Receiving' /\ keeps(t_sess)' = [keeps(t_sess) EXCEPT ![sid] = x.send]
    BY <1>3, <1>4, SessionStep
<1>6. keeps(t_sess)' = keeps(t_sess)
    BY <1>3, <1>5 DEF keeps
<1>7. Sending'
    BY <1>0, <1>4, <1>6 DEF Sending
<1> QED
    BY <1>5, <1>7 DEF TerminalInv

\* A packet is sent, to a socket or to be kept.
LEMMA SendStep ==
    ASSUME TerminalInv, NEW sid \in 1 .. Len(t_sess), sendProtocol(sid)
    PROVE  TerminalInv'
<1>0. Typed /\ Waiting /\ Looping /\ Sending /\ Receiving
    BY DEF TerminalInv
<1>1. t_sess \in Seq(Session)
    BY <1>0 DEF Typed
<1>2. /\ t_sess[sid] \in Session /\ t_sess[sid].send \in Seq(Nat)
      /\ Len(keeps(t_sess)) = Len(t_sess) /\ keeps(t_sess)[sid] = t_sess[sid].send
    BY <1>1, SessionParts
<1>3. UNCHANGED <<t_socks, t_came, loopVars, t_handled>> /\ t_sent' = Append(t_sent, sid)
    BY DEF sendProtocol, sessionSendPacket
<1>4. t_out' = t_out \/ t_out' = Append(t_out, sid)
    BY DEF sendProtocol, sessionSendPacket
<1>5. CASE direct(t_sess[sid])
  <2>1. t_given' = Append(t_given, Len(t_sent) + 1) /\ t_sess' = t_sess
    BY <1>5 DEF sendProtocol, sessionSendPacket
  <2>2. t_sess' = [t_sess EXCEPT ![sid] = t_sess[sid]]
    BY <1>1, <2>1
  <2>3. Typed' /\ Waiting' /\ Looping' /\ Receiving'
    BY <1>2, <1>3, <1>4, <2>2, SessionStep
  <2>4. t_sess[sid].send = <<>>
    BY <1>5 DEF direct
  <2>5. Len(keeps(t_sess)[sid]) = 0
    BY <1>2, <2>4, EmptySeq
  <2>6. PICK K : K = keeps(t_sess)
    OBVIOUS
  <2>7. SendInv(Append(t_sent, sid), Append(t_given, Len(t_sent) + 1), K)
    <3>1. SendInv(t_sent, t_given, K) /\ sid \in 1 .. Len(K) /\ Len(K[sid]) = 0
      BY <1>0, <1>2, <2>5, <2>6 DEF Sending
    <3> QED
      BY ONLY <3>1, SendsDirect
  <2>8. K = keeps(t_sess')
    BY <2>1, <2>6
  <2>9. Sending'
    BY <1>3, <2>1, <2>7, <2>8 DEF Sending
  <2> QED
    BY <2>3, <2>9 DEF TerminalInv
<1>6. CASE ~ direct(t_sess[sid])
  <2>1. t_given' = t_given /\ t_sess' = [t_sess EXCEPT ![sid].send = Append(@, Len(t_sent) + 1)]
    BY <1>6 DEF sendProtocol, sessionSendPacket
  <2>2. PICK x : x = [t_sess[sid] EXCEPT !.send = Append(t_sess[sid].send, Len(t_sent) + 1)]
    OBVIOUS
  <2>3. t_sess' = [t_sess EXCEPT ![sid] = x]
    BY <2>1, <2>2
  <2>4. Append(t_sess[sid].send, Len(t_sent) + 1) \in Seq(Nat)
    <3>1. Len(t_sent) + 1 \in Nat
      BY <1>0 DEF Sending, SendInv
    <3> QED
      BY <1>2, <3>1, AppendProperties
  <2>5. /\ x \in Session /\ x.recv = t_sess[sid].recv
        /\ x.send = Append(t_sess[sid].send, Len(t_sent) + 1)
    BY ONLY <1>2, <2>2, <2>4 DEF Session
  <2>6. Typed' /\ Waiting' /\ Looping' /\ Receiving' /\ keeps(t_sess)' = [keeps(t_sess) EXCEPT ![sid] = x.send]
    BY <1>3, <1>4, <2>3, <2>5, SessionStep
  <2>7. PICK K : K = keeps(t_sess)
    OBVIOUS
  <2>8. SendInv(Append(t_sent, sid), t_given, [K EXCEPT ![sid] = Append(K[sid], Len(t_sent) + 1)])
    <3>1. SendInv(t_sent, t_given, K) /\ sid \in 1 .. Len(K)
      BY <1>0, <1>2, <2>7 DEF Sending
    <3> QED
      BY ONLY <3>1, SendsLater
  <2>9. keeps(t_sess') = [K EXCEPT ![sid] = Append(K[sid], Len(t_sent) + 1)]
    BY <1>2, <2>5, <2>6, <2>7
  <2>10. Sending'
    BY <1>3, <2>1, <2>8, <2>9 DEF Sending
  <2> QED
    BY <2>6, <2>10 DEF TerminalInv
<1> QED
    BY <1>5, <1>6

\* A session that is listed sends what it kept, or the memory is no session.
LEMMA UpdateStep ==
    ASSUME TerminalInv, update
    PROVE  TerminalInv'
<1>0. Typed /\ Waiting /\ Looping /\ Sending /\ Receiving
    BY DEF TerminalInv
<1>1. t_sess \in Seq(Session)
    BY <1>0 DEF Typed
<1>2. PICK sid \in 1 .. Len(t_sess) : sid = Head(t_out)
  <2>1. /\ t_out \in Seq(Nat) /\ t_out # <<>>
        /\ \A i \in 1 .. Len(t_out) : t_out[i] \in 1 .. Len(t_sess)
    BY <1>0 DEF Typed, update
  <2>2. Len(t_out) \in Nat \ {0}
    BY <2>1, EmptySeq
  <2>3. Head(t_out) = t_out[1] /\ 1 \in 1 .. Len(t_out)
    BY <2>1, <2>2
  <2> QED
    BY <2>1, <2>3
<1>3. /\ t_sess[sid] \in Session /\ t_sess[sid].send \in Seq(Nat) /\ Len(t_sess[sid].send) \in Nat
      /\ Len(keeps(t_sess)) = Len(t_sess) /\ keeps(t_sess)[sid] = t_sess[sid].send
    BY <1>1, SessionParts
<1>4. UNCHANGED <<t_socks, t_sent, t_came, loopVars, t_handled>> /\ t_out' = <<>>
    BY DEF update
<1>5. CASE UNCHANGED <<t_sess, t_given>>
  <2>1. t_sess' = [t_sess EXCEPT ![sid] = t_sess[sid]]
    BY <1>1, <1>5
  <2>2. Typed' /\ Waiting' /\ Looping' /\ Receiving'
    BY <1>3, <1>4, <2>1, SessionStep
  <2>3. Sending'
    BY <1>0, <1>4, <1>5 DEF Sending, keeps
  <2> QED
    BY <2>2, <2>3 DEF TerminalInv
<1>6. ASSUME NEW k \in flushes(t_sess[sid]),
             t_given' = t_given \o SubSeq(t_sess[sid].send, 1, k),
             t_sess' = [t_sess EXCEPT ![sid].send = SubSeq(@, k + 1, Len(@))]
      PROVE  TerminalInv'
  <2>1. k \in 0 .. Len(t_sess[sid].send)
    <3>1. CASE t_sess[sid].send = <<>>
      BY <1>3, <1>6, <3>1 DEF flushes
    <3>2. CASE t_sess[sid].send # <<>>
      <4>1. Len(t_sess[sid].send) \in Nat \ {0}
        BY <1>3, <3>2, EmptySeq
      <4>2. k = Len(t_sess[sid].send) \/ k \in 1 .. Len(t_sess[sid].send) \/ k = 1
        BY <1>6, <3>2 DEF flushes
      <4> QED
        BY <4>1, <4>2
    <3> QED
      BY <3>1, <3>2
  <2>2. PICK l : l = SubSeq(t_sess[sid].send, k + 1, Len(t_sess[sid].send))
    OBVIOUS
  <2>3. l \in Seq(Nat)
    <3>1. \A i \in k + 1 .. Len(t_sess[sid].send) : t_sess[sid].send[i] \in Nat
      BY <1>3, <2>1
    <3>2. k + 1 \in Int /\ Len(t_sess[sid].send) \in Int
      BY <1>3, <2>1
    <3> QED
      BY <2>2, <3>1, <3>2, SubSeqProperties
  <2>4. PICK x : x = [t_sess[sid] EXCEPT !.send = l]
    OBVIOUS
  <2>5. x \in Session /\ x.recv = t_sess[sid].recv /\ x.send = l
    BY ONLY <1>3, <2>3, <2>4 DEF Session
  <2>6. t_sess' = [t_sess EXCEPT ![sid] = x]
    BY <1>6, <2>2, <2>4
  <2>7. Typed' /\ Waiting' /\ Looping' /\ Receiving' /\ keeps(t_sess)' = [keeps(t_sess) EXCEPT ![sid] = x.send]
    BY <1>4, <2>5, <2>6, SessionStep
  <2>8. PICK K : K = keeps(t_sess)
    OBVIOUS
  <2>9. SendInv(t_sent, t_given \o SubSeq(K[sid], 1, k),
                [K EXCEPT ![sid] = SubSeq(K[sid], k + 1, Len(K[sid]))])
    <3>1. SendInv(t_sent, t_given, K) /\ sid \in 1 .. Len(K) /\ k \in 0 .. Len(K[sid])
      BY <1>0, <1>3, <2>1, <2>8 DEF Sending
    <3> QED
      BY ONLY <3>1, SendsKept
  <2>10. keeps(t_sess') = [K EXCEPT ![sid] = SubSeq(K[sid], k + 1, Len(K[sid]))]
    BY <1>3, <2>2, <2>5, <2>7, <2>8
  <2>11. t_given' = t_given \o SubSeq(K[sid], 1, k)
    BY <1>3, <1>6, <2>8
  <2>12. Sending'
    BY <1>4, <2>9, <2>10, <2>11 DEF Sending
  <2> QED
    BY <2>7, <2>12 DEF TerminalInv
<1> QED
    BY <1>2, <1>5, <1>6 DEF update

\* A packet comes to a socket.
LEMMA ArriveStep ==
    ASSUME TerminalInv, NEW s \in Socks, NEW pid \in Pids \cup {CONNECT}, arrives(s, pid)
    PROVE  TerminalInv'
<1>0. Typed /\ Waiting /\ Looping /\ Sending /\ Receiving
    BY DEF TerminalInv
<1>1. UNCHANGED <<t_sess, t_out, t_sent, t_given, t_loop, t_from, t_last, t_lost, t_handled>>
    BY DEF arrives, loopVars
<1>2. /\ t_socks \in [Socks -> Socket] /\ t_came \in [Socks -> Nat]
      /\ t_socks[s] \in Socket /\ t_socks[s].recv \in Seq(Pack) /\ Len(t_socks[s].recv) \in Nat
      /\ t_came[s] \in Nat
    BY <1>0, TypedParts DEF Typed
<1>3. PICK p : p = [sock |-> s, n |-> t_came[s] + 1, pid |-> pid]
    OBVIOUS
<1>4. p \in Pack /\ p.sock = s /\ p.n = t_came[s] + 1
    BY <1>2, <1>3 DEF Pack
<1>5. PICK q : q = Append(t_socks[s].recv, p)
    OBVIOUS
<1>6. /\ q \in Seq(Pack) /\ Len(q) = Len(t_socks[s].recv) + 1 /\ q[Len(t_socks[s].recv) + 1] = p
      /\ \A i \in 1 .. Len(t_socks[s].recv) : q[i] = t_socks[s].recv[i]
    BY <1>2, <1>4, <1>5, AppendProperties
<1>7. PICK x : x = [t_socks[s] EXCEPT !.recv = q]
    OBVIOUS
<1>8. x \in Socket /\ x.recv = q /\ x.session = t_socks[s].session
    BY ONLY <1>2, <1>6, <1>7 DEF Socket
<1>9. t_socks' = [t_socks EXCEPT ![s] = x] /\ t_came' = [t_came EXCEPT ![s] = t_came[s] + 1]
    BY <1>3, <1>5, <1>7 DEF arrives
<1>10. /\ t_socks'[s] = x /\ \A u \in Socks : u # s => t_socks'[u] = t_socks[u]
       /\ t_came'[s] = t_came[s] + 1 /\ \A u \in Socks : u # s => t_came'[u] = t_came[u]
       /\ t_socks' \in [Socks -> Socket] /\ t_came' \in [Socks -> Nat]
    BY <1>2, <1>8, <1>9
<1>11. Typed'
    BY <1>0, <1>1, <1>10 DEF Typed
<1>12. Waiting'
  <2> SUFFICES ASSUME NEW u \in Socks
               PROVE  /\ t_from[u] + Len(t_socks'[u].recv) <= t_came'[u]
                      /\ t_socks'[u].session = NULL => t_from[u] + Len(t_socks'[u].recv) = t_came'[u]
                      /\ \A i \in 1 .. Len(t_socks'[u].recv) :
                           /\ t_socks'[u].recv[i].sock = u
                           /\ t_socks'[u].recv[i].n = t_came'[u] - Len(t_socks'[u].recv) + i
    BY <1>1 DEF Waiting
  <2>1. /\ t_from[u] + Len(t_socks[u].recv) <= t_came[u]
        /\ t_socks[u].session = NULL => t_from[u] + Len(t_socks[u].recv) = t_came[u]
        /\ \A i \in 1 .. Len(t_socks[u].recv) :
             /\ t_socks[u].recv[i].sock = u
             /\ t_socks[u].recv[i].n = t_came[u] - Len(t_socks[u].recv) + i
    BY <1>0 DEF Waiting
  <2>2. CASE u # s
    <3>1. t_socks'[u] = t_socks[u] /\ t_came'[u] = t_came[u]
      BY <1>10, <2>2
    <3> QED
      BY <2>1, <3>1
  <2>3. CASE u = s
    <3>1. PICK m \in Nat, c \in Nat, f \in Nat : m = Len(t_socks[s].recv) /\ c = t_came[s] /\ f = t_from[s]
      BY <1>0, <1>2, TypedParts
    <3>2. /\ t_socks'[u].recv = q /\ Len(q) = m + 1 /\ t_came'[u] = c + 1
          /\ t_socks'[u].session = t_socks[s].session
      BY <1>6, <1>8, <1>10, <2>3, <3>1
    <3>3. f + m <= c /\ (t_socks[s].session = NULL => f + m = c)
      BY <2>1, <2>3, <3>1
    <3>4. f + (m + 1) <= c + 1 /\ (t_socks[s].session = NULL => f + (m + 1) = c + 1)
      BY <3>1, <3>3
    <3>5. ASSUME NEW i \in 1 .. m + 1
          PROVE  q[i].sock = s /\ q[i].n = (c + 1) - (m + 1) + i
      <4>1. CASE i \in 1 .. m
        <5>1. q[i].sock = s /\ q[i].n = c - m + i
          BY <1>6, <2>1, <2>3, <3>1, <4>1
        <5>2. c - m + i = (c + 1) - (m + 1) + i
          BY ONLY c \in Nat, m \in Nat, <4>1
        <5> QED
          BY <5>1, <5>2
      <4>2. CASE i = m + 1
        <5>1. q[i].sock = s /\ q[i].n = c + 1
          BY <1>4, <1>6, <3>1, <4>2
        <5>2. c + 1 = (c + 1) - (m + 1) + i
          BY <3>1, <4>2
        <5> QED
          BY <5>1, <5>2
      <4> QED
        BY <3>1, <4>1, <4>2
    <3> QED
      BY <2>3, <3>1, <3>2, <3>4, <3>5
  <2> QED
    BY <2>2, <2>3
<1>13. Sending'
    BY <1>0, <1>1 DEF Sending, keeps
<1>14. sessionOf(t_socks') = sessionOf(t_socks)
    BY <1>8, <1>10 DEF sessionOf
<1>15. taken(t_socks', t_came') = taken(t_socks, t_came)
  <2>1. \A u \in Socks : t_came'[u] - Len(t_socks'[u].recv) = t_came[u] - Len(t_socks[u].recv)
    <3> TAKE u \in Socks
    <3>1. CASE u # s
      <4>1. t_socks'[u] = t_socks[u] /\ t_came'[u] = t_came[u]
        BY <1>10, <3>1
      <4> QED
        BY <4>1
    <3>2. CASE u = s
      <4>1. Len(t_socks'[u].recv) = Len(t_socks[s].recv) + 1 /\ t_came'[u] = t_came[s] + 1
        BY <1>6, <1>8, <1>10, <3>2
      <4>2. (t_came[s] + 1) - (Len(t_socks[s].recv) + 1) = t_came[s] - Len(t_socks[s].recv)
        BY <1>2
      <4> QED
        BY <3>2, <4>1, <4>2
    <3> QED
      BY <3>1, <3>2
  <2> QED
    BY <2>1 DEF taken
<1>16. Receiving'
    BY <1>0, <1>1, <1>14, <1>15 DEF Receiving, pulls
<1>17. Looping'
  <2>1. \A u \in Socks : /\ t_came'[u] - Len(t_socks'[u].recv) = t_came[u] - Len(t_socks[u].recv)
                         /\ t_came[u] <= t_came'[u] /\ t_came[u] \in Nat /\ t_came'[u] \in Nat
                         /\ t_socks'[u].session = t_socks[u].session
    <3> TAKE u \in Socks
    <3>1. CASE u # s
      <4>1. t_socks'[u] = t_socks[u] /\ t_came'[u] = t_came[u] /\ t_came[u] \in Nat
        BY <1>0, <1>10, <3>1, TypedParts
      <4> QED
        BY <4>1
    <3>2. CASE u = s
      <4>1. /\ Len(t_socks'[u].recv) = Len(t_socks[s].recv) + 1 /\ t_came'[u] = t_came[s] + 1
            /\ t_socks'[u].session = t_socks[u].session
        BY <1>6, <1>8, <1>10, <3>2
      <4>2. (t_came[s] + 1) - (Len(t_socks[s].recv) + 1) = t_came[s] - Len(t_socks[s].recv)
        BY <1>2
      <4> QED
        BY <1>2, <3>2, <4>1, <4>2
    <3> QED
      BY <3>1, <3>2
  <2>2. \A s1 \in Socks : t_lost[s1] <= t_last[s1]
    BY <1>0 DEF Looping
  <2>3. ASSUME t_loop # NoLoop
        PROVE  /\ t_loop.sock \in Socks /\ t_loop.rest \in Nat \ {0}
               /\ t_loop.rest <= t_came'[t_loop.sock]
               /\ t_socks'[t_loop.sock].session # NULL =>
                     /\ t_last[t_loop.sock] + t_lost[t_loop.sock]
                           = t_came'[t_loop.sock] - Len(t_socks'[t_loop.sock].recv)
                     /\ t_lost[t_loop.sock] + t_loop.rest <= t_last[t_loop.sock]
    <3>1. /\ t_loop.sock \in Socks /\ t_loop.rest \in Nat \ {0}
          /\ t_loop.rest <= t_came[t_loop.sock]
          /\ t_socks[t_loop.sock].session # NULL =>
                /\ t_last[t_loop.sock] + t_lost[t_loop.sock]
                      = t_came[t_loop.sock] - Len(t_socks[t_loop.sock].recv)
                /\ t_lost[t_loop.sock] + t_loop.rest <= t_last[t_loop.sock]
      BY <1>0, <2>3 DEF Looping
    <3>2. PICK u \in Socks : u = t_loop.sock
      BY <3>1
    <3> QED
      BY <2>1, <3>1, <3>2
  <2> QED
    BY <1>1, <2>2, <2>3 DEF Looping
<1> QED
    BY <1>11, <1>12, <1>13, <1>16, <1>17 DEF TerminalInv

\* The queue of a socket and what Waiting says of it.
LEMMA QueueParts ==
    ASSUME Typed, Waiting, NEW s \in Socks, NEW q, q = t_socks[s].recv,
           NEW T, T = taken(t_socks, t_came)
    PROVE  /\ q \in Seq(Pack) /\ Len(q) \in Nat /\ t_came[s] \in Nat /\ t_from[s] \in Nat
           /\ T[s] \in Nat /\ t_from[s] <= T[s] /\ T[s] + Len(q) = t_came[s]
           /\ t_socks[s].session = NULL => t_from[s] = T[s]
           /\ \A i \in 1 .. Len(q) : q[i].sock = s /\ q[i].n = T[s] + i
<1>1. /\ q \in Seq(Pack) /\ Len(q) \in Nat /\ t_came[s] \in Nat /\ t_from[s] \in Nat
    BY TypedParts
<1>2. /\ t_from[s] + Len(q) <= t_came[s]
      /\ t_socks[s].session = NULL => t_from[s] + Len(q) = t_came[s]
      /\ \A i \in 1 .. Len(q) : q[i].sock = s /\ q[i].n = t_came[s] - Len(q) + i
    BY DEF Waiting
<1>3. T[s] = t_came[s] - Len(q)
    BY DEF taken
<1>4. PICK c \in Nat, f \in Nat, m \in Nat : c = t_came[s] /\ f = t_from[s] /\ m = Len(q)
    BY <1>1
<1>5. T[s] = c - m /\ f + m <= c /\ (t_socks[s].session = NULL => f + m = c)
    BY <1>2, <1>3, <1>4
<1>6. T[s] \in Nat /\ f <= T[s] /\ T[s] + m = c /\ (t_socks[s].session = NULL => f = T[s])
    BY <1>5
<1>7. \A i \in 1 .. Len(q) : q[i].sock = s /\ q[i].n = T[s] + i
    BY <1>2, <1>3
<1> QED
    BY <1>1, <1>4, <1>6, <1>7

\* The queue of a socket becomes its last ones.
Leaves(s, x, m) ==
    /\ Len(x.recv) = m /\ t_socks' = [t_socks EXCEPT ![s] = x] /\ t_came' = t_came
    /\ \A i \in 1 .. m : x.recv[i].sock = s /\ x.recv[i].n = t_came[s] - m + i
    /\ t_from' \in [Socks -> Nat] /\ \A u \in Socks : u # s => t_from'[u] = t_from[u]
    /\ t_from'[s] + m <= t_came[s] /\ (x.session = NULL => t_from'[s] + m = t_came[s])

LEMMA QueueStep ==
    ASSUME Typed, Waiting, NEW s \in Socks, NEW x \in Socket, NEW m \in Nat, Leaves(s, x, m)
    PROVE  /\ Waiting' /\ t_socks' \in [Socks -> Socket]
           /\ sessionOf(t_socks)' = [sessionOf(t_socks) EXCEPT ![s] = x.session]
           /\ taken(t_socks, t_came)' = [taken(t_socks, t_came) EXCEPT ![s] = t_came[s] - m]
<1> USE DEF Leaves
<1>1. /\ t_socks \in [Socks -> Socket] /\ t_came[s] \in Nat
    BY TypedParts DEF Typed
<1>2. /\ t_socks' \in [Socks -> Socket] /\ t_socks'[s] = x
      /\ \A u \in Socks : u # s => t_socks'[u] = t_socks[u]
    BY <1>1
<1>4. Waiting'
  <2> SUFFICES ASSUME NEW u \in Socks
               PROVE  /\ t_from'[u] + Len(t_socks'[u].recv) <= t_came[u]
                      /\ t_socks'[u].session = NULL => t_from'[u] + Len(t_socks'[u].recv) = t_came[u]
                      /\ \A i \in 1 .. Len(t_socks'[u].recv) :
                           /\ t_socks'[u].recv[i].sock = u
                           /\ t_socks'[u].recv[i].n = t_came[u] - Len(t_socks'[u].recv) + i
    BY DEF Waiting
  <2>1. CASE u # s
    <3>1. t_socks'[u] = t_socks[u] /\ t_from'[u] = t_from[u]
      BY <1>2, <2>1
    <3> QED
      BY <3>1 DEF Waiting
  <2>2. CASE u = s
    BY <1>2, <2>2
  <2> QED
    BY <2>1, <2>2
<1>5. sessionOf(t_socks') = [sessionOf(t_socks) EXCEPT ![s] = x.session]
    BY <1>2 DEF sessionOf
<1>6. taken(t_socks', t_came) = [taken(t_socks, t_came) EXCEPT ![s] = t_came[s] - m]
    BY <1>1, <1>2 DEF taken
<1> QED
    BY <1>2, <1>4, <1>5, <1>6

\* The queue of a socket is emptied.
LEMMA SocketStep ==
    ASSUME Typed, Waiting, NEW s \in Socks, NEW x \in Socket, x.recv = <<>>,
           t_socks' = [t_socks EXCEPT ![s] = x], t_came' = t_came,
           t_from' \in [Socks -> Nat], \A u \in Socks : u # s => t_from'[u] = t_from[u],
           t_from'[s] <= t_came[s], x.session = NULL => t_from'[s] = t_came[s]
    PROVE  /\ Waiting' /\ t_socks' \in [Socks -> Socket]
           /\ sessionOf(t_socks)' = [sessionOf(t_socks) EXCEPT ![s] = x.session]
           /\ taken(t_socks, t_came)' = [taken(t_socks, t_came) EXCEPT ![s] = t_came[s]]
<1>1. t_came[s] \in Nat /\ t_from'[s] \in Nat
    BY TypedParts
<1>2. Len(x.recv) = 0
    BY EmptySeq
<1>3. PICK m \in Nat : m = 0
    OBVIOUS
<1>4. /\ Len(x.recv) = m /\ 1 .. m = {} /\ t_came[s] - m = t_came[s]
      /\ t_from'[s] + m = t_from'[s]
    BY <1>1, <1>2, <1>3
<1>5. \A i \in 1 .. m : x.recv[i].sock = s /\ x.recv[i].n = t_came[s] - m + i
    BY <1>4
<1>6. t_from'[s] + m <= t_came[s] /\ (x.session = NULL => t_from'[s] + m = t_came[s])
    BY <1>4
<1>7. /\ Waiting' /\ t_socks' \in [Socks -> Socket]
      /\ sessionOf(t_socks)' = [sessionOf(t_socks) EXCEPT ![s] = x.session]
      /\ taken(t_socks, t_came)' = [taken(t_socks, t_came) EXCEPT ![s] = t_came[s] - m]
  <2>1. Leaves(s, x, m)
    BY <1>4, <1>5, <1>6 DEF Leaves
  <2> QED
    BY ONLY Typed, Waiting, s \in Socks, x \in Socket, m \in Nat, <2>1, QueueStep
<1> QED
    BY <1>4, <1>7

\* What is handled when a session takes what its socket has.
LEMMA Takes ==
    ASSUME Typed, Waiting, Receiving, NEW s \in Socks, NEW sid, NEW q,
           sid = t_socks[s].session, q = t_socks[s].recv, sid # NULL
    PROVE  /\ sid \in 1 .. Len(t_sess)
           /\ t_handled \o (t_sess[sid].recv \o q) \in Seq(Pack)
           /\ RecvInv(t_handled \o (t_sess[sid].recv \o q), [pulls(t_sess) EXCEPT ![sid] = <<>>],
                      sessionOf(t_socks), t_from, [taken(t_socks, t_came) EXCEPT ![s] = t_came[s]],
                      released(t_last, t_lost))
<1>1. PICK P, W, T, H, X : /\ P = pulls(t_sess) /\ W = sessionOf(t_socks)
                           /\ T = taken(t_socks, t_came) /\ H = t_handled
                           /\ X = released(t_last, t_lost)
    OBVIOUS
<1>2. RecvInv(H, P, W, t_from, T, X)
    BY <1>1 DEF Receiving
<1>3. /\ q \in Seq(Pack) /\ Len(q) \in Nat /\ t_came[s] \in Nat /\ t_from[s] \in Nat
      /\ T[s] \in Nat /\ t_from[s] <= T[s] /\ T[s] + Len(q) = t_came[s]
      /\ \A i \in 1 .. Len(q) : q[i].sock = s /\ q[i].n = T[s] + i
    BY <1>1, QueueParts
<1>4. t_sess \in Seq(Session) /\ H \in Seq(Pack) /\ t_socks \in [Socks -> Socket]
    BY <1>1 DEF Typed
<1>5. P \in Seq(Seq(Pack)) /\ Len(P) = Len(t_sess)
    BY <1>1, <1>4, SessionParts
<1>6. W[s] = sid /\ sid \in 1 .. Len(P)
  <2>1. W[s] = sid
    BY <1>1 DEF sessionOf
  <2> QED
    BY <1>2, <2>1 DEF RecvInv, NoneDropped
<1>7. /\ t_sess[sid].recv \in Seq(Pack) /\ P[sid] = t_sess[sid].recv /\ P[sid] \in Seq(Pack)
    BY <1>1, <1>4, <1>5, <1>6, SessionParts
<1>8. PICK r : r = P[sid] \o q
    OBVIOUS
<1>9. r \in Seq(Pack) /\ Len(r) \in Nat /\ Joined(r, P[sid], q)
  <2>1. r \in Seq(Pack) /\ Joined(r, P[sid], q)
    BY <1>3, <1>7, <1>8, ConcatJoins
  <2> QED
    BY <2>1
<1>10. PICK P1 : P1 = [P EXCEPT ![sid] = r]
    OBVIOUS
<1>11. /\ P1 \in Seq(Seq(Pack)) /\ Len(P1) = Len(P) /\ P1[sid] = r
       /\ \A t \in 1 .. Len(P) : t # sid => P1[t] = P[t]
    BY <1>5, <1>6, <1>9, <1>10, ExceptSeq
<1>12. PICK T1 : T1 = [T EXCEPT ![s] = T[s] + Len(q)]
    OBVIOUS
<1>13. RecvInv(H, P1, W, t_from, T1, X)
  <2>1. /\ W[s] # NULL /\ Len(P1[sid]) \in Nat /\ Joined(P1[sid], P[sid], q)
        /\ Len(P1) = Len(P) /\ \A t \in 1 .. Len(P) : t # sid => P1[t] = P[t]
    BY <1>6, <1>9, <1>11
  <2> QED
    BY ONLY <1>2, <1>3, <1>6, <1>12, <2>1, s \in Socks, Pulls
<1>14. PICK H2 : H2 = H \o r
    OBVIOUS
<1>15. H2 \in Seq(Pack) /\ Len(H2) \in Nat /\ Joined(H2, H, P1[sid])
  <2>1. H2 \in Seq(Pack) /\ Joined(H2, H, r)
    BY <1>4, <1>9, <1>14, ConcatJoins
  <2> QED
    BY <1>11, <2>1
<1>16. PICK P2 : P2 = [P EXCEPT ![sid] = <<>>]
    OBVIOUS
<1>17. /\ Len(P2) = Len(P1) /\ Len(P2[sid]) = 0
       /\ \A t \in 1 .. Len(P1) : t # sid => P2[t] = P1[t]
  <2>1. <<>> \in Seq(Pack) /\ Len(<<>>) = 0
    BY EmptySeq
  <2>2. /\ Len(P2) = Len(P) /\ P2[sid] = <<>>
        /\ \A t \in 1 .. Len(P) : t # sid => P2[t] = P[t]
    BY <1>5, <1>6, <1>16, <2>1, ExceptSeq
  <2> QED
    BY <1>11, <2>1, <2>2
<1>18. RecvInv(H2, P2, W, t_from, T1, X)
  <2>1. sid # NULL /\ sid \in 1 .. Len(P1)
    BY <1>6, <1>11
  <2> QED
    BY ONLY <1>13, <1>15, <1>17, <2>1, Handles
<1>19. H2 = t_handled \o (t_sess[sid].recv \o q)
    BY <1>1, <1>7, <1>8, <1>14
<1>20. P2 = [pulls(t_sess) EXCEPT ![sid] = <<>>] /\ W = sessionOf(t_socks)
       /\ T1 = [taken(t_socks, t_came) EXCEPT ![s] = t_came[s]] /\ X = released(t_last, t_lost)
    BY <1>1, <1>3, <1>12, <1>16
<1> QED
    BY <1>5, <1>6, <1>15, <1>18, <1>19, <1>20

\* A session takes what its socket has and handles it.
LEMMA SessionEventStep ==
    ASSUME TerminalInv, NEW s \in Socks, sessionEvent(s)
    PROVE  TerminalInv'
<1>0. Typed /\ Waiting /\ Looping /\ Sending /\ Receiving
    BY DEF TerminalInv
<1>1. PICK sid, q : sid = t_socks[s].session /\ q = t_socks[s].recv
    OBVIOUS
<1>2. /\ sid # NULL /\ t_loop = NoLoop
      /\ UNCHANGED <<t_out, t_sent, t_given, t_came, t_loop, t_from, t_last, t_lost>>
    BY <1>1 DEF sessionEvent, idle, loopVars
<1>l. Looping'
    BY <1>0, <1>2 DEF Looping
<1>3. CASE UNCHANGED <<t_socks, t_sess, t_handled>>
    BY <1>0, <1>2, <1>3, <1>l DEF TerminalInv, Typed, Waiting, Sending, Receiving, keeps, pulls
<1>4. CASE /\ t_sess' = [t_sess EXCEPT ![sid] = handled(pulled(t_sess[sid], q))]
           /\ t_handled' = t_handled \o pulled(t_sess[sid], q).recv
           /\ t_socks' = [t_socks EXCEPT ![s].recv = <<>>]
  <2>1. PICK H2, P2, W, T1, X : /\ X = released(t_last, t_lost) /\ H2 = t_handled \o (t_sess[sid].recv \o q)
                                /\ P2 = [pulls(t_sess) EXCEPT ![sid] = <<>>] /\ W = sessionOf(t_socks)
                                /\ T1 = [taken(t_socks, t_came) EXCEPT ![s] = t_came[s]]
    OBVIOUS
  <2>2. sid \in 1 .. Len(t_sess) /\ H2 \in Seq(Pack) /\ RecvInv(H2, P2, W, t_from, T1, X)
    BY <1>0, <1>1, <1>2, <2>1, Takes
  <2>3. t_sess \in Seq(Session) /\ t_socks \in [Socks -> Socket] /\ t_from \in [Socks -> Nat]
    BY <1>0 DEF Typed
  <2>4. t_sess[sid] \in Session /\ t_sess[sid].recv \in Seq(Pack)
    BY <2>2, <2>3, SessionParts
  <2>5. PICK x : x = handled(pulled(t_sess[sid], q))
    OBVIOUS
  <2>6. x \in Session /\ x.send = t_sess[sid].send /\ x.recv = <<>>
    <3>1. <<>> \in Seq(Pack)
      BY EmptySeq
    <3> QED
      BY ONLY <2>4, <2>5, <3>1 DEF Session, handled, pulled
  <2>7. pulled(t_sess[sid], q).recv = t_sess[sid].recv \o q
    <3>1. "recv" \in DOMAIN t_sess[sid]
      BY <2>4 DEF Session
    <3> QED
      BY <2>4, <3>1 DEF pulled
  <2>8. t_sess' = [t_sess EXCEPT ![sid] = x] /\ t_handled' = H2
    BY <1>4, <2>1, <2>5, <2>7
  <2>9. /\ t_sess' \in Seq(Session) /\ Len(t_sess') = Len(t_sess)
        /\ keeps(t_sess') = [keeps(t_sess) EXCEPT ![sid] = x.send]
        /\ pulls(t_sess') = [pulls(t_sess) EXCEPT ![sid] = x.recv]
    <3>1. Replaced(t_sess', t_sess, sid, x)
      BY ONLY <2>2, <2>3, <2>6, <2>8, SessionExcept
    <3> QED
      BY <3>1 DEF Replaced
  <2>10. keeps(t_sess') = keeps(t_sess) /\ pulls(t_sess') = P2
    BY <2>1, <2>6, <2>9 DEF keeps
  <2>11. PICK y : y = [t_socks[s] EXCEPT !.recv = <<>>]
    OBVIOUS
  <2>12. y \in Socket /\ y.recv = <<>> /\ y.session = sid
    <3>1. t_socks[s] \in Socket /\ <<>> \in Seq(Pack)
      BY <2>3, EmptySeq
    <3> QED
      BY ONLY <1>1, <2>11, <3>1 DEF Socket
  <2>13. t_socks' = [t_socks EXCEPT ![s] = y]
    BY <1>4, <2>11
  <2>14. /\ Waiting' /\ t_socks' \in [Socks -> Socket]
         /\ sessionOf(t_socks)' = [sessionOf(t_socks) EXCEPT ![s] = y.session]
         /\ taken(t_socks, t_came)' = [taken(t_socks, t_came) EXCEPT ![s] = t_came[s]]
    <3>1. /\ t_from' \in [Socks -> Nat] /\ \A u \in Socks : u # s => t_from'[u] = t_from[u]
          /\ t_from'[s] <= t_came[s]
      <4>1. PICK T : T = taken(t_socks, t_came)
        OBVIOUS
      <4>2. /\ t_from[s] \in Nat /\ T[s] \in Nat /\ Len(q) \in Nat
            /\ t_from[s] <= T[s] /\ T[s] + Len(q) = t_came[s]
        BY <1>0, <1>1, <4>1, QueueParts
      <4>3. t_from[s] <= t_came[s]
        BY <4>2
      <4> QED
        BY <1>2, <2>3, <4>3
    <3>2. t_came' = t_came
      BY <1>2
    <3>3. Typed /\ Waiting /\ y \in Socket /\ y.recv = <<>>
          /\ (y.session = NULL => t_from'[s] = t_came[s])
      BY <1>0, <1>2, <2>12
    <3> QED
      BY ONLY s \in Socks, <2>13, <3>1, <3>2, <3>3, SocketStep
  <2>15. sessionOf(t_socks') = W /\ taken(t_socks', t_came') = T1
    <3>1. W = [W EXCEPT ![s] = sid]
      BY <1>1, <2>1 DEF sessionOf
    <3> QED
      BY <2>1, <2>12, <2>14, <3>1
  <2>16. Receiving'
    BY <1>2, <2>1, <2>2, <2>8, <2>10, <2>15 DEF Receiving
  <2>17. Sending'
    BY <1>0, <1>2, <2>10 DEF Sending
  <2>18. Typed'
    BY <1>0, <1>2, <2>2, <2>8, <2>9, <2>14 DEF Typed
  <2> QED
    BY <1>l, <2>14, <2>16, <2>17, <2>18 DEF TerminalInv
<1> QED
    BY <1>1, <1>3, <1>4 DEF sessionEvent

\* A session is made of a socket that has q, by the first of them: it pulls the rest, and the
\* server handles it at once.
Began(s, q, rest, H, P, W, F, T, X, W2, F2, T2, X2) ==
    /\ H \in Seq(Pack) /\ P \in Seq(Seq(Pack)) /\ W \in [Socks -> Nat \cup {NULL}]
    /\ rest \in Seq(Pack) /\ Len(q) \in Nat /\ Len(q) = Len(rest) + 1
    /\ \A i \in 1 .. Len(rest) : rest[i].sock = s /\ rest[i].n = (T[s] + 1) + i
    /\ F2 = [F EXCEPT ![s] = T[s] + 1] /\ W2 = [W EXCEPT ![s] = Len(P) + 1]
    /\ T2 = [T EXCEPT ![s] = T[s] + Len(q)]
    /\ X2[s] = {} /\ \A u \in Socks : u # s => X2[u] = X[u]

LEMMA Begins ==
    ASSUME NEW H, NEW P, NEW W, NEW F, NEW T, NEW X, RecvInv(H, P, W, F, T, X),
           NEW s \in Socks, NEW q, NEW rest, NEW W2, NEW F2, NEW T2, NEW X2,
           Began(s, q, rest, H, P, W, F, T, X, W2, F2, T2, X2)
    PROVE  /\ RecvInv(H, Append(P, rest), W2, F2, T2, X2)
           /\ RecvInv(H \o rest, Append(P, <<>>), W2, F2, T2, X2)
<1> SUFFICES ASSUME H \in Seq(Pack), P \in Seq(Seq(Pack)), W \in [Socks -> Nat \cup {NULL}],
                    rest \in Seq(Pack), Len(q) \in Nat, Len(q) = Len(rest) + 1,
                    \A i \in 1 .. Len(rest) : rest[i].sock = s /\ rest[i].n = (T[s] + 1) + i,
                    F2 = [F EXCEPT ![s] = T[s] + 1], W2 = [W EXCEPT ![s] = Len(P) + 1],
                    T2 = [T EXCEPT ![s] = T[s] + Len(q)],
                    X2[s] = {}, \A u \in Socks : u # s => X2[u] = X[u]
             PROVE  /\ RecvInv(H, Append(P, rest), W2, F2, T2, X2)
                    /\ RecvInv(H \o rest, Append(P, <<>>), W2, F2, T2, X2)
    BY DEF Began
<1>1. F \in [Socks -> Nat] /\ T \in [Socks -> Nat] /\ Len(P) \in Nat /\ Len(H) \in Nat
    BY DEF RecvInv
<1>2. T[s] \in Nat
    BY <1>1
<1>5. Len(rest) \in Nat
    OBVIOUS
<1>7. PICK sid \in Nat : sid = Len(P) + 1
    BY <1>1
<1>8. <<>> \in Seq(Pack) /\ Len(<<>>) = 0 /\ 1 .. Len(<<>>) = {}
  <2>1. <<>> \in Seq(Pack) /\ Len(<<>>) = 0
    BY EmptySeq
  <2> QED
    BY <2>1
<1>9. PICK P1, P2 : P1 = Append(P, <<>>) /\ P2 = Append(P, rest)
    OBVIOUS
<1>10. /\ P1 \in Seq(Seq(Pack)) /\ Len(P1) = Len(P) + 1 /\ P1[Len(P) + 1] = <<>>
       /\ \A t \in 1 .. Len(P) : P1[t] = P[t]
    BY <1>8, <1>9, AppendProperties
<1>11. /\ P2 \in Seq(Seq(Pack)) /\ Len(P2) = Len(P) + 1 /\ P2[Len(P) + 1] = rest
       /\ \A t \in 1 .. Len(P) : P2[t] = P[t]
    BY ONLY P \in Seq(Seq(Pack)), rest \in Seq(Pack), <1>9, AppendProperties
<1>12. RecvInv(H, P1, W, F, T, X)
  <2>1. Len(P1[Len(P) + 1]) = 0
    BY <1>8, <1>10
  <2> QED
    BY ONLY RecvInv(H, P, W, F, T, X), <1>10, <2>1, RecvsNew
<1>13. PICK T1 : T1 = [T EXCEPT ![s] = T[s] + 1]
    OBVIOUS
<1>14. /\ F2 \in [Socks -> Nat] /\ T1 \in [Socks -> Nat] /\ F2[s] = T[s] + 1 /\ T1[s] = T[s] + 1
       /\ F2[s] = T1[s] /\ W2[s] = sid /\ T[s] <= T1[s]
       /\ \A u \in Socks : u # s => F2[u] = F[u] /\ T1[u] = T[u] /\ W2[u] = W[u]
  <2>1. T[s] + 1 \in Nat /\ T[s] <= T[s] + 1
    BY <1>2
  <2> QED
    BY <1>1, <1>7, <1>13, <2>1
<1>15. sid \in 1 .. Len(P1) /\ sid # NULL /\ sid \in 1 .. Len(P2)
  <2>1. sid # NULL
    BY <1>7, TerminalAssumption
  <2> QED
    BY <1>1, <1>7, <1>10, <1>11, <2>1
<1>16. RecvInv(H, P1, W2, F2, T1, X2)
  <2>1. W2[s] = NULL \/ W2[s] \in 1 .. Len(P1)
    BY <1>14, <1>15
  <2>2. Owned(s, P1, W, F, T, X, W2, F2, T1, X2)
    BY <1>14, <2>1 DEF Owned
  <2> QED
    BY ONLY s \in Socks, <1>12, <2>2, Owns
<1>17. Joined(rest, <<>>, rest)
  <2>1. PICK z : z = <<>>
    OBVIOUS
  <2>2. Len(z) = 0 /\ 1 .. Len(z) = {}
    BY <1>8, <2>1
  <2>3. \A i \in 1 .. Len(rest) : /\ Len(z) + i \in 1 .. Len(rest) /\ rest[Len(z) + i] = rest[i]
                                  /\ i > Len(z) /\ i - Len(z) = i
    <3>1. PICK k \in Nat : k = Len(rest)
      BY <1>5
    <3>2. \A i \in 1 .. k : 0 + i \in 1 .. k /\ 0 + i = i /\ i > 0 /\ i - 0 = i
      OBVIOUS
    <3> QED
      BY ONLY <2>2, <3>1, <3>2
  <2>4. Joined(rest, z, rest)
    BY <2>2, <2>3 DEF Joined
  <2> QED
    BY <2>1, <2>4
<1>18. T2 = [T1 EXCEPT ![s] = T1[s] + Len(rest)]
  <2>1. T1[s] + Len(rest) = T[s] + Len(q)
    <3>1. PICK f \in Nat, k \in Nat : f = T[s] /\ k = Len(rest)
      BY <1>2, <1>5
    <3>2. T1[s] = f + 1 /\ Len(q) = k + 1
      BY <1>14, <3>1
    <3>3. (f + 1) + k = f + (k + 1)
      OBVIOUS
    <3> QED
      BY <3>1, <3>2, <3>3
  <2>2. T2 = [T1 EXCEPT ![s] = T[s] + Len(q)]
    BY <1>1, <1>13
  <2> QED
    BY <2>1, <2>2
<1>19. \A t \in 1 .. Len(P1) : t # sid => t \in 1 .. Len(P)
    BY <1>1, <1>7, <1>10
<1>20. RecvInv(H, P2, W2, F2, T2, X2)
  <2>1. \A i \in 1 .. Len(rest) : rest[i].sock = s /\ rest[i].n = T1[s] + i
    BY <1>14
  <2>2. Len(P2) = Len(P1) /\ \A t \in 1 .. Len(P1) : t # sid => P2[t] = P1[t]
    BY <1>10, <1>11, <1>19
  <2>3. Len(P2[sid]) \in Nat /\ Joined(P2[sid], P1[sid], rest)
    BY <1>5, <1>7, <1>10, <1>11, <1>17
  <2>4. W2[s] = sid /\ W2[s] # NULL /\ F2[s] <= T1[s]
    <3>1. T[s] + 1 \in Nat
      BY <1>2
    <3> QED
      BY <1>14, <1>15, <3>1
  <2>5. sid \in 1 .. Len(P1) /\ Len(rest) \in Nat
    BY <1>5, <1>15
  <2> QED
    BY ONLY s \in Socks, <1>16, <1>18, <2>1, <2>2, <2>3, <2>4, <2>5, Pulls
<1>21. RecvInv(H \o rest, P1, W2, F2, T2, X2)
  <2>1. PICK H2 : H2 = H \o rest
    OBVIOUS
  <2>2. Len(H2) \in Nat /\ Joined(H2, H, P2[sid])
    <3>1. H2 \in Seq(Pack) /\ Joined(H2, H, rest)
      BY <2>1, ConcatJoins
    <3> QED
      BY <1>7, <1>11, <3>1
  <2>3. Len(P1) = Len(P2) /\ \A t \in 1 .. Len(P2) : t # sid => P1[t] = P2[t]
    BY <1>10, <1>11, <1>19
  <2>4. Len(P1[sid]) = 0
    BY <1>7, <1>8, <1>10
  <2>5. sid \in 1 .. Len(P2) /\ sid # NULL
    BY <1>15
  <2>6. RecvInv(H2, P1, W2, F2, T2, X2)
    BY ONLY <1>20, <2>2, <2>3, <2>4, <2>5, Handles
  <2> QED
    BY <2>1, <2>6
<1> QED
    BY <1>9, <1>20, <1>21

\* A session takes a new socket, to which nothing has come.
LEMMA SetSocketStep ==
    ASSUME TerminalInv, NEW sid \in 1 .. Len(t_sess), NEW s \in Socks, setSocket(sid, s)
    PROVE  TerminalInv'
<1>0. Typed /\ Waiting /\ Looping /\ Sending /\ Receiving
    BY DEF TerminalInv
<1>1. PICK P, W, T, X, q : /\ P = pulls(t_sess) /\ W = sessionOf(t_socks)
                           /\ T = taken(t_socks, t_came) /\ q = t_socks[s].recv
                           /\ X = released(t_last, t_lost)
    OBVIOUS
<1>2. t_socks[s].session = NULL /\ t_came[s] = 0
      /\ t_loop = NoLoop
      /\ UNCHANGED <<t_out, t_sent, t_given, t_came, t_loop, t_from, t_last, t_lost, t_handled>>
    BY DEF setSocket, idle, loopVars
<1>l. Looping'
    BY <1>0, <1>2 DEF Looping
<1>3. /\ q \in Seq(Pack) /\ Len(q) \in Nat /\ T[s] \in Nat /\ t_from[s] \in Nat
      /\ t_from[s] <= T[s] /\ T[s] + Len(q) = t_came[s] /\ t_from[s] = T[s]
    BY <1>0, <1>1, <1>2, QueueParts
<1>4. Len(q) = 0 /\ T[s] = 0 /\ t_from[s] = 0
    BY <1>2, <1>3
<1>5. q = <<>>
    BY <1>3, <1>4, EmptySeq
<1>6. t_sess \in Seq(Session) /\ t_socks \in [Socks -> Socket] /\ t_from \in [Socks -> Nat]
    BY <1>0 DEF Typed
<1>7. t_sess[sid] \in Session /\ t_sess[sid].recv \in Seq(Pack) /\ Len(P) = Len(t_sess) /\ Len(t_sess) \in Nat
    BY <1>1, <1>6, SessionParts
<1>8. PICK x : x = pulled([t_sess[sid] EXCEPT !.socket = s], q)
    OBVIOUS
<1>9. x \in Session /\ x.send = t_sess[sid].send /\ x.recv = t_sess[sid].recv
  <2>1. t_sess[sid].recv \o <<>> = t_sess[sid].recv
    BY <1>7, ConcatEmptySeq
  <2>2. PICK y : y = [t_sess[sid] EXCEPT !.socket = s]
    OBVIOUS
  <2>3. y \in Session /\ y.send = t_sess[sid].send /\ y.recv = t_sess[sid].recv
    BY ONLY <1>7, <2>2, s \in Socks DEF Session
  <2>4. x = [y EXCEPT !.recv = y.recv \o <<>>]
    BY <1>5, <1>8, <2>2 DEF pulled
  <2>5. x = [y EXCEPT !.recv = y.recv]
    BY <2>1, <2>3, <2>4
  <2>6. [y EXCEPT !.recv = y.recv] = y
    BY ONLY <2>3 DEF Session
  <2> QED
    BY <2>3, <2>5, <2>6
<1>10. t_sess' = [t_sess EXCEPT ![sid] = x]
    BY <1>1, <1>8 DEF setSocket
<1>11. /\ t_sess' \in Seq(Session) /\ Len(t_sess') = Len(t_sess)
       /\ keeps(t_sess') = [keeps(t_sess) EXCEPT ![sid] = x.send]
       /\ pulls(t_sess') = [pulls(t_sess) EXCEPT ![sid] = x.recv]
  <2>1. Replaced(t_sess', t_sess, sid, x)
    BY ONLY sid \in 1 .. Len(t_sess), <1>6, <1>9, <1>10, SessionExcept
  <2> QED
    BY <2>1 DEF Replaced
<1>12. keeps(t_sess') = keeps(t_sess) /\ pulls(t_sess') = P
    BY <1>1, <1>9, <1>11 DEF keeps, pulls
<1>13. PICK y : y = [t_socks[s] EXCEPT !.session = sid, !.recv = <<>>]
    OBVIOUS
<1>14. y \in Socket /\ y.recv = <<>> /\ y.session = sid
  <2>1. t_socks[s] \in Socket /\ <<>> \in Seq(Pack) /\ sid \in Nat
    BY <1>6, <1>7, EmptySeq
  <2> QED
    BY ONLY <1>13, <2>1 DEF Socket
<1>15. t_socks' = [t_socks EXCEPT ![s] = y]
  <2>1. t_socks' = [t_socks EXCEPT ![s].session = sid, ![s].recv = <<>>]
    BY DEF setSocket
  <2> QED
    BY <1>6, <1>13, <2>1
<1>16. /\ Waiting' /\ t_socks' \in [Socks -> Socket]
       /\ sessionOf(t_socks)' = [sessionOf(t_socks) EXCEPT ![s] = y.session]
       /\ taken(t_socks, t_came)' = [taken(t_socks, t_came) EXCEPT ![s] = t_came[s]]
  <2>1. /\ t_from' \in [Socks -> Nat] /\ \A u \in Socks : u # s => t_from'[u] = t_from[u]
        /\ t_from'[s] <= t_came[s]
    BY <1>2, <1>4, <1>6
  <2>2. t_came' = t_came
    BY <1>2
  <2>3. Typed /\ Waiting /\ y \in Socket /\ y.recv = <<>>
        /\ (y.session = NULL => t_from'[s] = t_came[s])
    BY <1>0, <1>2, <1>4, <1>14
  <2> QED
    BY ONLY s \in Socks, <1>15, <2>1, <2>2, <2>3, SocketStep
<1>17. PICK W2, T2 : W2 = sessionOf(t_socks') /\ T2 = taken(t_socks', t_came')
    OBVIOUS
<1>18. RecvInv(t_handled, P, W2, t_from, T2, X)
  <2>1. RecvInv(t_handled, P, W, t_from, T, X)
    BY <1>0, <1>1 DEF Receiving
  <2>2. T2 = T
    <3>1. T = [T EXCEPT ![s] = 0]
      BY <1>1, <1>4 DEF taken
    <3> QED
      BY <1>1, <1>2, <1>16, <1>17, <3>1
  <2>3. W[s] = NULL /\ W2 = [W EXCEPT ![s] = sid]
    BY <1>1, <1>2, <1>14, <1>16, <1>17 DEF sessionOf
  <2>4. W2[s] = sid /\ \A u \in Socks : u # s => W2[u] = W[u]
    BY <1>1, <2>3 DEF sessionOf
  <2>5. T \in [Socks -> Nat]
    BY <2>1 DEF RecvInv
  <2>6. Owned(s, P, W, t_from, T, X, W2, t_from, T, X)
    BY <1>3, <1>6, <1>7, <2>3, <2>4, <2>5 DEF Owned
  <2>7. RecvInv(t_handled, P, W2, t_from, T, X)
    BY ONLY s \in Socks, <2>1, <2>6, Owns
  <2> QED
    BY <2>2, <2>7
<1>19. Receiving'
    BY <1>1, <1>2, <1>12, <1>17, <1>18 DEF Receiving
<1>20. Sending'
    BY <1>0, <1>2, <1>12 DEF Sending
<1>21. Typed'
    BY <1>0, <1>2, <1>11, <1>16 DEF Typed
<1> QED
    BY <1>l, <1>16, <1>19, <1>20, <1>21 DEF TerminalInv

\* A socket without a session: the loop begins, or ends for want of packets.
LEMMA CountStep ==
    ASSUME TerminalInv, NEW s \in Socks, socketEvent(s)
    PROVE  TerminalInv'
<1>0. Typed /\ Waiting /\ Looping /\ Sending /\ Receiving
    BY DEF TerminalInv
<1>1. /\ UNCHANGED <<t_socks, t_sess, t_out, t_sent, t_given, t_came, t_from, t_last, t_lost, t_handled>>
      /\ t_loop' = [sock |-> s, rest |-> Len(t_socks[s].recv)]
      /\ t_socks[s].session = NULL /\ t_socks[s].recv # <<>>
    BY DEF socketEvent
<1>2. /\ t_socks[s].recv \in Seq(Pack) /\ Len(t_socks[s].recv) \in Nat \ {0}
      /\ t_came[s] \in Nat /\ t_from[s] \in Nat
    BY <1>0, <1>1, TypedParts, EmptySeq
<1>3. Len(t_socks[s].recv) <= t_came[s]
  <2>1. t_from[s] + Len(t_socks[s].recv) <= t_came[s]
    BY <1>0 DEF Waiting
  <2> QED
    BY <1>2, <2>1
<1>4. t_loop'.sock = s /\ t_loop'.rest = Len(t_socks[s].recv)
    BY <1>1
<1>5. Looping'
    BY <1>0, <1>1, <1>2, <1>3, <1>4 DEF Looping
<1>6. Waiting' /\ Sending' /\ Receiving'
    BY <1>0, <1>1 DEF Waiting, Sending, Receiving, keeps, pulls
<1>7. Typed'
    BY <1>0, <1>1, <1>2 DEF Typed
<1> QED
    BY <1>5, <1>6, <1>7 DEF TerminalInv

LEMMA LoopEndStep ==
    ASSUME TerminalInv, noPacket
    PROVE  TerminalInv'
<1>0. Typed /\ Waiting /\ Looping /\ Sending /\ Receiving
    BY DEF TerminalInv
<1>1. /\ UNCHANGED <<t_socks, t_sess, t_out, t_sent, t_given, t_came, t_from, t_last, t_lost, t_handled>>
      /\ t_loop' = NoLoop
    BY DEF noPacket
<1>2. Looping'
    BY <1>0, <1>1 DEF Looping
<1>3. Waiting' /\ Sending' /\ Receiving'
    BY <1>0, <1>1 DEF Waiting, Sending, Receiving, keeps, pulls
<1>4. Typed'
    BY <1>0, <1>1 DEF Typed, NoLoop
<1> QED
    BY <1>2, <1>3, <1>4 DEF TerminalInv

\* A packet is popped from q: what remains of it, of what Looping says and of the loop.
Popped(s, q, T) ==
    /\ s \in Socks /\ q \in Seq(Pack) /\ Len(q) \in Nat \ {0}
    /\ Tail(q) \in Seq(Pack) /\ Len(Tail(q)) \in Nat /\ Len(q) = Len(Tail(q)) + 1
    /\ T[s] \in Nat /\ t_came[s] \in Nat /\ t_from[s] <= T[s] /\ t_from[s] \in Nat
    /\ T[s] + Len(q) = t_came[s]
    /\ t_socks[s].session = NULL => t_from[s] = T[s]
    /\ Head(q).n = T[s] + 1
    /\ \A i \in 1 .. Len(Tail(q)) : Tail(q)[i].sock = s /\ Tail(q)[i].n = (T[s] + 1) + i
    /\ t_loop.rest \in Nat \ {0} /\ t_loop.rest <= t_came[s]
    /\ t_socks[s].session # NULL => /\ t_last[s] + t_lost[s] = T[s]
                                    /\ t_lost[s] + t_loop.rest <= t_last[s]
    /\ \/ t_loop' = [sock |-> s, rest |-> t_loop.rest - 1] /\ t_loop.rest - 1 \in Nat \ {0}
       \/ t_loop' = NoLoop

LEMMA PopParts ==
    ASSUME TerminalInv, pops, NEW s, s = t_loop.sock, NEW q, q = t_socks[s].recv,
           NEW T, T = taken(t_socks, t_came)
    PROVE  Popped(s, q, T)
<1>0. Typed /\ Waiting /\ Looping
    BY DEF TerminalInv
<1>1. /\ s \in Socks /\ t_loop.rest \in Nat \ {0} /\ t_loop.rest <= t_came[s]
      /\ t_socks[s].session # NULL =>
            /\ t_last[s] + t_lost[s] = t_came[s] - Len(q)
            /\ t_lost[s] + t_loop.rest <= t_last[s]
    BY <1>0 DEF Looping, pops
<1>2. /\ q \in Seq(Pack) /\ Len(q) \in Nat /\ t_came[s] \in Nat /\ t_from[s] \in Nat
      /\ T[s] \in Nat /\ t_from[s] <= T[s] /\ T[s] + Len(q) = t_came[s]
      /\ t_socks[s].session = NULL => t_from[s] = T[s]
      /\ \A i \in 1 .. Len(q) : q[i].sock = s /\ q[i].n = T[s] + i
    BY <1>0, <1>1, QueueParts, SMTT(30)
<1>3. q # <<>>
    BY DEF pops
<1>4. Len(q) \in Nat \ {0}
    BY <1>2, <1>3, EmptySeq
<1>5. /\ Tail(q) \in Seq(Pack) /\ Len(Tail(q)) = Len(q) - 1
      /\ \A i \in 1 .. Len(q) - 1 : Tail(q)[i] = q[i + 1]
    BY <1>2, <1>3, HeadTailProperties
<1>6. Head(q) = q[1]
    BY <1>2, <1>3, HeadTailProperties
<1>13. Len(Tail(q)) \in Nat /\ Len(q) = Len(Tail(q)) + 1
    BY ONLY <1>4, <1>5
<1>7. PICK m \in Nat : m = Len(Tail(q))
    BY <1>13
<1> DEFINE z == Tail(q)
<1>8. Len(z) = m /\ Len(q) = m + 1 /\ \A i \in 1 .. m : z[i] = q[i + 1]
  <2>1. Len(q) - 1 = m
    BY ONLY <1>7, <1>13
  <2> QED
    BY <1>5, <1>7, <1>13, <2>1
<1>9. \A i \in 1 .. m : z[i].sock = s /\ z[i].n = (T[s] + 1) + i
  <2> TAKE i \in 1 .. m
  <2>1. i + 1 \in 1 .. Len(q)
    BY <1>8
  <2>3. PICK t \in Nat : t = T[s]
    BY <1>2
  <2>4. T[s] + (i + 1) = (T[s] + 1) + i
    BY ONLY <2>3, i \in 1 .. m, m \in Nat
  <2>2. z[i] = q[i + 1]
    BY <1>8
  <2> QED
    BY <1>2, <2>1, <2>2, <2>4
<1>10. Head(q).n = T[s] + 1
  <2>1. 1 \in 1 .. Len(q)
    BY <1>4
  <2> QED
    BY <1>2, <1>6, <2>1
<1>11. \/ t_loop' = [sock |-> s, rest |-> t_loop.rest - 1] /\ t_loop.rest - 1 \in Nat \ {0}
       \/ t_loop' = NoLoop
  <2>1. CASE t_loop.rest > 1
    <3>1. t_loop' = [t_loop EXCEPT !.rest = t_loop.rest - 1]
      BY <2>1 DEF pops
    <3>2. t_loop = [sock |-> s, rest |-> t_loop.rest]
      BY <1>0 DEF Typed
    <3>3. t_loop' = [sock |-> s, rest |-> t_loop.rest - 1]
      BY <3>1, <3>2
    <3>4. t_loop.rest - 1 \in Nat \ {0}
      BY <1>1, <2>1
    <3> QED
      BY <3>3, <3>4
  <2>2. CASE ~ (t_loop.rest > 1)
    BY <2>2 DEF pops
  <2> QED
    BY <2>1, <2>2
<1>12. T[s] = t_came[s] - Len(q)
    BY <1>1 DEF taken
<1> QED
    BY <1>1, <1>2, <1>4, <1>5, <1>7, <1>8, <1>9, <1>10, <1>11, <1>12, <1>13 DEF Popped

\* It is no CONNECT.
LEMMA ReleaseStep ==
    ASSUME TerminalInv, releases
    PROVE  TerminalInv'
<1>0. Typed /\ Waiting /\ Looping /\ Sending /\ Receiving
    BY DEF TerminalInv
<1>1. PICK s, q, T, P, W, X, H :
          /\ s = t_loop.sock /\ q = t_socks[s].recv /\ T = taken(t_socks, t_came)
          /\ P = pulls(t_sess) /\ W = sessionOf(t_socks) /\ X = released(t_last, t_lost)
          /\ H = t_handled
    OBVIOUS
<1>2. /\ pops /\ UNCHANGED <<t_sess, t_out, t_sent, t_given, t_came, t_last, t_handled>>
      /\ t_socks' = [t_socks EXCEPT ![s].recv = Tail(q)]
      /\ t_socks[s].session = NULL => t_from' = [t_from EXCEPT ![s] = Head(q).n] /\ t_lost' = t_lost
      /\ t_socks[s].session # NULL => t_lost' = [t_lost EXCEPT ![s] = t_lost[s] + 1] /\ t_from' = t_from
    BY <1>1 DEF releases
<1>3. /\ s \in Socks /\ q \in Seq(Pack) /\ Len(q) \in Nat \ {0}
      /\ Tail(q) \in Seq(Pack) /\ Len(Tail(q)) \in Nat /\ Len(q) = Len(Tail(q)) + 1
      /\ T[s] \in Nat /\ t_came[s] \in Nat /\ t_from[s] <= T[s] /\ t_from[s] \in Nat
      /\ T[s] + Len(q) = t_came[s]
      /\ t_socks[s].session = NULL => t_from[s] = T[s]
      /\ Head(q).n = T[s] + 1
      /\ \A i \in 1 .. Len(Tail(q)) : Tail(q)[i].sock = s /\ Tail(q)[i].n = (T[s] + 1) + i
      /\ t_loop.rest \in Nat \ {0} /\ t_loop.rest <= t_came[s]
      /\ t_socks[s].session # NULL => /\ t_last[s] + t_lost[s] = T[s]
                                      /\ t_lost[s] + t_loop.rest <= t_last[s]
      /\ \/ t_loop' = [sock |-> s, rest |-> t_loop.rest - 1] /\ t_loop.rest - 1 \in Nat \ {0}
         \/ t_loop' = NoLoop
  <2>1. Popped(s, q, T)
    BY ONLY TerminalInv, <1>1, <1>2, PopParts
  <2> QED
    BY ONLY <2>1 DEF Popped
<1>4. /\ t_socks \in [Socks -> Socket] /\ t_from \in [Socks -> Nat]
      /\ t_lost \in [Socks -> Nat] /\ t_last \in [Socks -> Nat]
    BY <1>0 DEF Typed
<1>5. PICK m \in Nat : m = Len(Tail(q))
    BY <1>3
<1>6. PICK y : y = [t_socks[s] EXCEPT !.recv = Tail(q)]
    OBVIOUS
<1>7. y \in Socket /\ y.recv = Tail(q) /\ y.session = t_socks[s].session
  <2>1. t_socks[s] \in Socket /\ Tail(q) \in Seq(Pack)
    BY <1>3, <1>4
  <2> QED
    BY ONLY <1>6, <2>1 DEF Socket
<1>8. t_socks' = [t_socks EXCEPT ![s] = y]
    BY <1>2, <1>6
<1>9. PICK c \in Nat, t \in Nat : c = t_came[s] /\ t = T[s]
    BY <1>3
<1>10. t + (m + 1) = c /\ c - m = t + 1 /\ (t + 1) + m = c
    BY <1>3, <1>5, <1>9
<1>11. /\ t_from' \in [Socks -> Nat] /\ \A u \in Socks : u # s => t_from'[u] = t_from[u]
       /\ t_from'[s] + m <= t_came[s] /\ (y.session = NULL => t_from'[s] + m = t_came[s])
  <2>1. CASE t_socks[s].session = NULL
    <3>1. t_from' = [t_from EXCEPT ![s] = t + 1]
      BY <1>2, <1>3, <1>9, <2>1
    <3>2. t + 1 \in Nat /\ s \in Socks
      BY <1>3, <1>9
    <3>3. /\ t_from' \in [Socks -> Nat] /\ t_from'[s] = t + 1
          /\ \A u \in Socks : u # s => t_from'[u] = t_from[u]
      BY ONLY <1>4, <3>1, <3>2
    <3>4. t_from'[s] + m = c
      BY <1>10, <3>3
    <3>5. t_came[s] = c /\ c <= c
      BY <1>9
    <3> QED
      BY ONLY <3>3, <3>4, <3>5
  <2>2. CASE t_socks[s].session # NULL
    <3>1. t_from[s] \in Nat /\ t_from[s] <= t
      BY <1>3, <1>9
    <3>2. t_from[s] + m <= c
      BY <1>10, <3>1
    <3> QED
      BY <1>2, <1>4, <1>7, <1>9, <2>2, <3>2
  <2> QED
    BY <2>1, <2>2
<1>12. \A i \in 1 .. m : y.recv[i].sock = s /\ y.recv[i].n = t_came[s] - m + i
  <2> TAKE i \in 1 .. m
  <2>1. y.recv[i].sock = s /\ y.recv[i].n = (T[s] + 1) + i
    BY <1>3, <1>5, <1>7
  <2> QED
    BY <1>9, <1>10, <2>1
<1>13. /\ Waiting' /\ t_socks' \in [Socks -> Socket]
       /\ sessionOf(t_socks)' = [sessionOf(t_socks) EXCEPT ![s] = y.session]
       /\ taken(t_socks, t_came)' = [taken(t_socks, t_came) EXCEPT ![s] = t_came[s] - m]
  <2>1. Len(y.recv) = m /\ t_came' = t_came
    BY <1>2, <1>5, <1>7
  <2>2. Leaves(s, y, m)
    BY ONLY <1>8, <1>11, <1>12, <2>1 DEF Leaves
  <2>3. Typed /\ Waiting /\ y \in Socket /\ s \in Socks
    BY <1>0, <1>3, <1>7
  <2> QED
    BY ONLY m \in Nat, <2>2, <2>3, QueueStep
<1>14. PICK W2, T2, X2 : /\ W2 = sessionOf(t_socks') /\ T2 = taken(t_socks', t_came')
                         /\ X2 = released(t_last', t_lost')
    OBVIOUS
<1>15. W2 = W
  <2>1. W2 = [W EXCEPT ![s] = t_socks[s].session]
    BY <1>1, <1>7, <1>13, <1>14
  <2>2. W[s] = t_socks[s].session /\ W = [u \in Socks |-> W[u]]
    BY <1>1, <1>3 DEF sessionOf
  <2> QED
    BY <2>1, <2>2
<1>16. T2 = [T EXCEPT ![s] = T[s] + 1]
    BY <1>1, <1>2, <1>9, <1>10, <1>13, <1>14
<1>17. RecvInv(H, P, W, t_from, T, X)
    BY <1>0, <1>1 DEF Receiving
<1>18. T \in [Socks -> Nat]
    BY <1>17 DEF RecvInv
<1>19. RecvInv(H, P, W2, t_from', T2, X2)
  <2>1. CASE t_socks[s].session = NULL
    <3>1. X2 = X
      BY <1>1, <1>2, <1>14, <2>1
    <3>2. t_from' = [t_from EXCEPT ![s] = T[s] + 1]
      BY <1>2, <1>3, <2>1
    <3>3. T2 \in [Socks -> Nat] /\ T2[s] = T[s] + 1 /\ T[s] <= T2[s] /\ t_from'[s] = T2[s]
      BY <1>3, <1>4, <1>16, <1>18, <3>2
    <3>4. W2[s] = NULL
      BY <1>1, <1>3, <1>15, <2>1 DEF sessionOf
    <3>5. \A u \in Socks : u # s => t_from'[u] = t_from[u] /\ T2[u] = T[u]
      BY <1>11, <1>16, <1>18
    <3>6. Owned(s, P, W, t_from, T, X, W2, t_from', T2, X2)
      BY <1>11, <1>15, <3>1, <3>3, <3>4, <3>5 DEF Owned
    <3> QED
      <4>1. s \in Socks
        BY <1>3
      <4> QED
        BY ONLY <1>17, <3>6, <4>1, Owns
  <2>2. CASE t_socks[s].session # NULL
    <3>1. t_lost' = [t_lost EXCEPT ![s] = t_lost[s] + 1] /\ t_from' = t_from /\ t_last' = t_last
      BY <1>2, <2>2
    <3>2. \A u \in Socks : u # s => X2[u] = X[u]
      BY <1>1, <1>4, <1>14, <3>1 DEF released
    <3>3. X2[s] = X[s] \cup {T[s] + 1}
      <4>1. PICK a \in Nat, b \in Nat : a = t_last[s] /\ b = t_lost[s]
        BY <1>3, <1>4
      <4>2. X2[s] = a + 1 .. a + (b + 1)
        BY <1>3, <1>4, <1>14, <3>1, <4>1 DEF released
      <4>3. X[s] = a + 1 .. a + b
        BY <1>1, <1>3, <4>1 DEF released
      <4>4. T[s] + 1 = a + b + 1
        BY <1>3, <2>2, <4>1
      <4>5. a + 1 .. a + (b + 1) = (a + 1 .. a + b) \cup {a + b + 1}
        OBVIOUS
      <4> QED
        BY <4>2, <4>3, <4>4, <4>5
    <3>4. RecvInv(H, P, W, t_from, T2, X2)
      <4>1. s \in Socks
        BY <1>3
      <4>2. Drops(s, T, X, T2, X2)
        BY ONLY <1>16, <3>2, <3>3 DEF Drops
      <4> QED
        BY ONLY <1>17, <4>1, <4>2, Loses
    <3> QED
      BY <1>15, <3>1, <3>4
  <2> QED
    BY <2>1, <2>2
<1>20. Receiving'
    BY <1>1, <1>2, <1>14, <1>19 DEF Receiving, pulls
<1>21. Sending'
    BY <1>0, <1>2 DEF Sending, keeps
<1>22. t_lost' \in [Socks -> Nat]
  <2>1. CASE t_socks[s].session = NULL
    BY <1>2, <1>4, <2>1
  <2>2. CASE t_socks[s].session # NULL
    <3>1. t_lost[s] + 1 \in Nat
      BY <1>3, <1>4
    <3> QED
      BY <1>2, <1>3, <1>4, <2>2, <3>1
  <2> QED
    BY <2>1, <2>2
<1>25. t_loop' \in [sock : Socks \cup {NULL}, rest : Nat]
    BY <1>3 DEF NoLoop
<1>23. Typed'
    BY <1>0, <1>2, <1>11, <1>13, <1>22, <1>25 DEF Typed
<1>24. Looping'
  <2>1. \A u \in Socks : t_lost[u] <= t_last[u]
    BY <1>0 DEF Looping
  <2>2. /\ t_socks'[s].session = t_socks[s].session /\ t_socks'[s].recv = Tail(q)
        /\ t_came' = t_came /\ t_last' = t_last
    BY <1>2, <1>3, <1>4, <1>7, <1>8
  <2>3. CASE t_socks[s].session = NULL
    <3>1. t_lost' = t_lost
      BY <1>2, <2>3
    <3>2. t_loop' # NoLoop => /\ t_loop'.sock = s /\ t_loop'.rest \in Nat \ {0}
                              /\ t_loop'.rest <= t_came[s]
      BY <1>3
    <3> QED
      BY <1>3, <2>1, <2>2, <2>3, <3>1, <3>2 DEF Looping
  <2>4. CASE t_socks[s].session # NULL
    <3>1. PICK a \in Nat, b \in Nat, r \in Nat : a = t_last[s] /\ b = t_lost[s] /\ r = t_loop.rest
      BY <1>3, <1>4
    <3>2. t_lost'[s] = b + 1 /\ \A u \in Socks : u # s => t_lost'[u] = t_lost[u]
      BY <1>2, <1>3, <1>4, <2>4, <3>1
    <3>3. a + b = t /\ b + r <= a /\ r >= 1
      BY <1>3, <1>9, <2>4, <3>1
    <3>4. b + 1 <= a /\ a + (b + 1) = c - m /\ (b + 1) + (r - 1) <= a
      BY <1>10, <3>3
    <3>5. \A u \in Socks : t_lost'[u] <= t_last[u]
      BY <2>1, <3>1, <3>2, <3>4
    <3>6. t_loop' # NoLoop => /\ t_loop'.sock = s /\ t_loop'.rest = r - 1 /\ r - 1 \in Nat \ {0}
                              /\ r - 1 <= t_came[s]
      <4> SUFFICES ASSUME t_loop' # NoLoop
                   PROVE  /\ t_loop'.sock = s /\ t_loop'.rest = r - 1 /\ r - 1 \in Nat \ {0}
                          /\ r - 1 <= t_came[s]
        OBVIOUS
      <4>1. t_loop' = [sock |-> s, rest |-> r - 1] /\ r - 1 \in Nat \ {0} /\ r <= c
        BY <1>3, <1>9, <3>1
      <4>2. r - 1 <= c
        BY <4>1
      <4> QED
        BY <1>9, <4>1, <4>2
    <3> QED
      BY <1>3, <1>5, <1>9, <2>2, <3>1, <3>2, <3>4, <3>5, <3>6 DEF Looping
  <2> QED
    BY <2>3, <2>4
<1> QED
    BY <1>13, <1>20, <1>21, <1>23, <1>24 DEF TerminalInv

\* It makes a session.
LEMMA ConnectStep ==
    ASSUME TerminalInv, pk_CONNECT
    PROVE  TerminalInv'
<1>0. Typed /\ Waiting /\ Looping /\ Sending /\ Receiving
    BY DEF TerminalInv
<1>1. PICK s, q, T, P, W, X, H :
          /\ s = t_loop.sock /\ q = t_socks[s].recv /\ T = taken(t_socks, t_came)
          /\ P = pulls(t_sess) /\ W = sessionOf(t_socks) /\ X = released(t_last, t_lost)
          /\ H = t_handled
    OBVIOUS
<1>2. PICK rest : rest = Tail(q)
    OBVIOUS
<1>3. /\ s \in Socks /\ q \in Seq(Pack) /\ Len(q) \in Nat \ {0}
      /\ rest \in Seq(Pack) /\ Len(rest) \in Nat /\ Len(q) = Len(rest) + 1
      /\ T[s] \in Nat /\ t_came[s] \in Nat /\ t_from[s] <= T[s] /\ t_from[s] \in Nat
      /\ T[s] + Len(q) = t_came[s]
      /\ Head(q).n = T[s] + 1
      /\ \A i \in 1 .. Len(rest) : rest[i].sock = s /\ rest[i].n = (T[s] + 1) + i
      /\ t_loop.rest \in Nat \ {0} /\ t_loop.rest <= t_came[s]
      /\ \/ t_loop' = [sock |-> s, rest |-> t_loop.rest - 1] /\ t_loop.rest - 1 \in Nat \ {0}
         \/ t_loop' = NoLoop
  <2>1. pops
    BY DEF pk_CONNECT
  <2>2. Popped(s, q, T)
    BY ONLY TerminalInv, <1>1, <2>1, PopParts
  <2> QED
    BY ONLY <1>2, <2>2 DEF Popped
<1>4. /\ t_sess \in Seq(Session) /\ t_socks \in [Socks -> Socket] /\ t_from \in [Socks -> Nat]
      /\ t_lost \in [Socks -> Nat] /\ t_last \in [Socks -> Nat]
      /\ H \in Seq(Pack) /\ t_out \in Seq(Nat) /\ \A i \in 1 .. Len(t_out) : t_out[i] \in 1 .. Len(t_sess)
    BY <1>0, <1>1 DEF Typed
<1>6. PICK sid \in Nat : sid = Len(t_sess) + 1
    BY <1>4
<1>7. sid # NULL
    BY TerminalAssumption
<1>8. PICK F2 : F2 = [t_from EXCEPT ![s] = T[s] + 1]
    OBVIOUS
<1>9. F2 \in [Socks -> Nat] /\ F2[s] = T[s] + 1 /\ \A u \in Socks : u # s => F2[u] = t_from[u]
  <2>1. T[s] + 1 \in Nat
    BY <1>3
  <2> QED
    BY <1>3, <1>4, <1>8, <2>1
<1>10. /\ t_from' = F2 /\ t_came' = t_came
       /\ t_last' = [t_last EXCEPT ![s] = t_came[s]] /\ t_lost' = [t_lost EXCEPT ![s] = 0]
    BY <1>1, <1>3, <1>8 DEF pk_CONNECT
<1>11. PICK y : y = [t_socks[s] EXCEPT !.recv = <<>>, !.session = sid]
    OBVIOUS
<1>12. y \in Socket /\ y.recv = <<>> /\ y.session = sid
  <2>1. t_socks[s] \in Socket /\ <<>> \in Seq(Pack) /\ sid \in Nat \cup {NULL}
    BY <1>3, <1>4, EmptySeq
  <2> QED
    BY ONLY <1>11, <2>1 DEF Socket
<1>13. t_socks' = [t_socks EXCEPT ![s] = y]
  <2>1. t_socks' = [t_socks EXCEPT ![s].recv = <<>>, ![s].session = sid]
    BY <1>1, <1>6 DEF pk_CONNECT
  <2> QED
    BY <1>3, <1>4, <1>11, <2>1
<1>14. F2[s] <= t_came[s]
    BY <1>3, <1>9
<1>15. /\ Waiting' /\ t_socks' \in [Socks -> Socket]
       /\ sessionOf(t_socks)' = [sessionOf(t_socks) EXCEPT ![s] = y.session]
       /\ taken(t_socks, t_came)' = [taken(t_socks, t_came) EXCEPT ![s] = t_came[s]]
  <2>1. /\ t_from' \in [Socks -> Nat] /\ \A u \in Socks : u # s => t_from'[u] = t_from[u]
        /\ t_from'[s] <= t_came[s]
    BY <1>9, <1>10, <1>14
  <2>2. t_came' = t_came
    BY <1>10
  <2>3. Typed /\ Waiting /\ y \in Socket /\ y.recv = <<>>
        /\ (y.session = NULL => t_from'[s] = t_came[s])
    BY <1>0, <1>7, <1>12
  <2> QED
    BY ONLY <1>3, <1>13, <2>1, <2>2, <2>3, SocketStep
<1>16. PICK W2, T2, X2 : /\ W2 = sessionOf(t_socks') /\ T2 = taken(t_socks', t_came')
                         /\ X2 = released(t_last', t_lost')
    OBVIOUS
<1>17. W2 = [W EXCEPT ![s] = sid] /\ T2 = [T EXCEPT ![s] = T[s] + Len(q)]
    BY <1>1, <1>3, <1>12, <1>15, <1>16
<1>18. W \in [Socks -> Nat \cup {NULL}]
  <2>1. \A u \in Socks : t_socks[u].session \in Nat \cup {NULL}
    BY <1>0, TypedParts
  <2> QED
    BY <1>1, <2>1 DEF sessionOf
<1>19. RecvInv(H, P, W, t_from, T, X)
    BY <1>0, <1>1 DEF Receiving
<1>20. X2[s] = {} /\ \A u \in Socks : u # s => X2[u] = X[u]
  <2>1. \A u \in Socks : u # s => X2[u] = X[u]
    BY <1>1, <1>4, <1>10, <1>16 DEF released
  <2>2. X2[s] = t_came[s] + 1 .. t_came[s] + 0
    BY <1>3, <1>4, <1>10, <1>16 DEF released
  <2>3. X2[s] = {}
    BY <1>3, <2>2
  <2> QED
    BY <2>1, <2>3
<1>21. Looping'
  <2>1. t_socks'[s].recv = <<>> /\ Len(t_socks'[s].recv) = 0
    BY <1>3, <1>4, <1>12, <1>13, EmptySeq
  <2>2. /\ t_last'[s] = t_came[s] /\ t_lost'[s] = 0
        /\ \A u \in Socks : u # s => t_last'[u] = t_last[u] /\ t_lost'[u] = t_lost[u]
    BY <1>3, <1>4, <1>10
  <2>3. \A u \in Socks : t_lost'[u] <= t_last'[u]
    BY <1>0, <1>3, <2>2 DEF Looping
  <2>4. t_loop' # NoLoop => /\ t_loop'.sock = s /\ t_loop'.rest \in Nat \ {0}
                            /\ t_loop'.rest <= t_came[s]
    BY <1>3
  <2>5. t_came[s] + 0 = t_came[s] - 0 /\ \A r \in Nat : r <= t_came[s] => 0 + r <= t_came[s]
    BY <1>3
  <2> QED
    BY <1>3, <1>10, <2>1, <2>2, <2>3, <2>4, <2>5 DEF Looping
<1>22. /\ t_last' \in [Socks -> Nat] /\ t_lost' \in [Socks -> Nat]
       /\ t_loop' \in [sock : Socks \cup {NULL}, rest : Nat]
    BY <1>3, <1>4, <1>10, SMTT(30) DEF NoLoop
<1>23. /\ Len(P) = Len(t_sess) /\ P \in Seq(Seq(Pack)) /\ Len(t_sess) \in Nat
       /\ keeps(t_sess) \in Seq(Seq(Nat)) /\ Len(keeps(t_sess)) = Len(t_sess)
    BY <1>1, <1>4, SessionParts
<1>24. /\ RecvInv(H, Append(P, rest), W2, F2, T2, X2)
       /\ RecvInv(H \o rest, Append(P, <<>>), W2, F2, T2, X2)
  <2>1. /\ F2 = [t_from EXCEPT ![s] = T[s] + 1] /\ W2 = [W EXCEPT ![s] = Len(P) + 1]
        /\ T2 = [T EXCEPT ![s] = T[s] + Len(q)] /\ Len(q) \in Nat
    BY <1>3, <1>6, <1>8, <1>17, <1>23
  <2>2. H \in Seq(Pack) /\ P \in Seq(Seq(Pack))
    BY <1>4, <1>23
  <2>3. Began(s, q, rest, H, P, W, t_from, T, X, W2, F2, T2, X2)
    BY ONLY <1>3, <1>18, <1>20, <2>1, <2>2 DEF Began
  <2> QED
    BY ONLY <1>3, <1>19, <2>3, Begins
<1>25. PICK x : x = pulled([alive |-> TRUE, socket |-> s, send |-> <<>>, recv |-> <<>>], rest)
    OBVIOUS
<1>26. <<>> \in Seq(Pack) /\ <<>> \in Seq(Nat) /\ Len(<<>>) = 0
    BY EmptySeq
<1>27. x = [alive |-> TRUE, socket |-> s, send |-> <<>>, recv |-> rest]
  <2>1. <<>> \o rest = rest
    BY <1>3, ConcatEmptySeq
  <2> QED
    BY <1>25, <2>1 DEF pulled
<1>28. x \in Session /\ x.send = <<>> /\ x.recv = rest
    BY <1>3, <1>26, <1>27 DEF Session
<1>29. PICK z : z = handled(x)
    OBVIOUS
<1>30. z \in Session /\ z.send = <<>> /\ z.recv = <<>>
    BY <1>3, <1>26, <1>27, <1>29 DEF Session, handled
<1>31. PICK K : K = keeps(t_sess)
    OBVIOUS
<1>32. SendInv(t_sent, t_given, Append(K, <<>>))
  <2>1. SendInv(t_sent, t_given, K)
    BY <1>0, <1>31 DEF Sending
  <2> QED
    BY ONLY <2>1, SendsNew
<1>33. CASE ~ t_server
  <2>1. t_sess' = Append(t_sess, x) /\ UNCHANGED <<t_out, t_sent, t_given, t_handled>>
    BY <1>1, <1>2, <1>25, <1>33 DEF pk_CONNECT
  <2>2. /\ t_sess' \in Seq(Session) /\ Len(t_sess') = Len(t_sess) + 1
        /\ keeps(t_sess') = Append(K, <<>>) /\ pulls(t_sess') = Append(P, rest)
    BY <1>1, <1>4, <1>28, <1>31, <2>1, SessionAppend
  <2>3. Receiving'
    BY <1>1, <1>10, <1>16, <1>24, <2>1, <2>2 DEF Receiving
  <2>4. Sending'
    BY <1>32, <2>1, <2>2 DEF Sending
  <2>5. \A i \in 1 .. Len(t_out) : t_out[i] \in 1 .. Len(t_sess')
    BY <1>4, <1>23, <2>2
  <2>6. Typed'
    BY <1>0, <1>9, <1>10, <1>15, <1>22, <2>1, <2>2, <2>5 DEF Typed
  <2> QED
    BY <1>15, <1>21, <2>3, <2>4, <2>6 DEF TerminalInv
<1>34. CASE t_server
  <2>1. /\ t_sess' = Append(t_sess, z) /\ t_handled' = H \o rest
        /\ t_sent' = Append(t_sent, sid) /\ t_given' = Append(t_given, Len(t_sent) + 1)
        /\ t_out' = t_out \/ t_out' = Append(t_out, sid)
    <3>1. /\ t_sess' = Append(t_sess, z) /\ t_handled' = H \o x.recv
          /\ t_sent' = Append(t_sent, sid) /\ t_given' = Append(t_given, Len(t_sent) + 1)
      BY <1>1, <1>2, <1>6, <1>25, <1>29, <1>34 DEF pk_CONNECT
    <3>2. t_out' = t_out \/ t_out' = Append(t_out, sid)
      BY <1>1, <1>6, <1>34 DEF pk_CONNECT
    <3> QED
      BY <1>28, <3>1, <3>2
  <2>2. /\ t_sess' \in Seq(Session) /\ Len(t_sess') = Len(t_sess) + 1
        /\ keeps(t_sess') = Append(K, <<>>) /\ pulls(t_sess') = Append(P, <<>>)
    BY <1>1, <1>4, <1>30, <1>31, <2>1, SessionAppend
  <2>3. Receiving'
    BY <1>1, <1>10, <1>16, <1>24, <2>1, <2>2 DEF Receiving
  <2>4. PICK K2 : K2 = Append(K, <<>>)
    OBVIOUS
  <2>5. sid \in 1 .. Len(K2) /\ Len(K2[sid]) = 0
    <3>1. Len(K2) = Len(K) + 1 /\ K2[Len(K) + 1] = <<>>
      BY <1>23, <1>26, <1>31, <2>4, AppendProperties
    <3>2. Len(K) + 1 = sid
      BY <1>6, <1>23, <1>31
    <3>3. sid \in 1 .. sid
      BY <1>6, <1>23
    <3> QED
      BY <1>26, <3>1, <3>2, <3>3
  <2>6. SendInv(Append(t_sent, sid), Append(t_given, Len(t_sent) + 1), K2)
    <3>1. SendInv(t_sent, t_given, K2)
      BY <1>32, <2>4
    <3> QED
      BY ONLY <2>5, <3>1, SendsDirect
  <2>7. Sending'
    BY <2>1, <2>2, <2>4, <2>6 DEF Sending
  <2>8. t_out' \in Seq(Nat) /\ \A i \in 1 .. Len(t_out') : t_out'[i] \in 1 .. Len(t_sess')
    <3>1. \A i \in 1 .. Len(t_out) : t_out[i] \in 1 .. Len(t_sess')
      BY <1>4, <1>23, <2>2
    <3>2. CASE t_out' = t_out
      BY <1>4, <3>1, <3>2
    <3>3. CASE t_out' = Append(t_out, sid)
      <4>1. PICK o : o = Append(t_out, sid)
        OBVIOUS
      <4>2. /\ o \in Seq(Nat) /\ Len(o) = Len(t_out) + 1 /\ o[Len(t_out) + 1] = sid
            /\ \A i \in 1 .. Len(t_out) : o[i] = t_out[i]
        BY <1>4, <4>1, AppendProperties
      <4>3. Len(t_out) \in Nat
        BY <1>4
      <4>4. \A i \in 1 .. Len(o) : i \in 1 .. Len(t_out) \/ i = Len(t_out) + 1
        BY <4>2, <4>3
      <4>5. sid \in 1 .. Len(t_sess')
        BY <1>6, <1>23, <2>2
      <4>6. \A i \in 1 .. Len(o) : o[i] \in 1 .. Len(t_sess')
        BY <3>1, <4>2, <4>4, <4>5
      <4>7. t_out' = o /\ o \in Seq(Nat)
        BY <3>3, <4>1, <4>2
      <4> QED
        BY ONLY <4>6, <4>7
    <3> QED
      BY <2>1, <3>2, <3>3
  <2>9. H \o rest \in Seq(Pack)
    BY <1>3, <1>4, ConcatProperties
  <2>10. Typed'
    BY <1>0, <1>9, <1>10, <1>15, <1>22, <2>1, <2>2, <2>8, <2>9 DEF Typed
  <2> QED
    BY <1>15, <1>21, <2>3, <2>7, <2>10 DEF TerminalInv
<1> QED
    BY <1>33, <1>34

---------------------------------------------------------------------------------
LEMMA TerminalStep ==
    ASSUME TerminalInv, [TerminalNext]_terminalVars
    PROVE  TerminalInv'
<1>0. t_sess \in Seq(Session) /\ DOMAIN t_sess = 1 .. Len(t_sess)
  <2>1. t_sess \in Seq(Session)
    BY DEF TerminalInv, Typed
  <2> QED
    BY <2>1, LenProperties
<1>1. CASE UNCHANGED terminalVars
    BY <1>1 DEF terminalVars, TerminalInv, Typed, Waiting, Looping, Sending, Receiving, keeps, pulls
<1>2. ASSUME NEW sid \in DOMAIN t_sess, sendProtocol(sid) \/ delSession(sid)
      PROVE  TerminalInv'
    BY <1>0, <1>2, SendStep, DeleteStep
<1>3. ASSUME NEW s \in Socks, NEW pid \in Pids \cup {CONNECT}, arrives(s, pid)
      PROVE  TerminalInv'
    BY <1>3, ArriveStep
<1>4. ASSUME NEW s \in Socks, sessionEvent(s) \/ socketEvent(s) \/ writable(s) \/ breaks(s)
      PROVE  TerminalInv'
    BY <1>4, SessionEventStep, CountStep, FlagsStep
<1>5. ASSUME NEW sid \in DOMAIN t_sess, NEW s \in Socks, setSocket(sid, s)
      PROVE  TerminalInv'
    BY <1>0, <1>5, SetSocketStep
<1>6. CASE update
    BY <1>6, UpdateStep
<1>7. CASE releases \/ pk_CONNECT \/ noPacket
    BY <1>7, ReleaseStep, ConnectStep, LoopEndStep
<1> QED
    BY <1>1, <1>2, <1>3, <1>4, <1>5, <1>6, <1>7 DEF TerminalNext

\* The strengthening of SessionKeeps: what a session keeps or has pulled is what is missing
\* in what was given or handled, and comes after it.
THEOREM TerminalInvariant == TerminalSpec => []TerminalInv
<1>1. TerminalInit => TerminalInv
    BY TerminalStarts
<1>2. TerminalInv /\ [TerminalNext]_terminalVars => TerminalInv'
    BY TerminalStep
<1> QED
    BY <1>1, <1>2, PTL DEF TerminalSpec

LEMMA SentInOrder ==
    ASSUME TerminalInv
    PROVE  SessionInOrder
<1>1. PICK N, G, K : N = t_sent /\ G = t_given /\ K = keeps(t_sess)
    OBVIOUS
<1>2. SendInv(N, G, K) /\ t_sess \in Seq(Session)
    BY <1>1 DEF TerminalInv, Sending, Typed
<1>3. /\ N \in Seq(Nat) /\ G \in Seq(Nat) /\ K \in Seq(Seq(Nat))
      /\ Numbers(N, G, K) /\ GivenInOrder(N, G) /\ KeptInOrder(N, G, K) /\ NoneLost(N, G, K)
    BY <1>2 DEF SendInv
<1>4. /\ DOMAIN N = 1 .. Len(N) /\ DOMAIN G = 1 .. Len(G) /\ DOMAIN t_sess = 1 .. Len(t_sess)
      /\ Len(K) = Len(t_sess)
      /\ \A sid \in 1 .. Len(K) : /\ K[sid] \in Seq(Nat) /\ K[sid] = t_sess[sid].send
                                  /\ DOMAIN K[sid] = 1 .. Len(K[sid])
  <2>1. Len(K) = Len(t_sess) /\ \A sid \in 1 .. Len(K) : K[sid] = t_sess[sid].send /\ K[sid] \in Seq(Nat)
    BY <1>1, <1>2, SessionParts
  <2>2. \A sid \in 1 .. Len(K) : DOMAIN K[sid] = 1 .. Len(K[sid])
    BY <2>1, LenProperties
  <2> QED
    BY <1>2, <1>3, <2>1, <2>2, LenProperties
<1>5. ASSUME NEW n \in DOMAIN N
      PROVE  n \in Range(G) \cup Range(t_sess[N[n]].send)
  <2>1. /\ N[n] \in 1 .. Len(K)
        /\ \/ \E i \in 1 .. Len(G) : G[i] = n
           \/ \E j \in 1 .. Len(K[N[n]]) : K[N[n]][j] = n
    BY <1>3, <1>4 DEF NoneLost
  <2>2. CASE \E i \in 1 .. Len(G) : G[i] = n
    BY <1>4, <2>2 DEF Range
  <2>3. CASE \E j \in 1 .. Len(K[N[n]]) : K[N[n]][j] = n
    <3>1. n \in Range(K[N[n]])
      BY <1>4, <2>1, <2>3 DEF Range
    <3> QED
      BY <1>4, <2>1, <3>1
  <2> QED
    BY <2>1, <2>2, <2>3
<1>6. ASSUME NEW sid \in 1 .. Len(K)
      PROVE  \A n \in Range(K[sid]) : N[n] = sid
    BY <1>3, <1>4 DEF Numbers, Range
<1>7. ASSUME NEW sid \in 1 .. Len(K), NEW path, path = G \o K[sid],
             NEW i \in DOMAIN path, NEW j \in DOMAIN path,
             i < j, N[path[i]] = sid, N[path[j]] = sid
      PROVE  path[i] < path[j]
  <2>1. path \in Seq(Nat) /\ Joined(path, G, K[sid])
    BY <1>3, <1>4, <1>7, ConcatJoins
  <2>2. DOMAIN path = 1 .. Len(path)
    BY <2>1, LenProperties
  <2>3. \A h \in 1 .. Len(path) : \/ h \in 1 .. Len(G) /\ path[h] = G[h]
                                  \/ /\ h > Len(G) /\ h - Len(G) \in 1 .. Len(K[sid])
                                     /\ path[h] = K[sid][h - Len(G)]
    BY <2>1 DEF Joined
  <2>4. Len(G) \in Nat
    BY <1>3
  <2>5. CASE j \in 1 .. Len(G) /\ path[j] = G[j]
    <3>1. i \in 1 .. Len(G)
      BY <1>7, <2>2, <2>4, <2>5
    <3>2. path[i] = G[i]
      BY <2>1, <3>1 DEF Joined
    <3> QED
      BY <1>3, <1>7, <2>5, <3>1, <3>2 DEF GivenInOrder
  <2>6. CASE j > Len(G) /\ j - Len(G) \in 1 .. Len(K[sid]) /\ path[j] = K[sid][j - Len(G)]
    <3>1. CASE i \in 1 .. Len(G) /\ path[i] = G[i]
      BY <1>3, <1>7, <2>6, <3>1 DEF KeptInOrder
    <3>2. CASE i - Len(G) \in 1 .. Len(K[sid]) /\ path[i] = K[sid][i - Len(G)]
      <4>1. i - Len(G) < j - Len(G)
        BY <1>7, <2>2, <2>4
      <4>2. \A a, b \in 1 .. Len(K[sid]) : a < b => K[sid][a] < K[sid][b]
        BY <1>3 DEF KeptInOrder
      <4> QED
        BY <2>6, <3>2, <4>1, <4>2
    <3> QED
      BY <2>2, <2>3, <3>1, <3>2
  <2> QED
    BY <2>2, <2>3, <2>5, <2>6
<1>8. ASSUME NEW sid \in 1 .. Len(K)
      PROVE  LET path == G \o K[sid]
             IN  \A i, j \in DOMAIN path :
                   i < j /\ N[path[i]] = sid /\ N[path[j]] = sid => path[i] < path[j]
    BY <1>7
<1>9. \A sid \in DOMAIN t_sess : sid \in 1 .. Len(K) /\ t_sess[sid].send = K[sid]
    BY <1>4
<1>10. \A n \in DOMAIN N : n \in Range(G) \cup Range(t_sess[N[n]].send)
    BY <1>5
<1>11. \A sid \in DOMAIN t_sess :
          LET path == G \o t_sess[sid].send
          IN  /\ \A n \in Range(t_sess[sid].send) : N[n] = sid
              /\ \A i, j \in DOMAIN path :
                    i < j /\ N[path[i]] = sid /\ N[path[j]] = sid => path[i] < path[j]
  <2> TAKE sid \in DOMAIN t_sess
  <2>1. sid \in 1 .. Len(K) /\ t_sess[sid].send = K[sid]
    BY <1>9
  <2>2. \A n \in Range(t_sess[sid].send) : N[n] = sid
    BY <2>1, <1>6
  <2> QED
    BY <2>1, <2>2, <1>8
<1>12. N = t_sent /\ G = t_given
    BY <1>1
<1> QED
    BY ONLY <1>10, <1>11, <1>12 DEF SessionInOrder

LEMMA CameInOrder ==
    ASSUME TerminalInv
    PROVE  ArrivalsKept
<1> DEFINE path(s) == t_handled \o t_sess[t_socks[s].session].recv \o t_socks[s].recv
           mine(s) == {i \in DOMAIN path(s) : path(s)[i].sock = s /\ path(s)[i].n > t_from[s]}
           lost(s) == t_last[s] + 1 .. t_last[s] + t_lost[s]
<1>0. Typed /\ Waiting /\ Looping /\ Receiving
    BY DEF TerminalInv
<1>1. ASSUME NEW s \in Socks, t_socks[s].session # NULL
      PROVE  /\ {path(s)[i].n : i \in mine(s)} = (t_from[s] + 1 .. t_came[s]) \ lost(s)
             /\ \A i, j \in mine(s) : i < j => path(s)[i].n < path(s)[j].n
             /\ t_lost[s] <= t_last[s]
  <2>1. PICK sid, q, z, P2, W, T1, X :
            /\ sid = t_socks[s].session /\ q = t_socks[s].recv
            /\ z = t_handled \o (t_sess[sid].recv \o q)
            /\ P2 = [pulls(t_sess) EXCEPT ![sid] = <<>>] /\ W = sessionOf(t_socks)
            /\ T1 = [taken(t_socks, t_came) EXCEPT ![s] = t_came[s]]
            /\ X = released(t_last, t_lost)
    OBVIOUS
  <2>2. sid \in 1 .. Len(t_sess) /\ z \in Seq(Pack) /\ RecvInv(z, P2, W, t_from, T1, X)
    BY <1>0, <1>1, <2>1, Takes
  <2>3. t_sess \in Seq(Session) /\ t_handled \in Seq(Pack) /\ q \in Seq(Pack)
        /\ t_from[s] \in Nat /\ t_came[s] \in Nat
    BY <1>0, <2>1, TypedParts DEF Typed
  <2>4. /\ t_sess[sid].recv \in Seq(Pack) /\ pulls(t_sess) \in Seq(Seq(Pack))
        /\ Len(pulls(t_sess)) = Len(t_sess)
    BY <2>2, <2>3, SessionParts
  <2>5. path(s) = z
    <3>1. PICK r : r = t_sess[sid].recv
      OBVIOUS
    <3>2. t_handled \in Seq(Pack) /\ r \in Seq(Pack) /\ q \in Seq(Pack)
      BY <2>3, <2>4, <3>1
    <3>3. (t_handled \o r) \o q = t_handled \o (r \o q)
      BY ONLY <3>2, ConcatAssociative, SMT
    <3> QED
      BY <2>1, <3>1, <3>3
  <2>6. W[s] = sid /\ T1[s] = t_came[s] /\ DOMAIN z = 1 .. Len(z) /\ X[s] = lost(s)
    <3>1. DOMAIN z = 1 .. Len(z)
      BY <2>2, LenProperties
    <3> QED
      BY <2>1, <3>1 DEF sessionOf, taken, released
  <2>7. Len(P2[sid]) = 0
    <3>1. <<>> \in Seq(Pack) /\ Len(<<>>) = 0
      BY EmptySeq
    <3>2. PICK P : P = pulls(t_sess)
      OBVIOUS
    <3>3. P \in Seq(Seq(Pack)) /\ sid \in 1 .. Len(P)
      BY <2>2, <2>4, <3>2
    <3>4. [P EXCEPT ![sid] = <<>>][sid] = <<>>
      BY ONLY <3>1, <3>3, ExceptSeq
    <3> QED
      BY <2>1, <3>1, <3>2, <3>4
  <2>8. HandledOnce(z, W, t_from, T1, X) /\ NoneDropped(z, P2, W, t_from, T1, X)
    BY <2>2 DEF RecvInv
  <2> DEFINE M == {i \in 1 .. Len(z) : z[i].sock = s /\ z[i].n > t_from[s]}
             N == (t_from[s] + 1 .. t_came[s]) \ lost(s)
  <2>9. ASSUME NEW i \in M
        PROVE  z[i].n \in N
    <3>1. Known(z[i], W, t_from, T1, X) /\ z[i].sock = s /\ z[i].n > t_from[s]
      BY <2>8 DEF HandledOnce
    <3>2. z[i].n \in Nat /\ z[i].n <= t_came[s] /\ z[i].n \notin lost(s)
      BY <2>6, <3>1 DEF Known
    <3> QED
      BY <2>3, <3>1, <3>2
  <2>10. ASSUME NEW n \in N
         PROVE  \E i \in M : z[i].n = n
    <3>1. n \in X[s] \/ Has(z, s, n) \/ Has(P2[sid], s, n)
      BY <1>1, <2>1, <2>6, <2>8 DEF NoneDropped
    <3>2. ~ Has(P2[sid], s, n)
      BY <2>7 DEF Has
    <3>3. n \notin X[s] /\ n > t_from[s]
      BY <2>3, <2>6
    <3> QED
      BY <3>1, <3>2, <3>3 DEF Has
  <2>11. ASSUME NEW i \in M, NEW j \in M, i < j
         PROVE  z[i].n < z[j].n
    <3>1. i \in 1 .. Len(z) /\ j \in 1 .. Len(z) /\ z[i].sock = s /\ z[j].sock = s
          /\ z[i].n > t_from[s] /\ z[j].n > t_from[s]
      OBVIOUS
    <3>2. Before(z[i], z[j], t_from)
      BY <2>8, <2>11, <3>1 DEF HandledOnce
    <3> QED
      BY <3>1, <3>2 DEF Before
  <2>12. {z[i].n : i \in M} = N
    BY <2>9, <2>10
  <2>13. mine(s) = M
    BY <2>5, <2>6
  <2>14. t_lost[s] <= t_last[s]
    BY <1>0 DEF Looping
  <2> QED
    BY ONLY <2>5, <2>11, <2>12, <2>13, <2>14
<1> QED
    BY <1>1 DEF ArrivalsKept

\* No packet that a session sends is lost, repeated or overtaken, whatever becomes of its
\* sockets (Session::sendPacket and flush); of those it receives all that was there when its
\* socket pulled is handled once and in order, and all that comes later but the next ones
\* the loop that made it releases, no more than had come (handleSocketRecv, handlePollEvent).
THEOREM SessionsKeep == TerminalSpec => []SessionKeeps
<1>1. TerminalInv => SessionKeeps
    BY SentInOrder, CameInOrder DEF SessionKeeps
<1> QED
    BY <1>1, TerminalInvariant, PTL
================================================================================
