------------------------- MODULE NetClientOpsProofs -------------------------
(***************************************************************************)
(* Proofs about NetClient: its lists, the inductive invariant, and what the*)
(* operators of the list, of the keep-alive and of output do to it.        *)
(***************************************************************************)
EXTENDS NetClient, FiniteSetTheorems, TLAPS

(***************************************************************************)
(* Lists of calls.                                                         *)
(***************************************************************************)

\* A call is listed once.
Unique(q) == \A i, j \in 1..Len(q) : q[i] = q[j] => i = j

\* h is the first member of the list q that is in T.
First(q, T, h) ==
  \E i \in 1..Len(q) : q[i] = h /\ h \in T /\ \A j \in 1..i-1 : q[j] \notin T

\* g takes the positions of p to those of the members of q that stay, in order.
Embeds(g, q, n, stay, p) ==
  /\ g \in [1..Len(p) -> 1..n]
  /\ \A k, l \in 1..Len(p) : k < l => g[k] < g[l]
  /\ \A k \in 1..Len(p) : p[k] = q[g[k]] /\ p[k] \in stay
  /\ \A i \in 1..n : q[i] \in stay => \E k \in 1..Len(p) : g[k] = i

\* p is what is left of the list q when only members of stay stay.
Subsequence(q, stay, p) == p \in Seq(Calls) /\ \E g : Embeds(g, q, Len(q), stay, p)

\* Every set of positions has a first one.
LEMMA Least ==
  ASSUME NEW S \in SUBSET Nat, S # {}
  PROVE  Min(S) \in S /\ \A l \in S : Min(S) <= l
<1>1. PICK k \in S : \A l \in S : ~(<<l, k>> \in OpToRel(<, Nat))
  BY NatLessThanWellFounded, WFMin
<1>2. \A l \in S : ~(l < k)
  BY <1>1, Zenon DEF OpToRel
<1>3. \A l \in S : k <= l
  BY <1>2
<1> QED BY <1>3, Zenon DEF Min

\* What is in a list.
LEMMA RangeOf ==
  ASSUME NEW T, NEW q \in Seq(T)
  PROVE  /\ Len(q) \in Nat /\ DOMAIN q = 1..Len(q)
         /\ \A k \in 1..Len(q) : q[k] \in T
         /\ \A x : x \in Range(q) <=> \E k \in 1..Len(q) : q[k] = x
BY DEF Range

\* virNetClientCallRemovePredicate goes through the list once: what it keeps of the
\* first i calls is defined by what it keeps of the first i - 1.
LEMMA KeptDefined ==
  ASSUME NEW q \in Seq(Calls), NEW stay
  PROVE  \E f : /\ Kept(q, stay) = f[Len(q)] /\ f[0] = <<>>
                /\ \A i \in 1..Len(q) :
                     f[i] = IF q[i] \in stay THEN Append(f[i-1], q[i]) ELSE f[i-1]
<1> DEFINE Step(f, i) == IF i = 0 THEN <<>>
                         ELSE IF q[i] \in stay THEN Append(f[i-1], q[i]) ELSE f[i-1]
           Solves(f, n) == f = [i \in 0..n |-> Step(f, i)]
           Bad == {n \in 0..Len(q) : ~ \E f : Solves(f, n)}
<1>1. Len(q) \in Nat
  BY RangeOf
<1>2. Bad = {}
  <2> SUFFICES ASSUME Bad # {} PROVE FALSE
    OBVIOUS
  <2>1. PICK n \in Bad : \A m \in Bad : n <= m
    <3>1. Bad \in SUBSET Nat
      BY <1>1
    <3> HIDE DEF Bad
    <3> QED BY <3>1, Least, Zenon
  <2>2. CASE n = 0
    <3> DEFINE f == [i \in 0..0 |-> <<>>]
    <3>1. \A i \in 0..0 : f[i] = Step(f, i)
      OBVIOUS
    <3>2. Solves(f, 0)
      BY <3>1
    <3> QED BY <2>1, <2>2, <3>2, Zenon
  <2>3. CASE n # 0
    <3>0. n \in 0..Len(q)
      OBVIOUS
    <3>1. n - 1 \in 0..Len(q) /\ n - 1 \notin Bad /\ n \in Nat
      <4> HIDE DEF Bad
      <4> QED BY <1>1, <2>1, <2>3, <3>0
    <3>2. PICK f : Solves(f, n - 1)
      BY <3>1, Zenon
    <3> DEFINE g == [i \in 0..n |-> IF i = n THEN Step(f, n) ELSE f[i]]
    <3>3. \A i \in 0..n-1 : f[i] = Step(f, i)
      BY <3>2, Zenon
    <3>4. ASSUME NEW i \in 0..n PROVE g[i] = Step(g, i)
      <4>1. CASE i = 0
        <5>1. 0 \in 0..n-1
          BY <2>3, <3>1
        <5> QED BY <2>3, <3>3, <4>1, <5>1
      <4>2. CASE i # 0
        <5>1. i - 1 \in 0..n-1 /\ i - 1 \in 0..n /\ i - 1 # n
          BY <3>1, <4>2
        <5>2. g[i - 1] = f[i - 1]
          BY <5>1
        <5>3. Step(g, i) = Step(f, i)
          BY <5>2, <4>2
        <5>4. g[i] = Step(f, i)
          BY <3>1, <3>3, <4>2
        <5> QED BY <5>3, <5>4
      <4> QED BY <4>1, <4>2
    <3>5. Solves(g, n)
      BY <3>4
    <3> QED BY <2>1, <3>5, Zenon
  <2> QED BY <2>2, <2>3
<1>3. Len(q) \in 0..Len(q)
  BY <1>1
<1>4. \E f : Solves(f, Len(q))
  BY <1>2, <1>3, Zenon
<1> DEFINE F == CHOOSE f : Solves(f, Len(q))
<1>5. Solves(F, Len(q))
  <2> HIDE DEF Solves
  <2> QED BY <1>4
<1>6. Kept(q, stay) = F[Len(q)]
  BY DEF Kept
<1> HIDE DEF F
<1>7. \A i \in 0..Len(q) : F[i] = Step(F, i)
  BY <1>5, Zenon
<1>8. F[0] = <<>>
  BY <1>1, <1>7
<1>9. \A i \in 1..Len(q) : F[i] = IF q[i] \in stay THEN Append(F[i-1], q[i]) ELSE F[i-1]
  BY <1>1, <1>7
<1> QED BY <1>6, <1>8, <1>9

\* One more call is listed behind the others.
LEMMA Appended ==
  ASSUME NEW T, NEW q \in Seq(T), NEW x \in T
  PROVE  /\ Append(q, x) \in Seq(T) /\ Len(Append(q, x)) = Len(q) + 1
         /\ Append(q, x)[Len(q) + 1] = x
         /\ \A i \in 1..Len(q) : Append(q, x)[i] = q[i]
OBVIOUS

\* virNetClientCallRemovePredicate keeps the order of the calls that stay.
LEMMA KeptSubsequence ==
  ASSUME NEW q \in Seq(Calls), NEW stay
  PROVE  Subsequence(q, stay, Kept(q, stay))
<1>1. PICK f : /\ Kept(q, stay) = f[Len(q)] /\ f[0] = <<>>
               /\ \A i \in 1..Len(q) :
                    f[i] = IF q[i] \in stay THEN Append(f[i-1], q[i]) ELSE f[i-1]
  BY KeptDefined
<1>2. Len(q) \in Nat /\ \A i \in 1..Len(q) : q[i] \in Calls
  BY RangeOf
<1> DEFINE Right(n) == f[n] \in Seq(Calls) /\ \E g : Embeds(g, q, n, stay, f[n])
           Bad == {n \in 0..Len(q) : ~Right(n)}
<1>3. Right(0)
  <2> DEFINE g == [k \in 1..0 |-> 0]
  <2>1. f[0] \in Seq(Calls) /\ Len(f[0]) = 0
    BY <1>1
  <2>2. Embeds(g, q, 0, stay, f[0])
    BY <2>1 DEF Embeds
  <2> QED BY <2>1, <2>2
<1>4. ASSUME NEW n \in 1..Len(q), Right(n - 1) PROVE Right(n)
  <2> DEFINE p == f[n - 1]
  <2>1. PICK g : Embeds(g, q, n - 1, stay, p)
    BY <1>4
  <2>2. p \in Seq(Calls) /\ Len(p) \in Nat /\ n \in Nat /\ n >= 1
    BY <1>2, <1>4, RangeOf
  <2>3. CASE q[n] \in stay
    <3> DEFINE m == Len(p) + 1
               h == [k \in 1..m |-> IF k = m THEN n ELSE g[k]]
    <3>1. f[n] = Append(p, q[n])
      BY <1>1, <2>3, Zenon
    <3>2. /\ f[n] \in Seq(Calls) /\ Len(f[n]) = m /\ f[n][m] = q[n]
          /\ \A i \in 1..Len(p) : f[n][i] = p[i]
      BY <1>2, <2>2, <3>1, Appended
    <3>3. /\ g \in [1..Len(p) -> 1..n-1]
          /\ \A k, l \in 1..Len(p) : k < l => g[k] < g[l]
          /\ \A k \in 1..Len(p) : p[k] = q[g[k]] /\ p[k] \in stay
          /\ \A i \in 1..n-1 : q[i] \in stay => \E k \in 1..Len(p) : g[k] = i
      BY <2>1 DEF Embeds
    <3>4. m \in Nat /\ \A k \in 1..m : k = m \/ (k \in 1..Len(p) /\ k < m)
      BY <2>2
    <3> HIDE DEF p, m
    <3>5. h \in [1..m -> 1..n]
      BY <2>2, <3>3, <3>4
    <3>6. \A k \in 1..m : h[k] = IF k = m THEN n ELSE g[k]
      OBVIOUS
    <3>7. \A k \in 1..Len(p) : k \in 1..m /\ k # m /\ g[k] \in 1..n-1
      BY <2>2, <3>3 DEF m
    <3>8. m \in 1..m
      BY <2>2 DEF m
    <3> HIDE DEF h
    <3>9. ASSUME NEW k \in 1..m, NEW l \in 1..m, k < l PROVE h[k] < h[l]
      <4>1. k \in 1..Len(p) /\ h[k] = g[k] /\ g[k] < n
        BY <2>2, <3>3, <3>6, <3>7, <3>9 DEF m
      <4>2. CASE l = m
        BY <2>2, <3>6, <4>1, <4>2
      <4>3. CASE l # m
        <5>1. l \in 1..Len(p) /\ h[l] = g[l]
          BY <2>2, <3>3, <3>6, <4>3 DEF m
        <5> QED BY <3>3, <3>4, <3>9, <4>1, <5>1
      <4> QED BY <4>2, <4>3
    <3>10. \A k \in 1..m : f[n][k] = q[h[k]] /\ f[n][k] \in stay
      BY <2>3, <3>2, <3>3, <3>4, <3>6
    <3>11. \A i \in 1..n : q[i] \in stay => \E k \in 1..m : h[k] = i
      <4> SUFFICES ASSUME NEW i \in 1..n, q[i] \in stay PROVE \E k \in 1..m : h[k] = i
        OBVIOUS
      <4>1. CASE i = n
        BY <3>6, <3>8, <4>1
      <4>2. CASE i # n
        <5>1. i \in 1..n-1
          BY <2>2, <4>2
        <5>2. PICK k \in 1..Len(p) : g[k] = i
          BY <3>3, <5>1
        <5> QED BY <3>6, <3>7, <5>2
      <4> QED BY <4>1, <4>2
    <3>12. Embeds(h, q, n, stay, f[n])
      BY <3>2, <3>5, <3>9, <3>10, <3>11 DEF Embeds
    <3> QED BY <3>2, <3>12
  <2>4. CASE q[n] \notin stay
    <3>1. f[n] = p
      BY <1>1, <2>4
    <3>2. \A i \in 1..n : i \in 1..n-1 \/ i = n
      BY <2>2
    <3>3. \A i \in 1..n-1 : i \in 1..n
      BY <2>2
    <3> HIDE DEF p
    <3>4. Embeds(g, q, n, stay, p)
      BY <2>1, <2>4, <3>2, <3>3 DEF Embeds
    <3> QED BY <2>2, <3>1, <3>4
  <2> QED BY <2>3, <2>4
<1>5. Bad = {}
  <2> SUFFICES ASSUME Bad # {} PROVE FALSE
    OBVIOUS
  <2>1. PICK n \in Bad : \A m \in Bad : n <= m
    <3>1. Bad \in SUBSET Nat
      BY <1>2
    <3> HIDE DEF Bad
    <3> QED BY <3>1, Least
  <2>2. n \in 0..Len(q) /\ ~Right(n)
    OBVIOUS
  <2>3. n # 0
    BY <1>3, <2>2
  <2>4. n - 1 \in 0..Len(q) /\ n - 1 \notin Bad /\ n \in 1..Len(q)
    <3> HIDE DEF Bad
    <3> QED BY <1>2, <2>1, <2>2, <2>3
  <2>5. Right(n - 1)
    BY <2>4
  <2> HIDE DEF Right
  <2> QED BY <1>4, <2>2, <2>4, <2>5
<1>6. Right(Len(q))
  <2>1. Len(q) \in 0..Len(q)
    BY <1>2
  <2> HIDE DEF Right
  <2> QED BY <1>5, <2>1
<1> QED BY <1>1, <1>6 DEF Subsequence

\* virNetClientCallRemove takes one call out of the list, which names it once.
LEMMA RemovedSubsequence ==
  ASSUME NEW q \in Seq(Calls), Unique(q), NEW c \in Range(q)
  PROVE  Subsequence(q, Calls \ {c}, CallRemove(q, c))
<1> DEFINE S == {i \in DOMAIN q : q[i] = c}
           n == Min(S)
           a == SubSeq(q, 1, n - 1)
           b == SubSeq(q, n + 1, Len(q))
           p == a \o b
<1>1. Len(q) \in Nat /\ DOMAIN q = 1..Len(q) /\ \A k \in 1..Len(q) : q[k] \in Calls
  BY RangeOf
<1>2. n \in 1..Len(q) /\ q[n] = c
  <2>1. S \in SUBSET Nat /\ S # {}
    BY <1>1, RangeOf
  <2>2. n \in S
    <3> HIDE DEF S
    <3> QED BY <2>1, Least
  <2> HIDE DEF n
  <2> QED BY <1>1, <2>2
<1>3. CallRemove(q, c) = p
  BY DEF CallRemove
<1> HIDE DEF n
<1>4. a \in Seq(Calls) /\ Len(a) = n - 1 /\ \A k \in 1..n-1 : a[k] = q[k]
  <2>1. \A k \in 1..n-1 : q[k] \in Calls
    BY <1>1, <1>2
  <2>2. /\ a \in Seq(Calls) /\ Len(a) = IF 1 <= n - 1 THEN (n - 1) - 1 + 1 ELSE 0
        /\ \A k \in 1..(n - 1) - 1 + 1 : a[k] = q[1 + k - 1]
    BY <1>1, <1>2, <2>1
  <2> HIDE DEF a
  <2> QED BY <1>1, <1>2, <2>2
<1>5. b \in Seq(Calls) /\ Len(b) = Len(q) - n /\ \A k \in 1..Len(q)-n : b[k] = q[n+k]
  <2>1. \A k \in n+1..Len(q) : q[k] \in Calls
    BY <1>1, <1>2
  <2>2. /\ b \in Seq(Calls) /\ Len(b) = IF n + 1 <= Len(q) THEN Len(q) - (n + 1) + 1 ELSE 0
        /\ \A k \in 1..Len(q) - (n + 1) + 1 : b[k] = q[(n + 1) + k - 1]
    BY <1>1, <1>2, <2>1
  <2> HIDE DEF b
  <2> DEFINE L == Len(q)
  <2>0. L \in Nat /\ n \in Nat /\ n <= L
    BY <1>1, <1>2
  <2> HIDE DEF L
  <2>3. L - (n + 1) + 1 = L - n /\ (~(n + 1 <= L) => L - n = 0)
    BY <2>0
  <2>4. \A k \in 1..L-n : (n + 1) + k - 1 = n + k
    BY <2>0
  <2>5. Len(b) = L - n
    BY <2>2, <2>3 DEF L
  <2> USE DEF L
  <2> QED BY <2>2, <2>3, <2>4, <2>5
<1> HIDE DEF a, b
<1>6. /\ p \in Seq(Calls) /\ Len(p) = Len(a) + Len(b)
      /\ \A k \in 1..Len(a) + Len(b) : p[k] = IF k <= Len(a) THEN a[k] ELSE b[k - Len(a)]
  BY <1>4, <1>5
<1> HIDE DEF p
<1> DEFINE m == Len(q) - 1
           g == [k \in 1..m |-> IF k < n THEN k ELSE k + 1]
<1>7. Len(p) = m /\ m \in Nat /\ n \in Nat /\ m = Len(q) - 1
  BY <1>1, <1>2, <1>4, <1>5, <1>6
<1>8. \A k \in 1..m : g[k] = IF k < n THEN k ELSE k + 1
  OBVIOUS
<1>9. g \in [1..m -> 1..Len(q)]
  BY <1>1, <1>2
<1> HIDE DEF m, g
<1>10. ASSUME NEW k \in 1..m PROVE p[k] = q[g[k]]
  <2>1. CASE k < n
    <3>1. k \in 1..n-1 /\ k \in 1..Len(a)+Len(b) /\ k <= Len(a)
      BY <1>1, <1>2, <1>4, <1>5, <1>7, <2>1
    <3>2. p[k] = a[k]
      BY <1>6, <3>1
    <3>3. a[k] = q[k]
      BY <1>4, <3>1
    <3> QED BY <1>8, <2>1, <3>2, <3>3
  <2>2. CASE ~(k < n)
    <3>1. k - (n - 1) \in 1..Len(q)-n /\ n + (k - (n - 1)) = k + 1
      BY <1>1, <1>2, <1>7, <2>2
    <3>2. p[k] = b[k - (n - 1)]
      <4>1. k \in 1..Len(a)+Len(b) /\ ~(k <= Len(a))
        BY <1>1, <1>2, <1>4, <1>5, <1>7, <2>2
      <4> QED BY <1>4, <1>6, <4>1
    <3>3. b[k - (n - 1)] = q[k + 1]
      BY <1>5, <3>1
    <3> QED BY <1>8, <2>2, <3>2, <3>3
  <2> QED BY <2>1, <2>2
<1>11. \A k, l \in 1..m : k < l => g[k] < g[l]
  BY <1>2, <1>7, <1>8
<1>12. \A k \in 1..m : g[k] # n /\ g[k] \in 1..Len(q)
  BY <1>2, <1>7, <1>8, <1>9
<1>13. \A k \in 1..m : p[k] \in Calls \ {c}
  BY <1>1, <1>2, <1>10, <1>12 DEF Unique
<1>14. \A i \in 1..Len(q) : q[i] \in Calls \ {c} => \E k \in 1..m : g[k] = i
  <2> SUFFICES ASSUME NEW i \in 1..Len(q), q[i] # c PROVE \E k \in 1..m : g[k] = i
    OBVIOUS
  <2>1. i # n
    BY <1>2
  <2>2. CASE i < n
    <3>1. i \in 1..m
      BY <1>1, <1>2, <1>7, <2>2
    <3> QED BY <1>8, <2>2, <3>1
  <2>3. CASE i > n
    <3>1. i - 1 \in 1..m /\ ~(i - 1 < n) /\ (i - 1) + 1 = i
      BY <1>1, <1>2, <1>7, <2>3
    <3> QED BY <1>8, <3>1
  <2> QED BY <1>1, <1>2, <2>1, <2>2, <2>3
<1>15. Embeds(g, q, Len(q), Calls \ {c}, p)
  BY <1>7, <1>9, <1>10, <1>11, <1>13, <1>14 DEF Embeds
<1> QED BY <1>3, <1>6, <1>15 DEF Subsequence

\* What is known of a list after calls were taken out.
LEMMA SubsequenceOf ==
  ASSUME NEW q \in Seq(Calls), NEW stay, NEW p, Subsequence(q, stay, p)
  PROVE  /\ p \in Seq(Calls)
         /\ \A x : x \in Range(p) <=> x \in Range(q) /\ x \in stay
         /\ Unique(q) => Unique(p)
         /\ \A T, h : First(q, T, h) /\ h \in stay => First(p, T, h)
<1>1. p \in Seq(Calls) /\ Len(p) \in Nat /\ Len(q) \in Nat
  BY RangeOf DEF Subsequence
<1>2. PICK g : Embeds(g, q, Len(q), stay, p)
  BY DEF Subsequence
<1>3. /\ g \in [1..Len(p) -> 1..Len(q)]
      /\ \A k, l \in 1..Len(p) : k < l => g[k] < g[l]
      /\ \A k \in 1..Len(p) : p[k] = q[g[k]] /\ p[k] \in stay
      /\ \A i \in 1..Len(q) : q[i] \in stay => \E k \in 1..Len(p) : g[k] = i
  BY <1>2 DEF Embeds
<1>4. \A x : x \in Range(p) <=> x \in Range(q) /\ x \in stay
  <2>1. ASSUME NEW x, x \in Range(p) PROVE x \in Range(q) /\ x \in stay
    <3>1. PICK k \in 1..Len(p) : p[k] = x
      BY <1>1, <2>1, RangeOf
    <3> QED BY <1>1, <1>3, <3>1, RangeOf
  <2>2. ASSUME NEW x, x \in Range(q), x \in stay PROVE x \in Range(p)
    <3>1. PICK i \in 1..Len(q) : q[i] = x
      BY <1>1, <2>2, RangeOf
    <3>2. PICK k \in 1..Len(p) : g[k] = i
      BY <1>3, <2>2, <3>1, Zenon
    <3> QED BY <1>1, <1>3, <3>1, <3>2, RangeOf
  <2> QED BY <2>1, <2>2
<1>5. ASSUME Unique(q) PROVE Unique(p)
  <2> SUFFICES ASSUME NEW k \in 1..Len(p), NEW l \in 1..Len(p), p[k] = p[l] PROVE k = l
    BY DEF Unique
  <2>0. g[k] \in 1..Len(q) /\ g[l] \in 1..Len(q) /\ q[g[k]] = q[g[l]]
    BY <1>3
  <2>1. g[k] = g[l]
    BY <1>5, <2>0 DEF Unique
  <2>2. g[k] \in Nat /\ g[l] \in Nat /\ k \in Nat /\ l \in Nat
    BY <1>1, <2>0
  <2>3. ~(k < l) /\ ~(l < k)
    BY <1>3, <2>1, <2>2
  <2> QED BY <2>2, <2>3
<1>6. ASSUME NEW T, NEW h, First(q, T, h), h \in stay PROVE First(p, T, h)
  <2>1. PICK i \in 1..Len(q) : q[i] = h /\ h \in T /\ \A j \in 1..i-1 : q[j] \notin T
    BY <1>6 DEF First
  <2>2. PICK k \in 1..Len(p) : g[k] = i
    BY <1>3, <1>6, <2>1
  <2>3. ASSUME NEW l \in 1..k-1 PROVE p[l] \notin T
    <3>1. l \in 1..Len(p) /\ l < k
      BY <1>1, <2>2
    <3>2. g[l] \in 1..i-1
      BY <1>1, <1>3, <2>1, <2>2, <3>1
    <3> QED BY <1>3, <2>1, <3>1, <3>2
  <2> QED BY <1>3, <2>1, <2>2, <2>3 DEF First
<1> QED BY <1>1, <1>4, <1>5, <1>6

\* What is known of a list after a call that it did not name was queued.
LEMMA QueuedCall ==
  ASSUME NEW q \in Seq(Calls), NEW c \in Calls, c \notin Range(q)
  PROVE  /\ CallQueue(q, c) \in Seq(Calls)
         /\ \A x : x \in Range(CallQueue(q, c)) <=> x \in Range(q) \/ x = c
         /\ Unique(q) => Unique(CallQueue(q, c))
         /\ \A T, h : First(q, T, h) => First(CallQueue(q, c), T, h)
<1> DEFINE p == CallQueue(q, c)
           n == Len(q)
<1>1. /\ p \in Seq(Calls) /\ Len(p) = n + 1 /\ p[n + 1] = c
      /\ \A i \in 1..n : p[i] = q[i]
  BY Appended DEF CallQueue
<1>2. n \in Nat /\ \A i \in 1..n : q[i] # c
  BY RangeOf
<1>3. \A i \in 1..n+1 : i \in 1..n \/ i = n + 1
  BY <1>2
<1>4. \A i \in 1..n : i \in 1..n+1 /\ i # n + 1
  BY <1>2
<1>5. n + 1 \in 1..n+1
  BY <1>2
<1> HIDE DEF p
<1>6. \A x : x \in Range(p) <=> x \in Range(q) \/ x = c
  <2>1. \A x : x \in Range(q) <=> \E i \in 1..n : q[i] = x
    BY RangeOf
  <2>2. \A x : x \in Range(p) <=> \E i \in 1..n+1 : p[i] = x
    BY <1>1, RangeOf
  <2> HIDE DEF n
  <2> QED BY <1>1, <1>3, <1>4, <1>5, <2>1, <2>2
<1>7. ASSUME Unique(q) PROVE Unique(p)
  BY <1>1, <1>2, <1>3, <1>7 DEF Unique
<1>8. ASSUME NEW T, NEW h, First(q, T, h) PROVE First(p, T, h)
  <2>1. PICK i \in 1..n : q[i] = h /\ h \in T /\ \A j \in 1..i-1 : q[j] \notin T
    BY <1>8 DEF First
  <2>2. \A j \in 1..i-1 : j \in 1..n
    BY <1>2
  <2> QED BY <1>1, <1>4, <2>1, <2>2 DEF First
<1> QED BY <1>1, <1>6, <1>7, <1>8 DEF p

(***************************************************************************)
(* The invariant, for a state s and the calls sv that were served.         *)
(***************************************************************************)

Places == {"idle", "armed", "queued", "asleep", "woken", "ok", "failed", "freed"} \cup InLoop
Waiting == {"asleep", "woken"} \cup InLoop
CloseReasons == {"none", "keepalive", "client", "eof", "error"}

ClientFields ==
  [sock : BOOLEAN, wantClose : BOOLEAN, closeReason : CloseReasons, haveTheBuck : BOOLEAN,
   waitDispatch : Seq(Calls), io : SUBSET {"in", "out", "removed"},
   countToDeath : Nat, due : BOOLEAN, wakeups : SUBSET Calls]
CallFields ==
  [at : Places, ping : BOOLEAN, mode : {"tx", "rx", "complete"}, haveThread : BOOLEAN,
   ev : SUBSET {"in", "out"}, rev : SUBSET {"in", "out", "hup"}]
WireFields ==
  [in : Seq(ReplyCalls \cup {"ping", "pong"}), sent : SUBSET Calls,
   half : Calls \cup {NoCall}, garbled : BOOLEAN, full : BOOLEAN, hup : BOOLEAN]

States == [cl : ClientFields, ca : [Calls -> CallFields], wi : WireFields]

\* o is the thread that has the buck, or NoCall: it polls or has been woken to do so.
\* The list holds its call, those of the threads that sleep, and those that are queued.
Buck(r) == r.at \in InLoop \/ (r.at = "woken" /\ r.mode # "complete")

Placed(s, o) ==
  /\ Unique(s.cl.waitDispatch)
  /\ \A c \in Calls :
       /\ c \in Range(s.cl.waitDispatch) <=> s.ca[c].at \in {"queued", "asleep"} \/ c = o
       /\ c = o <=> Buck(s.ca[c])
       /\ s.ca[c].haveThread <=> s.ca[c].at \in Waiting
       /\ s.ca[c].at \in {"queued", "armed", "freed"} => c \in Messages

Held(s, o) ==
  /\ s.cl.haveTheBuck <=> o \in Calls
  /\ o \in Calls => s.cl.sock
  /\ \A c \in Calls : s.ca[c].at = "asleep" => o \in Calls

\* Between two steps no call of the list is complete.
Clean(s) == \A c \in Range(s.cl.waitDispatch) : s.ca[c].mode # "complete"

\* A message that is partly on the wire is the next one to be written.
Framed(s) ==
  s.cl.sock /\ ~s.cl.wantClose =>
    /\ ~s.wi.garbled
    /\ s.wi.half # NoCall =>
         First(s.cl.waitDispatch, {c \in Calls : s.ca[c].mode = "tx"}, s.wi.half)

Occurs(msg, in) == Cardinality({i \in DOMAIN in : in[i] = msg})

\* There is a message left for every request that will be answered, and for the next
\* one of the client.
Spared(s) ==
  Cardinality(Unused(s)) >=
    Occurs("ping", s.wi.in) + (IF s.cl.due /\ s.cl.countToDeath > 0 THEN 1 ELSE 0)

\* countToDeath went down once for every request that is not answered, or whose answer
\* has not been read.
Made(s) == {c \in Messages : s.ca[c].ping}

Counted(s, sv) ==
  /\ sv \cap Messages \subseteq Made(s)
  /\ \A c \in Messages : s.ca[c].at = "idle" => ~s.ca[c].ping
  /\ s.cl.sock =>
       s.cl.countToDeath + Cardinality(Made(s) \ sv) + Occurs("pong", s.wi.in) >= KeepAliveCount

\* A call is complete only when it has been served, or has failed.  A reply comes only
\* for a request that has been written in full.
Answered(s, sv) ==
  \A c \in ReplyCalls :
    /\ c \in Range(s.wi.in) => c \in sv /\ c \in s.wi.sent
    /\ c \in s.wi.sent => s.ca[c].at # "idle" /\ s.ca[c].mode # "tx"
    /\ s.ca[c].mode = "complete" /\ s.ca[c].at # "failed" => c \in sv
    /\ s.ca[c].at = "ok" => s.ca[c].mode = "complete"

\* The part that does not depend on who has the buck and on the list.
Rest(s, sv) == Spared(s) /\ Counted(s, sv) /\ Answered(s, sv)

Inv(s, sv, o) == Placed(s, o) /\ Held(s, o) /\ Framed(s) /\ Rest(s, sv)

Good(s, sv) ==
  s \in States /\ Clean(s) /\ \E o \in Calls \cup {NoCall} : Inv(s, sv, o)

\* The inductive invariant.
IInv == Good(State, served) /\ served \subseteq Calls

(***************************************************************************)
(* The messages that have arrived.                                         *)
(***************************************************************************)

Arriving == ReplyCalls \cup {"ping", "pong"}

\* The places of a message in what has arrived.
LEMMA OccursType ==
  ASSUME NEW in \in Seq(Arriving), NEW msg
  PROVE  /\ IsFiniteSet({i \in DOMAIN in : in[i] = msg})
         /\ Occurs(msg, in) \in Nat
         /\ Occurs(msg, <<>>) = 0
<1>1. Len(in) \in Nat /\ DOMAIN in = 1..Len(in)
  BY RangeOf
<1>2. IsFiniteSet(1..Len(in))
  BY <1>1, FS_Interval
<1>3. IsFiniteSet({i \in DOMAIN in : in[i] = msg})
  <2>1. {i \in DOMAIN in : in[i] = msg} \in SUBSET (1..Len(in))
    BY <1>1
  <2> QED BY <1>2, <2>1, FS_Subset
<1>4. Occurs(msg, <<>>) = 0
  <2>1. {i \in DOMAIN <<>> : <<>>[i] = msg} = {}
    OBVIOUS
  <2> QED BY <2>1, FS_EmptySet, Zenon DEF Occurs
<1> QED BY <1>3, <1>4, FS_CardinalityType DEF Occurs

\* One more message arrives.
LEMMA OccursAppend ==
  ASSUME NEW in \in Seq(Arriving), NEW m \in Arriving, NEW msg
  PROVE  /\ Append(in, m) \in Seq(Arriving)
         /\ Occurs(msg, Append(in, m)) = Occurs(msg, in) + (IF m = msg THEN 1 ELSE 0)
         /\ \A x : x \in Range(Append(in, m)) <=> x \in Range(in) \/ x = m
<1> DEFINE p == Append(in, m)
           n == Len(in)
           S == {i \in DOMAIN in : in[i] = msg}
           T == {i \in DOMAIN p : p[i] = msg}
<1>1. n \in Nat /\ DOMAIN in = 1..n
  BY RangeOf
<1>2. /\ p \in Seq(Arriving) /\ Len(p) = n + 1 /\ p[n+1] = m
      /\ \A i \in 1..n : p[i] = in[i]
  OBVIOUS
<1>3. DOMAIN p = 1..n+1
  BY <1>2, RangeOf
<1>4. \A i : i \in 1..n+1 <=> i \in 1..n \/ i = n + 1
  BY <1>1
<1>5. ~(n + 1 \in 1..n)
  BY <1>1
<1>6. \A x : x \in Range(p) <=> x \in Range(in) \/ x = m
  <2>1. \A x : x \in Range(in) <=> \E i \in 1..n : in[i] = x
    BY RangeOf
  <2> HIDE DEF p
  <2>2. \A x : x \in Range(p) <=> \E i \in 1..n+1 : p[i] = x
    BY <1>2, RangeOf
  <2> HIDE DEF n
  <2> QED BY <1>2, <1>4, <2>1, <2>2
<1>7. IsFiniteSet(S) /\ Cardinality(S) \in Nat
  BY OccursType, Zenon DEF Occurs
<1>8. Cardinality(T) = Cardinality(S) + (IF m = msg THEN 1 ELSE 0)
  <2>1. CASE m = msg
    <3>1. T = S \cup {n + 1} /\ n + 1 \notin S
      <4> HIDE DEF p, n
      <4> QED BY <1>1, <1>2, <1>3, <1>4, <1>5, <2>1
    <3> HIDE DEF S, T
    <3> QED BY <1>7, <2>1, <3>1, FS_AddElement, Zenon
  <2>2. CASE m # msg
    <3>1. T = S
      <4> HIDE DEF p, n
      <4> QED BY <1>1, <1>2, <1>3, <1>4, <1>5, <2>2
    <3> HIDE DEF S, T
    <3> QED BY <1>7, <2>2, <3>1
  <2> QED BY <2>1, <2>2, Zenon
<1> QED BY <1>2, <1>6, <1>8, Zenon DEF Occurs

\* The first message is read.
LEMMA OccursTail ==
  ASSUME NEW in \in Seq(Arriving), in # <<>>, NEW msg
  PROVE  /\ Head(in) \in Arriving /\ Tail(in) \in Seq(Arriving)
         /\ Head(in) \in Range(in) /\ \A x : x \in Range(Tail(in)) => x \in Range(in)
         /\ Occurs(msg, Tail(in)) + (IF Head(in) = msg THEN 1 ELSE 0) <= Occurs(msg, in)
<1> DEFINE p == Tail(in)
           n == Len(in)
           S == {i \in DOMAIN in : in[i] = msg}
           T == {i \in DOMAIN p : p[i] = msg}
           f == [i \in T |-> i + 1]
<1>1. n \in Nat /\ n # 0 /\ DOMAIN in = 1..n
  BY RangeOf
<1>2. /\ Head(in) \in Arriving /\ p \in Seq(Arriving) /\ Len(p) = n - 1
      /\ \A i \in 1..n-1 : p[i] = in[i+1]
  OBVIOUS
<1>3. Head(in) = in[1]
  OBVIOUS
<1>4. DOMAIN p = 1..n-1
  BY <1>2, RangeOf
<1>5. \A x : (x \in Range(in) <=> \E i \in 1..n : in[i] = x)
             /\ (x \in Range(p) <=> \E i \in 1..n-1 : p[i] = x)
  BY <1>2, RangeOf, Zenon
<1>6. IsFiniteSet(S) /\ Cardinality(S) \in Nat /\ IsFiniteSet(T) /\ Cardinality(T) \in Nat
  BY <1>2, OccursType, Zenon DEF Occurs
<1>7. \A i \in 1..n-1 : i + 1 \in 1..n /\ i + 1 # 1
  BY <1>1
<1>8. 1 \in 1..n
  BY <1>1
<1> HIDE DEF p, n
<1>9. Head(in) \in Range(in) /\ \A x : x \in Range(p) => x \in Range(in)
  BY <1>2, <1>3, <1>5, <1>7, <1>8
<1>10. \A i \in T : i \in Nat /\ i + 1 \in S \ {1}
  BY <1>1, <1>2, <1>4, <1>7
<1> HIDE DEF S, T
<1>11. f \in Injection(T, S \ {1})
  <2>1. f \in [T -> S \ {1}]
    BY <1>10
  <2>2. ASSUME NEW i \in T, NEW j \in T, f[i] = f[j] PROVE i = j
    <3>1. f[i] = i + 1 /\ f[j] = j + 1
      OBVIOUS
    <3>2. i \in Nat /\ j \in Nat
      BY <1>10
    <3>3. i + 1 = j + 1
      BY <2>2, <3>1
    <3> QED BY <3>2, <3>3
  <2> QED BY <2>1, <2>2 DEF Injection, IsInjective
<1>12. /\ IsFiniteSet(S \ {1})
       /\ Cardinality(S \ {1}) = IF 1 \in S THEN Cardinality(S) - 1 ELSE Cardinality(S)
  BY <1>6, FS_RemoveElement, Zenon
<1>13. Cardinality(T) <= Cardinality(S \ {1})
  <2> HIDE DEF f
  <2> QED BY <1>11, <1>12, FS_Injection
<1>14. 1 \in S <=> Head(in) = msg
  BY <1>1, <1>3, <1>8 DEF S
<1>15. Cardinality(T) + (IF Head(in) = msg THEN 1 ELSE 0) <= Cardinality(S)
  BY <1>6, <1>12, <1>13, <1>14
<1> QED BY <1>2, <1>9, <1>15, Zenon DEF Occurs, S, T, p

(***************************************************************************)
(* States.                                                                 *)
(***************************************************************************)

USE NetClientAssumption

\* The fields of a state.
LEMMA Fields ==
  ASSUME NEW s \in States
  PROVE  /\ s.cl \in ClientFields /\ s.ca \in [Calls -> CallFields] /\ s.wi \in WireFields
         /\ s.cl.sock \in BOOLEAN /\ s.cl.wantClose \in BOOLEAN /\ s.cl.closeReason \in CloseReasons
         /\ s.cl.haveTheBuck \in BOOLEAN /\ s.cl.waitDispatch \in Seq(Calls)
         /\ s.cl.io \in SUBSET {"in", "out", "removed"} /\ s.cl.countToDeath \in Nat
         /\ s.cl.due \in BOOLEAN /\ s.cl.wakeups \in SUBSET Calls
         /\ \A c \in Calls : s.ca[c] \in CallFields
         /\ s.wi.in \in Seq(Arriving) /\ s.wi.sent \in SUBSET Calls
         /\ s.wi.half \in Calls \cup {NoCall}
         /\ s.wi.garbled \in BOOLEAN /\ s.wi.full \in BOOLEAN /\ s.wi.hup \in BOOLEAN
BY DEF States, ClientFields, WireFields, Arriving

\* The fields of a call.
LEMMA CallFieldsOf ==
  ASSUME NEW s \in States, NEW c \in Calls
  PROVE  /\ s.ca[c].at \in Places /\ s.ca[c].ping \in BOOLEAN
         /\ s.ca[c].mode \in {"tx", "rx", "complete"} /\ s.ca[c].haveThread \in BOOLEAN
         /\ s.ca[c].ev \in SUBSET {"in", "out"} /\ s.ca[c].rev \in SUBSET {"in", "out", "hup"}
BY DEF States, CallFields

\* t differs from s only in fields that the invariant does not look at, or in wantClose.
SameView(s, t) ==
  /\ t.wi = s.wi /\ t.cl.sock = s.cl.sock /\ t.cl.haveTheBuck = s.cl.haveTheBuck
  /\ t.cl.waitDispatch = s.cl.waitDispatch
  /\ t.cl.countToDeath = s.cl.countToDeath /\ t.cl.due = s.cl.due
  /\ \A c \in Calls : /\ t.ca[c].at = s.ca[c].at /\ t.ca[c].mode = s.ca[c].mode
                      /\ t.ca[c].haveThread = s.ca[c].haveThread
                      /\ t.ca[c].ping = s.ca[c].ping
  /\ s.cl.wantClose => t.cl.wantClose

\* virNetClientIOUpdateCallback changes the events of the callback.
LEMMA UpdateCallbackView ==
  ASSUME NEW s \in States, NEW enable \in BOOLEAN
  PROVE  LET t == UpdateCallback(s, enable)
         IN /\ t \in States /\ SameView(s, t) /\ t.ca = s.ca
            /\ t.cl.closeReason = s.cl.closeReason /\ t.cl.wantClose = s.cl.wantClose
<1> DEFINE X == IF ~enable THEN {} ELSE {"in"} \cup {e \in {"out"} : WithMode(s, "tx") # {}}
           t == [s EXCEPT !.cl.io = X]
<1>1. X \in SUBSET {"in", "out", "removed"}
  OBVIOUS
<1> HIDE DEF X
<1>2. t \in States
  BY <1>1 DEF States, ClientFields
<1>3. SameView(s, t) /\ t.ca = s.ca /\ t.cl.closeReason = s.cl.closeReason
      /\ t.cl.wantClose = s.cl.wantClose
  BY <1>1 DEF States, ClientFields, SameView
<1>4. SameView(s, s)
  BY DEF SameView
<1> QED BY <1>2, <1>3, <1>4, Zenon DEF UpdateCallback, X

\* virNetClientMarkClose sets wantClose, and the reason if there is none.
LEMMA MarkCloseView ==
  ASSUME NEW s \in States, NEW reason \in CloseReasons
  PROVE  LET t == MarkClose(s, reason)
         IN /\ t \in States /\ SameView(s, t) /\ t.ca = s.ca /\ t.cl.wantClose
            /\ t.cl.closeReason \in {s.cl.closeReason, reason}
<1> DEFINE u == [s EXCEPT !.cl.io = {"removed"}]
           v == [u EXCEPT !.cl.wantClose = TRUE, !.cl.closeReason = reason]
<1>1. u \in States /\ SameView(s, u) /\ u.ca = s.ca /\ u.cl.closeReason = s.cl.closeReason
      /\ u.cl.wantClose = s.cl.wantClose
  BY Zenon DEF States, ClientFields, SameView
<1> HIDE DEF u
<1>2. v \in States /\ SameView(u, v) /\ v.ca = u.ca /\ v.cl.closeReason = reason
      /\ v.cl.wantClose = TRUE
  BY <1>1, Zenon DEF States, ClientFields, SameView
<1> HIDE DEF v
<1>3. SameView(s, v)
  BY <1>1, <1>2 DEF SameView
<1>4. MarkClose(s, reason) = IF u.cl.wantClose THEN u ELSE v
  BY Zenon DEF MarkClose, u, v
<1>5. CASE u.cl.wantClose
  BY <1>1, <1>4, <1>5, Zenon
<1>6. CASE ~u.cl.wantClose
  BY <1>1, <1>2, <1>3, <1>4, <1>6, Zenon
<1> QED BY <1>5, <1>6

\* A sufficient condition for Rest to be kept: no message is made or read, no call is
\* newly answered, and if anything is dropped then with the socket.
SameRest(s, t) ==
  /\ \A c \in ReplyCalls :
       /\ c \in s.wi.sent => c \in t.wi.sent
       /\ c \in t.wi.sent =>
            \/ t.ca[c].at # "idle" /\ t.ca[c].mode # "tx"
            \/ /\ c \in s.wi.sent
               /\ t.ca[c].at = "idle" => s.ca[c].at = "idle"
               /\ t.ca[c].mode = "tx" => s.ca[c].mode = "tx"
  /\ t.wi.in = s.wi.in \/ (t.wi.in = <<>> /\ ~t.cl.sock)
  /\ t.cl.sock => s.cl.sock
  /\ t.cl.due => s.cl.due
  /\ t.cl.countToDeath = s.cl.countToDeath
  /\ \A c \in Messages : /\ t.ca[c].ping = s.ca[c].ping
                         /\ t.ca[c].at = "idle" <=> s.ca[c].at = "idle"
  /\ \A c \in ReplyCalls :
       /\ t.ca[c].mode = "complete" /\ t.ca[c].at # "failed" =>
            s.ca[c].mode = "complete" /\ s.ca[c].at # "failed"
       /\ t.ca[c].at = "ok" => t.ca[c].mode = "complete"

\* The numbers in Spared and Counted.
LEMMA Counts ==
  ASSUME NEW s \in States, NEW sv
  PROVE  /\ IsFiniteSet(Unused(s)) /\ IsFiniteSet(Made(s) \ sv)
         /\ Cardinality(Unused(s)) \in Nat /\ Cardinality(Made(s) \ sv) \in Nat
         /\ \A msg : Occurs(msg, s.wi.in) \in Nat /\ Occurs(msg, <<>>) = 0
<1>1. IsFiniteSet(Messages)
  OBVIOUS
<1>2. Unused(s) \in SUBSET Messages /\ Made(s) \ sv \in SUBSET Messages
  BY DEF Unused, Made
<1>3. IsFiniteSet(Unused(s)) /\ IsFiniteSet(Made(s) \ sv)
  BY <1>1, <1>2, FS_Subset
<1>4. s.wi.in \in Seq(Arriving)
  BY Fields
<1> QED BY <1>3, <1>4, FS_CardinalityType, OccursType, Zenon

\* See SameRest.
LEMMA RestKept ==
  ASSUME NEW s \in States, NEW t \in States, NEW sv, SameRest(s, t), Rest(s, sv)
  PROVE  Rest(t, sv)
<1>1. Unused(t) = Unused(s) /\ Made(t) = Made(s)
  BY DEF SameRest, Unused, Made, Calls
<1>2. /\ t.wi.in = s.wi.in \/ (t.wi.in = <<>> /\ ~t.cl.sock)
      /\ t.cl.due => s.cl.due
      /\ t.cl.sock => s.cl.sock
      /\ t.cl.countToDeath = s.cl.countToDeath
  BY DEF SameRest
<1>3. Spared(t)
  <2>1. Cardinality(Unused(s)) >=
          Occurs("ping", s.wi.in) + (IF s.cl.due /\ s.cl.countToDeath > 0 THEN 1 ELSE 0)
    BY DEF Rest, Spared
  <2>2. Occurs("ping", t.wi.in) \in {Occurs("ping", s.wi.in), 0}
    BY <1>2, Counts, Zenon
  <2>3. Cardinality(Unused(s)) >=
          Occurs("ping", t.wi.in) + (IF t.cl.due /\ t.cl.countToDeath > 0 THEN 1 ELSE 0)
    <3> DEFINE d == IF s.cl.due /\ s.cl.countToDeath > 0 THEN 1 ELSE 0
               e == IF t.cl.due /\ t.cl.countToDeath > 0 THEN 1 ELSE 0
    <3>1. d \in {0, 1} /\ e \in {0, 1} /\ (e = 1 => d = 1)
      BY <1>2
    <3>2. Cardinality(Unused(s)) \in Nat /\ Occurs("ping", s.wi.in) \in Nat
      BY Counts, Zenon
    <3>3. Cardinality(Unused(s)) >= Occurs("ping", s.wi.in) + d
      BY <2>1
    <3> HIDE DEF d, e
    <3>4. Cardinality(Unused(s)) >= Occurs("ping", t.wi.in) + e
      BY <2>2, <3>1, <3>2, <3>3
    <3> QED BY <3>4 DEF e
  <2> QED BY <1>1, <2>3 DEF Spared
<1>4. Counted(t, sv)
  <2>1. sv \cap Messages \subseteq Made(t)
    BY <1>1 DEF Rest, Counted
  <2>2. \A c \in Messages : t.ca[c].at = "idle" => ~t.ca[c].ping
    BY DEF Rest, Counted, SameRest, Calls
  <2>3. ASSUME t.cl.sock
        PROVE  t.cl.countToDeath + Cardinality(Made(t) \ sv) + Occurs("pong", t.wi.in)
               >= KeepAliveCount
    <3>1. s.cl.sock /\ t.wi.in = s.wi.in
      BY <1>2, <2>3
    <3>2. s.cl.countToDeath + Cardinality(Made(s) \ sv) + Occurs("pong", s.wi.in)
          >= KeepAliveCount
      BY <3>1 DEF Rest, Counted
    <3> QED BY <1>1, <1>2, <3>1, <3>2
  <2> QED BY <2>1, <2>2, <2>3 DEF Counted
<1>5. Answered(t, sv)
  <2> SUFFICES ASSUME NEW c \in ReplyCalls
               PROVE  /\ c \in Range(t.wi.in) => c \in sv /\ c \in t.wi.sent
                      /\ c \in t.wi.sent => t.ca[c].at # "idle" /\ t.ca[c].mode # "tx"
                      /\ t.ca[c].mode = "complete" /\ t.ca[c].at # "failed" => c \in sv
                      /\ t.ca[c].at = "ok" => t.ca[c].mode = "complete"
    BY DEF Answered
  <2>0. c \in Calls
    BY DEF Calls
  <2>1. /\ c \in Range(s.wi.in) => c \in sv /\ c \in s.wi.sent
        /\ c \in s.wi.sent => s.ca[c].at # "idle" /\ s.ca[c].mode # "tx"
        /\ s.ca[c].mode = "complete" /\ s.ca[c].at # "failed" => c \in sv
    BY DEF Rest, Answered
  <2>2. c \notin Range(<<>>)
    BY DEF Range
  <2>3. c \in Range(t.wi.in) => c \in sv /\ c \in t.wi.sent
    BY <1>2, <2>1, <2>2 DEF SameRest
  <2> QED BY <2>0, <2>1, <2>3 DEF SameRest
<1> QED BY <1>3, <1>4, <1>5 DEF Rest

\* First looks at the members of the list.
LEMMA FirstSame ==
  ASSUME NEW q \in Seq(Calls), NEW T, NEW U, NEW h, First(q, T, h),
         \A c \in Range(q) : c \in T <=> c \in U
  PROVE  First(q, U, h) /\ h \in Range(q)
<1>1. PICK i \in 1..Len(q) : q[i] = h /\ h \in T /\ \A j \in 1..i-1 : q[j] \notin T
  BY DEF First
<1>2. \A j \in 1..Len(q) : q[j] \in Range(q)
  BY RangeOf
<1>3. \A j \in 1..i-1 : j \in 1..Len(q)
  BY RangeOf
<1> QED BY <1>1, <1>2, <1>3 DEF First

\* What the invariant does not look at may change.
LEMMA ViewInv ==
  ASSUME NEW s \in States, NEW t \in States, NEW sv, NEW o, SameView(s, t), Inv(s, sv, o)
  PROVE  Inv(t, sv, o) /\ (Clean(s) => Clean(t))
<1>1. s.cl.waitDispatch \in Seq(Calls)
  BY Fields
<1>2. \A c \in Range(s.cl.waitDispatch) : c \in Calls
  BY <1>1, RangeOf
<1>3. Placed(t, o)
  BY DEF Inv, Placed, SameView, Buck
<1>4. Held(t, o)
  BY DEF Inv, Held, SameView
<1>5. {c \in Calls : t.ca[c].mode = "tx"} = {c \in Calls : s.ca[c].mode = "tx"}
  BY DEF SameView
<1>6. Framed(t)
  BY <1>5, Zenon DEF Inv, Framed, SameView
<1>7. SameRest(s, t)
  BY DEF SameRest, SameView, Calls, Inv, Rest, Answered
<1>8. Rest(t, sv)
  BY <1>7, RestKept DEF Inv
<1>9. Clean(s) => Clean(t)
  BY <1>2 DEF Clean, SameView
<1> QED BY <1>3, <1>4, <1>6, <1>8, <1>9 DEF Inv

(***************************************************************************)
(* Calls that leave the list.                                              *)
(***************************************************************************)

\* What a step may do to the client and to the calls of threads: the socket stays
\* closed and the mark to close is dropped only with the socket; a thread that waits
\* goes on waiting, one that does not stays where it is.
Goes(s, t) ==
  /\ t.cl.sock => s.cl.sock
  /\ s.cl.wantClose => t.cl.wantClose \/ ~t.cl.sock
  /\ \A c \in ReplyCalls :
       \/ t.ca[c].at = s.ca[c].at
       \/ t.ca[c].at \in Waiting /\ s.ca[c].at \in Waiting

\* virNetClientIOEventLoopRemoveDone: completed calls leave the list, and their threads
\* are woken.
LEMMA RemoveDoneInv ==
  ASSUME NEW s \in States, NEW sv, NEW o \in Calls \cup {NoCall}, Inv(s, sv, o),
         o \in Calls => s.ca[o].at \in InLoop
  PROVE  LET t == RemoveDone(s, o)
         IN /\ t \in States /\ Inv(t, sv, o) /\ Goes(s, t)
            /\ \A c \in Range(t.cl.waitDispatch) \ {o} : t.ca[c].mode # "complete"
            /\ o \in Calls => t.ca[o] = s.ca[o]
            /\ t.cl.sock = s.cl.sock /\ t.cl.wantClose = s.cl.wantClose
            /\ t.cl.closeReason = s.cl.closeReason
<1> DEFINE q == s.cl.waitDispatch
           done == WithMode(s, "complete") \ {o}
           Q == Kept(q, Calls \ done)
           Done(c) == [s.ca[c] EXCEPT !.at = IF s.ca[c].haveThread THEN "woken" ELSE "freed"]
           F == [c \in Calls |-> IF c \in done THEN Done(c) ELSE s.ca[c]]
           t == [s EXCEPT !.cl.waitDispatch = Q, !.ca = F]
<1>1. q \in Seq(Calls) /\ \A c \in Range(q) : c \in Calls
  BY Fields, RangeOf
<1>2. \A c \in Calls : c \in done <=> c \in Range(q) /\ s.ca[c].mode = "complete" /\ c # o
  BY DEF WithMode
<1>3. done \subseteq Calls
  BY <1>1 DEF WithMode
<1>4. RemoveDone(s, o) = t
  BY Zenon DEF RemoveDone
<1> HIDE DEF done
<1>5. Subsequence(q, Calls \ done, Q)
  BY <1>1, KeptSubsequence
<1>6. /\ Q \in Seq(Calls)
      /\ \A x : x \in Range(Q) <=> x \in Range(q) /\ x \in Calls \ done
      /\ Unique(q) => Unique(Q)
      /\ \A T, h : First(q, T, h) /\ h \in Calls \ done => First(Q, T, h)
  <2> HIDE DEF q, Q
  <2> QED BY <1>1, <1>5, SubsequenceOf
<1> HIDE DEF Q
<1>7. \A c \in Calls :
        /\ F[c] \in CallFields
        /\ F[c].at = IF c \in done THEN IF s.ca[c].haveThread THEN "woken" ELSE "freed"
                     ELSE s.ca[c].at
        /\ F[c].mode = s.ca[c].mode /\ F[c].haveThread = s.ca[c].haveThread
        /\ F[c].ping = s.ca[c].ping
        /\ c \notin done => F[c] = s.ca[c]
  BY DEF States, CallFields, Places
<1>8. F \in [Calls -> CallFields]
  BY <1>7, Zenon
<1> HIDE DEF F
<1>9. /\ t \in States /\ t.wi = s.wi /\ t.ca = F /\ t.cl.waitDispatch = Q
      /\ t.cl.sock = s.cl.sock /\ t.cl.wantClose = s.cl.wantClose
      /\ t.cl.closeReason = s.cl.closeReason /\ t.cl.haveTheBuck = s.cl.haveTheBuck
      /\ t.cl.countToDeath = s.cl.countToDeath /\ t.cl.due = s.cl.due
  <2>1. Q \in Seq(Calls)
    BY <1>6
  <2> QED BY <1>8, <2>1, Zenon DEF States, ClientFields
<1> HIDE DEF t
\* What was known of the calls.
<1>10. \A c \in Calls :
         /\ c \in Range(q) <=> s.ca[c].at \in {"queued", "asleep"} \/ c = o
         /\ c = o <=> Buck(s.ca[c])
         /\ s.ca[c].haveThread <=> s.ca[c].at \in Waiting
         /\ s.ca[c].at \in {"queued", "armed", "freed"} => c \in Messages
  BY DEF Inv, Placed
<1>11. \A c \in Calls : c \in done =>
         /\ c \notin Range(Q) /\ c # o /\ t.ca[c].mode = "complete"
         /\ \/ s.ca[c].at = "asleep" /\ t.ca[c].at = "woken"
            \/ s.ca[c].at = "queued" /\ t.ca[c].at = "freed"
         /\ t.ca[c].haveThread = s.ca[c].haveThread
  BY <1>2, <1>6, <1>7, <1>9, <1>10 DEF Waiting, InLoop
<1>12. \A c \in Calls : c \notin done =>
         (c \in Range(Q) <=> c \in Range(q)) /\ t.ca[c] = s.ca[c]
  BY <1>6, <1>7, <1>9
<1>13. Placed(t, o)
  <2>1. Unique(Q)
    BY <1>6 DEF Inv, Placed
  <2> SUFFICES ASSUME NEW c \in Calls
               PROVE  /\ c \in Range(Q) <=> t.ca[c].at \in {"queued", "asleep"} \/ c = o
                      /\ c = o <=> Buck(t.ca[c])
                      /\ t.ca[c].haveThread <=> t.ca[c].at \in Waiting
                      /\ t.ca[c].at \in {"queued", "armed", "freed"} => c \in Messages
    BY <1>9, <2>1 DEF Placed
  <2>2. CASE c \in done
    BY <1>10, <1>11, <2>2 DEF Buck, Waiting, InLoop
  <2>3. CASE c \notin done
    BY <1>10, <1>12, <2>3
  <2> QED BY <2>2, <2>3
<1>14. Held(t, o)
  <2>1. \A c \in Calls : t.ca[c].at = "asleep" => s.ca[c].at = "asleep"
    BY <1>11, <1>12
  <2> QED BY <1>9, <2>1 DEF Inv, Held
<1>15. Framed(t)
  <2> SUFFICES ASSUME s.cl.sock, ~s.cl.wantClose
               PROVE  /\ ~s.wi.garbled
                      /\ s.wi.half # NoCall =>
                           First(Q, {c \in Calls : t.ca[c].mode = "tx"}, s.wi.half)
    BY <1>9 DEF Framed
  <2> DEFINE T == {c \in Calls : s.ca[c].mode = "tx"}
  <2>1. {c \in Calls : t.ca[c].mode = "tx"} = T
    BY <1>7, <1>9
  <2>2. ~s.wi.garbled /\ (s.wi.half # NoCall => First(q, T, s.wi.half))
    BY DEF Inv, Framed
  <2>3. First(q, T, s.wi.half) => s.wi.half \in T
    BY DEF First
  <2>4. s.wi.half \in T => s.wi.half \in Calls \ done
    BY <1>2
  <2> HIDE DEF T
  <2> QED BY <1>6, <2>1, <2>2, <2>3, <2>4, Zenon
<1>16. Rest(t, sv)
  <2>1. SameRest(s, t)
    <3>1. \A c \in Calls : /\ t.ca[c].ping = s.ca[c].ping /\ t.ca[c].mode = s.ca[c].mode
                           /\ t.ca[c].at = "idle" <=> s.ca[c].at = "idle"
                           /\ t.ca[c].at = "ok" <=> s.ca[c].at = "ok"
                           /\ t.ca[c].at = "failed" <=> s.ca[c].at = "failed"
      BY <1>7, <1>9, <1>11, <1>12
    <3> QED BY <1>9, <3>1 DEF SameRest, Inv, Rest, Answered, Calls
  <2> QED BY <1>9, <2>1, RestKept, SMTT(30) DEF Inv
<1>17. Goes(s, t)
  <2>1. \A c \in ReplyCalls : c \notin Messages
    OBVIOUS
  <2>2. \A c \in ReplyCalls : \/ t.ca[c].at = s.ca[c].at
                              \/ t.ca[c].at \in Waiting /\ s.ca[c].at \in Waiting
    BY <1>10, <1>11, <1>12, <2>1 DEF Calls, Waiting
  <2> QED BY <1>9, <2>2 DEF Goes
<1>18. \A c \in Range(t.cl.waitDispatch) \ {o} : t.ca[c].mode # "complete"
  BY <1>1, <1>2, <1>6, <1>9, <1>12
<1>19. o \in Calls => t.ca[o] = s.ca[o]
  BY <1>2, <1>12
<1> QED BY <1>4, <1>9, <1>13, <1>14, <1>15, <1>16, <1>17, <1>18, <1>19 DEF Inv

\* What closing the client leaves.
Closed(s, t, sv) ==
  /\ t \in States /\ Inv(t, sv, NoCall) /\ Clean(t) /\ Goes(s, t)
  /\ t.cl.closeReason = s.cl.closeReason /\ ~t.cl.sock

\* virNetClientCloseLocked, when no thread waits: the calls that are left are freed.
LEMMA CloseLockedInv ==
  ASSUME NEW s \in States, NEW sv, NEW x \in Calls \cup {NoCall},
         Placed(s, NoCall), Rest(s, sv), ~s.cl.haveTheBuck,
         \A c \in Calls : s.ca[c].at # "asleep",
         x \in Range(s.cl.waitDispatch) => s.ca[x].mode # "complete"
  PROVE  Closed(s, CloseLocked(s, x), sv)
<1> DEFINE q == s.cl.waitDispatch
           gone == Range(q) \ {x}
           u == [s EXCEPT !.cl.sock = FALSE, !.cl.wantClose = FALSE, !.cl.due = FALSE,
                          !.wi.in = <<>>, !.wi.full = FALSE]
           v == IF ~s.cl.sock THEN s ELSE u
           Q == IF x \in Range(q) THEN <<x>> ELSE <<>>
           F == [c \in Calls |-> IF c \in gone THEN [s.ca[c] EXCEPT !.at = "freed"] ELSE s.ca[c]]
           t == [v EXCEPT !.cl.waitDispatch = Q, !.ca = F]
<1>1. q \in Seq(Calls) /\ \A c \in Range(q) : c \in Calls
  BY Fields, RangeOf
<1>2. /\ u \in States /\ u.ca = s.ca /\ u.cl.waitDispatch = q
      /\ ~u.cl.sock /\ ~u.cl.wantClose /\ ~u.cl.due
      /\ u.cl.closeReason = s.cl.closeReason /\ u.cl.haveTheBuck = s.cl.haveTheBuck
      /\ u.cl.countToDeath = s.cl.countToDeath
      /\ u.wi.in = <<>> /\ u.wi.sent = s.wi.sent
  <2>1. <<>> \in Seq(ReplyCalls \cup {"ping", "pong"})
    OBVIOUS
  <2> QED BY <2>1, Zenon DEF States, ClientFields, WireFields
<1> HIDE DEF u
<1>3. /\ v \in States /\ v.ca = s.ca /\ v.cl.waitDispatch = q /\ ~v.cl.sock
      /\ v.cl.due => s.cl.due
      /\ v.cl.closeReason = s.cl.closeReason /\ v.cl.haveTheBuck = s.cl.haveTheBuck
      /\ v.cl.countToDeath = s.cl.countToDeath
      /\ v.wi.in = s.wi.in \/ v.wi.in = <<>>
      /\ v.wi.sent = s.wi.sent
  BY <1>2
<1> HIDE DEF v
<1>4. CloseLocked(s, x) = t
  BY <1>3, ZenonT(30) DEF CloseLocked, v, u
<1>5. \A c \in Calls :
        /\ F[c] \in CallFields
        /\ F[c].at = IF c \in gone THEN "freed" ELSE s.ca[c].at
        /\ F[c].mode = s.ca[c].mode /\ F[c].haveThread = s.ca[c].haveThread
        /\ F[c].ping = s.ca[c].ping
  BY DEF States, CallFields, Places
<1>6. F \in [Calls -> CallFields]
  BY <1>5, Zenon
<1> HIDE DEF F
<1>7. Q \in Seq(Calls) /\ Unique(Q) /\ \A c : c \in Range(Q) <=> c \in Range(q) /\ c = x
  <2>1. CASE x \in Range(q)
    <3>1. Q = <<x>> /\ x \in Calls
      BY <1>1, <2>1
    <3>2. Q \in Seq(Calls) /\ Len(Q) = 1 /\ Q[1] = x
      BY <3>1
    <3> HIDE DEF Q
    <3>3. \A c : c \in Range(Q) <=> \E k \in 1..1 : Q[k] = c
      BY <3>2, RangeOf
    <3>4. Unique(Q)
      BY <3>2 DEF Unique
    <3> QED BY <2>1, <3>2, <3>3, <3>4
  <2>2. CASE x \notin Range(q)
    <3>1. Q = <<>>
      BY <2>2
    <3> QED BY <2>2, <3>1 DEF Unique, Range
  <2> QED BY <2>1, <2>2
<1> HIDE DEF Q
<1>8. /\ t \in States /\ t.wi = v.wi /\ t.ca = F /\ t.cl.waitDispatch = Q
      /\ t.cl.sock = v.cl.sock
      /\ t.cl.closeReason = v.cl.closeReason /\ t.cl.haveTheBuck = v.cl.haveTheBuck
      /\ t.cl.countToDeath = v.cl.countToDeath /\ t.cl.due = v.cl.due
  <2>1. Q \in Seq(Calls)
    BY <1>7
  <2> QED BY <1>3, <1>6, <2>1, Zenon DEF States, ClientFields
<1> HIDE DEF t
<1>9. NoCall \notin Calls
  OBVIOUS
<1>10. \A c \in Calls :
         /\ c \in Range(q) <=> s.ca[c].at \in {"queued", "asleep"}
         /\ ~Buck(s.ca[c])
         /\ s.ca[c].haveThread <=> s.ca[c].at \in Waiting
         /\ s.ca[c].at \in {"queued", "armed", "freed"} => c \in Messages
  BY <1>9 DEF Placed
<1>11. \A c \in Calls : c \in gone =>
         /\ s.ca[c].at = "queued" /\ c # x
         /\ t.ca[c].at = "freed" /\ t.ca[c].haveThread = s.ca[c].haveThread
  BY <1>5, <1>8, <1>10
<1>12. \A c \in Calls : c \notin gone =>
         /\ c \in Range(q) <=> c \in Range(Q)
         /\ t.ca[c].at = s.ca[c].at /\ t.ca[c].mode = s.ca[c].mode
         /\ t.ca[c].haveThread = s.ca[c].haveThread
  BY <1>5, <1>7, <1>8
<1>13. Placed(t, NoCall)
  <2> SUFFICES ASSUME NEW c \in Calls
               PROVE  /\ c \in Range(Q) <=> t.ca[c].at \in {"queued", "asleep"}
                      /\ ~Buck(t.ca[c])
                      /\ t.ca[c].haveThread <=> t.ca[c].at \in Waiting
                      /\ t.ca[c].at \in {"queued", "armed", "freed"} => c \in Messages
    BY <1>7, <1>8, <1>9 DEF Placed
  <2>1. CASE c \in gone
    BY <1>7, <1>10, <1>11, <2>1 DEF Buck, Waiting, InLoop
  <2>2. CASE c \notin gone
    BY <1>10, <1>12, <2>2 DEF Buck
  <2> QED BY <2>1, <2>2
<1>14. Held(t, NoCall)
  <2>1. \A c \in Calls : t.ca[c].at # "asleep"
    BY <1>11, <1>12
  <2> QED BY <1>3, <1>8, <1>9, <2>1 DEF Held
<1>15. Framed(t)
  BY <1>3, <1>8 DEF Framed
<1>16. Rest(t, sv)
  <2>1. SameRest(s, t)
    <3>1. \A c \in Calls : /\ t.ca[c].ping = s.ca[c].ping /\ t.ca[c].mode = s.ca[c].mode
                           /\ t.ca[c].at = "idle" <=> s.ca[c].at = "idle"
                           /\ t.ca[c].at = "ok" <=> s.ca[c].at = "ok"
                           /\ t.ca[c].at = "failed" <=> s.ca[c].at = "failed"
      BY <1>5, <1>8, <1>11, <1>12
    <3>2. /\ t.wi.sent = s.wi.sent
          /\ t.cl.due => s.cl.due
          /\ t.wi.in = s.wi.in \/ (t.wi.in = <<>> /\ ~t.cl.sock)
          /\ ~t.cl.sock /\ t.cl.countToDeath = s.cl.countToDeath
      BY <1>3, <1>8
    <3> QED BY <3>1, <3>2 DEF SameRest, Rest, Answered, Calls
  <2> QED BY <1>8, <2>1, RestKept, SMTT(30)
<1>17. Goes(s, t)
  <2>1. \A c \in ReplyCalls : c \notin Messages
    OBVIOUS
  <2>2. \A c \in ReplyCalls : t.ca[c].at = s.ca[c].at
    BY <1>10, <1>11, <1>12, <2>1 DEF Calls
  <2> QED BY <1>3, <1>8, <2>2 DEF Goes
<1>18. Clean(t)
  BY <1>1, <1>5, <1>7, <1>8 DEF Clean
<1>19. Closed(s, t, sv)
  BY <1>3, <1>8, <1>13, <1>14, <1>15, <1>16, <1>17, <1>18, SMTT(30) DEF Inv, Closed
<1> QED BY <1>4, <1>19, Zenon

\* virNetClientIOEventLoopPassTheBuck: the first thread that sleeps gets the buck; when
\* there is none the buck is put down, and a client marked to be closed is closed.
LEMMA PassTheBuckInv ==
  ASSUME NEW s \in States, NEW sv, NEW x \in Calls \cup {NoCall},
         Placed(s, NoCall), Framed(s), Rest(s, sv), Clean(s),
         \A c \in Calls : s.ca[c].at = "asleep" => s.cl.haveTheBuck /\ s.cl.sock /\ c # x
  PROVE  LET t == PassTheBuck(s, x)
         IN /\ t \in States /\ (\E o \in Calls \cup {NoCall} : Inv(t, sv, o))
            /\ Clean(t) /\ Goes(s, t) /\ t.cl.closeReason = s.cl.closeReason
<1> DEFINE q == s.cl.waitDispatch
           others == {i \in DOMAIN q : q[i] # x /\ s.ca[q[i]].haveThread}
           h == q[Min(others)]
           u == [s EXCEPT !.ca[h].at = "woken"]
           d == [s EXCEPT !.cl.haveTheBuck = FALSE]
<1>1. /\ q \in Seq(Calls) /\ DOMAIN q = 1..Len(q) /\ Len(q) \in Nat
      /\ \A c \in Range(q) : c \in Calls
      /\ \A i \in 1..Len(q) : q[i] \in Range(q)
      /\ \A c : c \in Range(q) <=> \E i \in 1..Len(q) : q[i] = c
  BY Fields, RangeOf
<1>2. NoCall \notin Calls
  OBVIOUS
<1>3. \A c \in Calls :
        /\ c \in Range(q) <=> s.ca[c].at \in {"queued", "asleep"}
        /\ ~Buck(s.ca[c])
        /\ s.ca[c].haveThread <=> s.ca[c].at \in Waiting
        /\ s.ca[c].at \in {"queued", "armed", "freed"} => c \in Messages
  BY <1>2 DEF Placed
<1>4. PassTheBuck(s, x) = IF others # {} THEN u
                          ELSE IF s.cl.wantClose THEN CloseLocked(d, x) ELSE d
  BY Zenon DEF PassTheBuck
<1>5. CASE others # {}
  <2>1. Min(others) \in others
    <3>1. others \in SUBSET Nat
      BY <1>1, SMTT(30)
    <3> HIDE DEF others
    <3> QED BY <1>5, <3>1, Least
  <2>2. h \in Calls /\ h \in Range(q) /\ s.ca[h].haveThread
    BY <1>1, <2>1, Zenon
  <2> HIDE DEF h
  <2>3. s.ca[h].at = "asleep" /\ s.ca[h].mode # "complete" /\ s.cl.haveTheBuck /\ s.cl.sock
    BY <1>3, <2>2 DEF Waiting, InLoop, Clean
  <2>4. /\ u \in States /\ u.cl = s.cl /\ u.wi = s.wi
        /\ u.ca[h].at = "woken"
        /\ \A c \in Calls : /\ c # h => u.ca[c].at = s.ca[c].at
                            /\ u.ca[c].mode = s.ca[c].mode
                            /\ u.ca[c].haveThread = s.ca[c].haveThread
                            /\ u.ca[c].ping = s.ca[c].ping
    <3> DEFINE k == [s.ca[h] EXCEPT !.at = "woken"]
    <3>1. s.ca[h] \in CallFields /\ s.ca \in [Calls -> CallFields]
      BY <2>2, Fields
    <3>2. /\ k \in CallFields /\ k.at = "woken" /\ k.mode = s.ca[h].mode
          /\ k.haveThread = s.ca[h].haveThread /\ k.ping = s.ca[h].ping
      BY <3>1 DEF CallFields, Places
    <3>3. u = [s EXCEPT !.ca = [s.ca EXCEPT ![h] = k]]
      BY <2>2, <3>1 DEF States
    <3> HIDE DEF k
    <3>4. /\ [s.ca EXCEPT ![h] = k] \in [Calls -> CallFields]
          /\ [s.ca EXCEPT ![h] = k][h] = k
          /\ \A c \in Calls : c # h => [s.ca EXCEPT ![h] = k][c] = s.ca[c]
      BY <2>2, <3>1, <3>2
    <3> HIDE DEF u
    <3>5. u \in States /\ u.cl = s.cl /\ u.wi = s.wi /\ u.ca = [s.ca EXCEPT ![h] = k]
      BY <3>3, <3>4 DEF States
    <3> QED BY <3>2, <3>4, <3>5, Zenon
  <2> HIDE DEF u
  <2>5. Placed(u, h)
    <3> SUFFICES ASSUME NEW c \in Calls
                 PROVE  /\ c \in Range(q) <=> u.ca[c].at \in {"queued", "asleep"} \/ c = h
                        /\ c = h <=> Buck(u.ca[c])
                        /\ u.ca[c].haveThread <=> u.ca[c].at \in Waiting
                        /\ u.ca[c].at \in {"queued", "armed", "freed"} => c \in Messages
      BY <2>4 DEF Placed
    <3>1. CASE c = h
      BY <1>3, <2>2, <2>3, <2>4, <3>1, SMTT(30) DEF Buck, Waiting, InLoop
    <3>2. CASE c # h
      BY <1>3, <2>4, <3>2 DEF Buck
    <3> QED BY <3>1, <3>2
  <2>6. Held(u, h)
    BY <2>2, <2>3, <2>4 DEF Held
  <2>7. Framed(u)
    <3>1. {c \in Calls : u.ca[c].mode = "tx"} = {c \in Calls : s.ca[c].mode = "tx"}
      BY <2>4
    <3> QED BY <2>4, <3>1, Zenon DEF Framed
  <2>8. Rest(u, sv)
    <3>1. \A c \in Calls : /\ u.ca[c].at = "idle" <=> s.ca[c].at = "idle"
                           /\ u.ca[c].at = "ok" <=> s.ca[c].at = "ok"
                           /\ u.ca[c].at = "failed" <=> s.ca[c].at = "failed"
      BY <2>3, <2>4
    <3>2. \A c \in ReplyCalls : u.ca[c].at = "ok" => u.ca[c].mode = "complete"
      BY <2>4, <3>1 DEF Rest, Answered, Calls
    <3>3. \A c \in Calls : u.ca[c].ping = s.ca[c].ping /\ u.ca[c].mode = s.ca[c].mode
      BY <2>4
    <3>4. u.wi = s.wi /\ u.cl = s.cl
      BY <2>4
    <3>5. SameRest(s, u)
      BY <3>1, <3>2, <3>3, <3>4 DEF SameRest, Calls
    <3> QED BY <2>4, <3>5, RestKept
  <2>9. Clean(u)
    BY <1>1, <2>4 DEF Clean
  <2>10. Goes(s, u)
    BY <2>3, <2>4 DEF Goes, Waiting, Calls
  <2>11. Inv(u, sv, h)
    BY <2>5, <2>6, <2>7, <2>8 DEF Inv
  <2>12. PassTheBuck(s, x) = u
    BY <1>4, <1>5, Zenon
  <2> QED BY <2>2, <2>4, <2>9, <2>10, <2>11, <2>12
<1>6. CASE others = {}
  <2>1. \A c \in Calls : s.ca[c].at # "asleep"
    <3> SUFFICES ASSUME NEW c \in Calls, s.ca[c].at = "asleep" PROVE FALSE
      OBVIOUS
    <3>1. c \in Range(q) /\ s.ca[c].haveThread /\ c # x
      BY <1>3 DEF Waiting
    <3>2. PICK i \in 1..Len(q) : q[i] = c
      BY <1>1, <3>1
    <3> QED BY <1>1, <1>6, <3>1, <3>2, Zenon
  <2>2. /\ d \in States /\ d.ca = s.ca /\ d.wi = s.wi /\ ~d.cl.haveTheBuck
        /\ d.cl.waitDispatch = q /\ d.cl.sock = s.cl.sock /\ d.cl.wantClose = s.cl.wantClose
        /\ d.cl.countToDeath = s.cl.countToDeath /\ d.cl.due = s.cl.due
        /\ d.cl.closeReason = s.cl.closeReason
    BY Zenon DEF States, ClientFields
  <2> HIDE DEF d
  <2>3. Placed(d, NoCall)
    BY <2>2 DEF Placed
  <2>4. Rest(d, sv)
    <3>1. SameRest(s, d)
      BY <2>2 DEF SameRest, Rest, Answered
    <3> QED BY <2>2, <3>1, RestKept
  <2>5. CASE s.cl.wantClose
    <3> DEFINE t == CloseLocked(d, x)
    <3>1. /\ t \in States /\ Inv(t, sv, NoCall) /\ Clean(t) /\ Goes(d, t)
          /\ t.cl.closeReason = d.cl.closeReason
      <4>1. x \in Range(d.cl.waitDispatch) => d.ca[x].mode # "complete"
        BY <2>2 DEF Clean
      <4>2. \A c \in Calls : d.ca[c].at # "asleep"
        BY <2>1, <2>2
      <4>3. Closed(d, t, sv)
        BY <2>2, <2>3, <2>4, <4>1, <4>2, CloseLockedInv, Zenon
      <4> HIDE DEF t
      <4> QED BY <4>3, Zenon DEF Closed
    <3>2. PassTheBuck(s, x) = t
      BY <1>4, <1>6, <2>5, Zenon
    <3> HIDE DEF t
    <3>3. Goes(s, t)
      BY <2>2, <3>1 DEF Goes
    <3> QED BY <2>2, <3>1, <3>2, <3>3
  <2>6. CASE ~s.cl.wantClose
    <3>1. Held(d, NoCall)
      BY <1>2, <2>1, <2>2, SMTT(30) DEF Held
    <3>2. Framed(d) /\ Clean(d) /\ Goes(s, d)
      BY <2>2 DEF Framed, Clean, Goes
    <3>3. PassTheBuck(s, x) = d
      BY <1>4, <1>6, <2>6, Zenon
    <3> QED BY <2>2, <2>3, <2>4, <3>1, <3>2, <3>3 DEF Inv
  <2> QED BY <2>5, <2>6
<1> QED BY <1>5, <1>6

(***************************************************************************)
(* Messages of the keep-alive.                                             *)
(***************************************************************************)

\* Only call h is changed.
OneCall(s, t, h, k) ==
  /\ t \in States /\ t.cl = s.cl /\ t.wi = s.wi /\ t.ca[h] = k
  /\ \A c \in Calls : c # h => t.ca[c] = s.ca[c]

\* A call is replaced.
LEMMA CallReplaced ==
  ASSUME NEW s \in States, NEW h \in Calls, NEW k \in CallFields
  PROVE  OneCall(s, [s EXCEPT !.ca[h] = k], h, k)
<1> DEFINE u == [s EXCEPT !.ca[h] = k]
           G == [s.ca EXCEPT ![h] = k]
<1>1. s.ca \in [Calls -> CallFields]
  BY Fields
<1>2. u = [s EXCEPT !.ca = G]
  BY <1>1 DEF States
<1>3. /\ G \in [Calls -> CallFields] /\ G[h] = k
      /\ \A c \in Calls : c # h => G[c] = s.ca[c]
  BY <1>1
<1> HIDE DEF u, G
<1>4. u \in States /\ u.cl = s.cl /\ u.wi = s.wi /\ u.ca = G
  BY <1>2, <1>3 DEF States
<1> QED BY <1>3, <1>4, Zenon DEF OneCall, u

\* There is a message to use.
LEMMA NewMessageOf ==
  ASSUME NEW s \in States, Unused(s) # {}
  PROVE  /\ NewMessage(s) \in Unused(s) /\ NewMessage(s) \in Messages
         /\ NewMessage(s) \in Calls /\ s.ca[NewMessage(s)].at = "idle"
<1>1. NewMessage(s) \in Unused(s)
  BY Zenon DEF NewMessage
<1> QED BY <1>1 DEF Unused, Calls

\* One message is used up.
LEMMA UsedUp ==
  ASSUME NEW s \in States, NEW t \in States, NEW m \in Unused(s), t.ca[m].at # "idle",
         \A c \in Calls : c # m => t.ca[c] = s.ca[c]
  PROVE  Cardinality(Unused(t)) = Cardinality(Unused(s)) - 1
<1>1. Unused(t) = Unused(s) \ {m}
  BY DEF Unused, Calls
<1>2. IsFiniteSet(Unused(s))
  BY Counts, Zenon
<1> QED BY <1>1, <1>2, FS_RemoveElement, Zenon

\* virKeepAliveTimerInternal makes a request: countToDeath goes down, and one more
\* request is not answered.
LEMMA RequestMade ==
  ASSUME NEW s \in States, NEW t \in States, NEW sv, Rest(s, sv),
         s.cl.due, s.cl.countToDeath > 0, NEW m \in Unused(s),
         t.wi = s.wi, t.cl.sock = s.cl.sock, ~t.cl.due,
         t.cl.countToDeath = s.cl.countToDeath - 1,
         t.ca[m].at # "idle", t.ca[m].ping,
         \A c \in Calls : c # m => t.ca[c] = s.ca[c]
  PROVE  Rest(t, sv)
<1>1. m \in Messages /\ s.ca[m].at = "idle" /\ m \in Calls /\ m \notin ReplyCalls
  BY DEF Unused, Calls
<1>2. Spared(t)
  <2>1. Cardinality(Unused(s)) >= Occurs("ping", s.wi.in) + 1
    BY DEF Rest, Spared
  <2>2. Cardinality(Unused(t)) = Cardinality(Unused(s)) - 1
    BY UsedUp
  <2>3. Cardinality(Unused(s)) \in Nat /\ Occurs("ping", s.wi.in) \in Nat
    BY Counts, Zenon
  <2>4. Cardinality(Unused(t)) >= Occurs("ping", s.wi.in) + 0
    BY <2>1, <2>2, <2>3
  <2> QED BY <2>4 DEF Spared
<1>3. ~s.ca[m].ping /\ sv \cap Messages \subseteq Made(s)
  BY <1>1 DEF Rest, Counted
<1>4. Made(t) = Made(s) \cup {m}
  BY <1>1 DEF Made, Calls
<1>5. m \notin Made(s) /\ m \notin sv
  BY <1>1, <1>3 DEF Made
<1>6. Counted(t, sv)
  <2>1. sv \cap Messages \subseteq Made(t)
    BY <1>3, <1>4
  <2>2. \A c \in Messages : t.ca[c].at = "idle" => ~t.ca[c].ping
    BY DEF Rest, Counted, Calls
  <2>3. ASSUME t.cl.sock
        PROVE  t.cl.countToDeath + Cardinality(Made(t) \ sv) + Occurs("pong", t.wi.in)
               >= KeepAliveCount
    <3>1. s.cl.countToDeath + Cardinality(Made(s) \ sv) + Occurs("pong", s.wi.in)
          >= KeepAliveCount
      BY <2>3 DEF Rest, Counted
    <3>2. Made(t) \ sv = (Made(s) \ sv) \cup {m} /\ m \notin Made(s) \ sv
      BY <1>4, <1>5
    <3>3. IsFiniteSet(Made(s) \ sv)
      BY Counts, Zenon
    <3>4. Cardinality(Made(t) \ sv) = Cardinality(Made(s) \ sv) + 1
      BY <3>2, <3>3, FS_AddElement, Zenon
    <3>5. /\ Cardinality(Made(s) \ sv) \in Nat /\ Occurs("pong", s.wi.in) \in Nat
          /\ s.cl.countToDeath \in Nat /\ KeepAliveCount \in Nat
      BY Counts, Fields, ZenonT(30)
    <3> QED BY <3>1, <3>4, <3>5
  <2> QED BY <2>1, <2>2, <2>3 DEF Counted
<1>7. Answered(t, sv)
  <2>1. \A c \in ReplyCalls : t.ca[c] = s.ca[c]
    BY <1>1, SMTT(30) DEF Calls
  <2> QED BY <2>1 DEF Answered, Rest
<1> QED BY <1>2, <1>6, <1>7 DEF Rest

\* virNetClientQueueNonBlocking puts a new message, without a thread, into the list.
LEMMA QueueNonBlockingInv ==
  ASSUME NEW s \in States, NEW o, NEW m \in Messages, s.ca[m].at = "idle",
         Placed(s, o), Held(s, o), Framed(s)
  PROVE  LET t == QueueNonBlocking(s, m)
         IN /\ t \in States /\ Placed(t, o) /\ Held(t, o) /\ Framed(t)
            /\ t.wi = s.wi /\ t.cl.sock = s.cl.sock /\ t.cl.wantClose = s.cl.wantClose
            /\ t.cl.closeReason = s.cl.closeReason /\ t.cl.due = s.cl.due
            /\ t.cl.countToDeath = s.cl.countToDeath
            /\ t.ca[m].at = "queued" /\ t.ca[m].ping = s.ca[m].ping
            /\ \A c \in Calls : c # m => t.ca[c] = s.ca[c]
<1> DEFINE q == s.cl.waitDispatch
           Q == CallQueue(q, m)
           u == [s EXCEPT !.cl.waitDispatch = Q]
           k == [s.ca[m] EXCEPT !.mode = "tx", !.at = "queued"]
           t == [u EXCEPT !.ca[m] = k]
<1>1. m \in Calls /\ s.ca[m] \in CallFields /\ q \in Seq(Calls)
  BY Fields DEF Calls
<1>2. \A c \in Range(q) : c \in Calls
  BY <1>1, RangeOf
<1>3. \A c \in Calls :
        /\ c \in Range(q) <=> s.ca[c].at \in {"queued", "asleep"} \/ c = o
        /\ c = o <=> Buck(s.ca[c])
        /\ s.ca[c].haveThread <=> s.ca[c].at \in Waiting
        /\ s.ca[c].at \in {"queued", "armed", "freed"} => c \in Messages
  BY DEF Placed
<1>4. m \notin Range(q) /\ m # o /\ ~s.ca[m].haveThread
  BY <1>1, <1>3, SMTT(30) DEF Buck, InLoop, Waiting
<1>5. /\ Q \in Seq(Calls)
      /\ \A x : x \in Range(Q) <=> x \in Range(q) \/ x = m
      /\ Unique(q) => Unique(Q)
      /\ \A T, h : First(q, T, h) => First(Q, T, h)
  BY <1>1, <1>4, QueuedCall
<1> HIDE DEF Q
<1>6. /\ u \in States /\ u.ca = s.ca /\ u.wi = s.wi /\ u.cl.waitDispatch = Q
      /\ u.cl.sock = s.cl.sock /\ u.cl.wantClose = s.cl.wantClose
      /\ u.cl.closeReason = s.cl.closeReason /\ u.cl.due = s.cl.due
      /\ u.cl.countToDeath = s.cl.countToDeath /\ u.cl.haveTheBuck = s.cl.haveTheBuck
  <2>1. Q \in Seq(Calls)
    BY <1>5
  <2> QED BY <2>1, Zenon DEF States, ClientFields
<1>7. /\ k \in CallFields /\ k.at = "queued" /\ k.mode = "tx"
      /\ k.haveThread = s.ca[m].haveThread /\ k.ping = s.ca[m].ping
  BY <1>1, Zenon DEF CallFields, Places
<1>8. QueueNonBlocking(s, m) = t
  BY <1>1, ZenonT(30) DEF QueueNonBlocking, States, Q
<1> HIDE DEF u, k
<1>9. OneCall(u, t, m, k)
  BY <1>1, <1>6, <1>7, CallReplaced
<1> HIDE DEF t
<1>10. /\ t \in States /\ t.wi = s.wi /\ t.cl = u.cl /\ t.ca[m] = k
       /\ \A c \in Calls : c # m => t.ca[c] = s.ca[c]
  BY <1>6, <1>9 DEF OneCall
<1>11. Placed(t, o)
  <2>1. Unique(Q) /\ t.cl.waitDispatch = Q
    BY <1>5, <1>6, <1>10 DEF Placed
  <2> SUFFICES ASSUME NEW c \in Calls
               PROVE  /\ c \in Range(Q) <=> t.ca[c].at \in {"queued", "asleep"} \/ c = o
                      /\ c = o <=> Buck(t.ca[c])
                      /\ t.ca[c].haveThread <=> t.ca[c].at \in Waiting
                      /\ t.ca[c].at \in {"queued", "armed", "freed"} => c \in Messages
    BY <2>1, SMTT(30) DEF Placed
  <2>2. CASE c = m
    BY <1>4, <1>5, <1>7, <1>10, <2>2, SMTT(30) DEF Buck, Waiting, InLoop
  <2>3. CASE c # m
    BY <1>3, <1>5, <1>10, <2>3
  <2> QED BY <2>2, <2>3, SMTT(30)
<1>12. Held(t, o)
  <2>1. \A c \in Calls : t.ca[c].at = "asleep" => s.ca[c].at = "asleep"
    BY <1>7, <1>10
  <2> QED BY <1>6, <1>10, <2>1 DEF Held
<1>13. Framed(t)
  <2> DEFINE T == {c \in Calls : s.ca[c].mode = "tx"}
             U == {c \in Calls : t.ca[c].mode = "tx"}
             h == s.wi.half
  <2> SUFFICES ASSUME s.cl.sock, ~s.cl.wantClose
               PROVE  ~s.wi.garbled /\ (h # NoCall => First(Q, U, h))
    BY <1>6, <1>10 DEF Framed
  <2>1. ~s.wi.garbled /\ (h # NoCall => First(q, T, h))
    BY DEF Framed
  <2>2. \A c \in Range(q) : c \in T <=> c \in U
    BY <1>2, <1>4, <1>10
  <2> HIDE DEF T, U
  <2> QED BY <1>1, <1>5, <2>1, <2>2, FirstSame, SMTT(30)
<1> QED BY <1>6, <1>7, <1>8, <1>10, <1>11, <1>12, <1>13, SMTT(30)

\* What the keep-alive and the I/O do to the client and the calls: only new messages
\* change their place.
Along(s, t) ==
  /\ t.cl.sock = s.cl.sock
  /\ s.cl.wantClose => t.cl.wantClose
  /\ \A c \in Calls : t.ca[c].at = s.ca[c].at \/ (c \in Messages /\ s.ca[c].at = "idle")

\* Along is transitive, and what SameView allows is part of it.
LEMMA AlongFacts ==
  ASSUME NEW s, NEW t, NEW u
  PROVE  /\ SameView(s, t) => Along(s, t)
         /\ Along(s, t) /\ Along(t, u) => Along(s, u)
         /\ Along(s, t) => Goes(s, t)
<1>1. SameView(s, t) => Along(s, t)
  BY DEF SameView, Along
<1>2. Along(s, t) /\ Along(t, u) => Along(s, u)
  BY DEF Along
<1>3. Along(s, t) => Goes(s, t)
  BY DEF Along, Goes, Calls
<1> QED BY <1>1, <1>2, <1>3

\* virKeepAliveTrigger makes a request or, when countToDeath is zero, marks the client.
LEMMA KeepAliveTriggerInv ==
  ASSUME NEW s \in States, NEW sv, NEW o, Inv(s, sv, o)
  PROVE  LET t == KeepAliveTrigger(s)
         IN /\ t \in States /\ Inv(t, sv, o) /\ Along(s, t)
            /\ \/ t.cl.closeReason = s.cl.closeReason
               \/ s.cl.due /\ s.cl.countToDeath = 0 /\ t.cl.closeReason = "keepalive"
<1>1. CASE ~s.cl.due
  <2>1. KeepAliveTrigger(s) = s
    BY <1>1, Zenon DEF KeepAliveTrigger
  <2> QED BY <2>1 DEF Along
<1>2. CASE s.cl.due /\ s.cl.countToDeath = 0
  <2> DEFINE t == MarkClose(s, "keepalive")
  <2>1. KeepAliveTrigger(s) = t
    BY <1>2, Zenon DEF KeepAliveTrigger
  <2>2. t \in States /\ SameView(s, t) /\ t.cl.closeReason \in {s.cl.closeReason, "keepalive"}
    <3>1. "keepalive" \in CloseReasons
      BY DEF CloseReasons
    <3> QED BY <3>1, MarkCloseView, Zenon
  <2> HIDE DEF t
  <2>3. Inv(t, sv, o)
    BY <2>2, ViewInv, SMTT(30)
  <2> QED BY <1>2, <2>1, <2>2, <2>3, AlongFacts
<1>3. CASE s.cl.due /\ s.cl.countToDeath # 0
  <2> DEFINE m == NewMessage(s)
             v == [s EXCEPT !.cl.due = FALSE, !.cl.countToDeath = @ - 1]
             k == [s.ca[m] EXCEPT !.ping = TRUE]
             w == [v EXCEPT !.ca[m] = k]
             t == QueueNonBlocking(w, m)
  <2>1. s.cl.countToDeath \in Nat /\ s.cl.countToDeath > 0
    BY <1>3, Fields
  <2>2. Unused(s) # {}
    <3>1. Cardinality(Unused(s)) >= Occurs("ping", s.wi.in) + 1
      BY <1>3, <2>1 DEF Inv, Rest, Spared
    <3>2. Occurs("ping", s.wi.in) \in Nat
      BY Counts, Zenon
    <3>3. Cardinality(Unused(s)) # 0
      BY <3>1, <3>2
    <3> QED BY <3>3, FS_EmptySet, SMTT(30)
  <2>3. m \in Unused(s) /\ m \in Messages /\ m \in Calls /\ s.ca[m].at = "idle"
    BY <2>2, NewMessageOf
  <2>4. KeepAliveTrigger(s) = t
    <3>1. w = [s EXCEPT !.cl.due = FALSE, !.cl.countToDeath = @ - 1, !.ca[m].ping = TRUE]
      <4> HIDE DEF m
      <4> QED BY <2>3, Fields DEF States
    <3> HIDE DEF w
    <3> QED BY <1>3, <3>1, Zenon DEF KeepAliveTrigger
  <2> HIDE DEF m
  <2>5. /\ v \in States /\ v.ca = s.ca /\ v.wi = s.wi /\ ~v.cl.due
        /\ v.cl.countToDeath = s.cl.countToDeath - 1
        /\ v.cl.waitDispatch = s.cl.waitDispatch /\ v.cl.closeReason = s.cl.closeReason
        /\ v.cl.sock = s.cl.sock /\ v.cl.wantClose = s.cl.wantClose
        /\ v.cl.haveTheBuck = s.cl.haveTheBuck
    <3>1. s.cl.countToDeath - 1 \in Nat
      BY <2>1
    <3> QED BY <3>1, Zenon DEF States, ClientFields
  <2>6. /\ k \in CallFields /\ k.at = s.ca[m].at /\ k.mode = s.ca[m].mode
        /\ k.haveThread = s.ca[m].haveThread /\ k.ping
    <3>1. s.ca[m] \in CallFields
      BY <2>3, Fields
    <3> QED BY <3>1, Zenon DEF CallFields
  <2> HIDE DEF v, k
  <2>7. OneCall(v, w, m, k)
    BY <2>3, <2>5, <2>6, CallReplaced
  <2> HIDE DEF w
  <2>8. /\ w \in States /\ w.wi = s.wi /\ w.cl = v.cl /\ w.ca[m] = k
        /\ \A c \in Calls : c # m => w.ca[c] = s.ca[c]
    BY <2>5, <2>7 DEF OneCall
  <2>9. \A c \in Calls : /\ w.ca[c].at = s.ca[c].at /\ w.ca[c].mode = s.ca[c].mode
                         /\ w.ca[c].haveThread = s.ca[c].haveThread
    BY <2>6, <2>8
  <2>10. Placed(w, o) /\ Held(w, o) /\ Framed(w)
    <3>1. Placed(w, o)
      <4>1. Placed(s, o) /\ w.cl.waitDispatch = s.cl.waitDispatch
        BY <2>5, <2>8 DEF Inv
      <4>2. \A c \in Calls : Buck(w.ca[c]) <=> Buck(s.ca[c])
        BY <2>9 DEF Buck
      <4> QED BY <2>9, <4>1, <4>2 DEF Placed
    <3>2. Held(w, o)
      BY <2>5, <2>8, <2>9 DEF Held, Inv
    <3>3. {c \in Calls : w.ca[c].mode = "tx"} = {c \in Calls : s.ca[c].mode = "tx"}
      BY <2>9, SMTT(30)
    <3>4. Framed(w)
      BY <2>5, <2>8, <3>3, Zenon DEF Framed, Inv
    <3> QED BY <3>1, <3>2, <3>4, SMTT(30)
  <2>11. w.ca[m].at = "idle" /\ w.ca[m].ping
    BY <2>3, <2>6, <2>8
  <2>12. /\ t \in States /\ Placed(t, o) /\ Held(t, o) /\ Framed(t)
         /\ t.wi = w.wi /\ t.cl.sock = w.cl.sock /\ t.cl.wantClose = w.cl.wantClose
         /\ t.cl.closeReason = w.cl.closeReason /\ t.cl.due = w.cl.due
         /\ t.cl.countToDeath = w.cl.countToDeath
         /\ t.ca[m].at = "queued" /\ t.ca[m].ping = w.ca[m].ping
         /\ \A c \in Calls : c # m => t.ca[c] = w.ca[c]
    <3>1. w \in States /\ m \in Messages
      BY <2>3, <2>8, SMTT(30)
    <3> QED BY <2>10, <2>11, <3>1, QueueNonBlockingInv, Zenon
  <2> HIDE DEF t
  <2>13. /\ t.wi = s.wi /\ t.cl.sock = s.cl.sock /\ ~t.cl.due
         /\ t.cl.countToDeath = s.cl.countToDeath - 1
         /\ t.ca[m].at # "idle" /\ t.ca[m].ping
         /\ \A c \in Calls : c # m => t.ca[c] = s.ca[c]
    BY <2>5, <2>8, <2>11, <2>12
  <2>14. Rest(t, sv)
    <3>1. Rest(s, sv) /\ t \in States
      BY <2>12, SMTT(30) DEF Inv
    <3> QED BY <1>3, <2>1, <2>3, <2>13, <3>1, RequestMade, ZenonT(30)
  <2>15. Along(s, t)
    BY <2>3, <2>5, <2>8, <2>12, <2>13 DEF Along
  <2> QED BY <2>4, <2>5, <2>8, <2>12, <2>14, <2>15, SMTT(30) DEF Inv
<1> QED BY <1>1, <1>2, <1>3

(***************************************************************************)
(* Output.                                                                 *)
(***************************************************************************)

\* A state after the messages of calls have been written in full: nothing but their
\* mode changes.
WrittenOk(s, t, calls, sv, o) ==
  /\ t \in States /\ Inv(t, sv, o) /\ t.cl = s.cl
  /\ calls = {} => t.wi.half = s.wi.half
  /\ calls # {} => t.wi.half = NoCall
  /\ \A c \in Calls : t.ca[c].at = s.ca[c].at
  /\ \A c \in Calls \ calls : t.ca[c].mode = s.ca[c].mode
  /\ \A c \in calls : t.ca[c].mode # "tx"

\* virNetClientIOWriteMessage: see WrittenOk.
LEMMA WrittenInv ==
  ASSUME NEW s \in States, NEW sv, NEW o, Inv(s, sv, o),
         o \in Calls => s.ca[o].at \in InLoop,
         NEW calls \in SUBSET Range(s.cl.waitDispatch), NEW first,
         s.cl.sock /\ ~s.cl.wantClose => s.wi.half \in {NoCall, first}
  PROVE  WrittenOk(s, Written(s, calls, first), calls, sv, o)
<1>1. CASE calls = {}
  <2>1. Written(s, calls, first) = s
    BY <1>1, Zenon DEF Written
  <2> QED BY <1>1, <2>1 DEF WrittenOk
<1>2. CASE calls # {}
  <2> DEFINE q == s.cl.waitDispatch
             broken == s.wi.garbled \/ s.wi.half \notin {NoCall, first}
             mode(c) == IF c \in ReplyCalls THEN "rx" ELSE "complete"
             F == [c \in Calls |-> IF c \in calls THEN [s.ca[c] EXCEPT !.mode = mode(c)] ELSE s.ca[c]]
             X == IF broken THEN s.wi.sent ELSE s.wi.sent \cup calls
             t == [s EXCEPT !.ca = F, !.wi.half = NoCall, !.wi.garbled = broken, !.wi.sent = X]
  <2>1. Written(s, calls, first) = t
    BY <1>2, Zenon DEF Written
  <2>2. q \in Seq(Calls) /\ \A c \in Range(q) : c \in Calls
    BY Fields, RangeOf
  <2>3. /\ broken \in BOOLEAN /\ X \in SUBSET Calls
        /\ X \subseteq s.wi.sent \cup calls /\ s.wi.sent \subseteq X
    <3>1. s.wi.sent \in SUBSET Calls
      BY Fields
    <3> HIDE DEF broken
    <3>2. X \in SUBSET Calls /\ X \subseteq s.wi.sent \cup calls /\ s.wi.sent \subseteq X
      BY <2>2, <3>1
    <3> QED BY <3>2, Zenon DEF broken
  <2>4. s.cl.sock /\ ~s.cl.wantClose => ~broken
    BY DEF Inv, Framed
  <2>5. \A c \in Calls :
          /\ F[c] \in CallFields
          /\ F[c].at = s.ca[c].at /\ F[c].haveThread = s.ca[c].haveThread
          /\ F[c].ping = s.ca[c].ping
          /\ F[c].mode = IF c \in calls THEN mode(c) ELSE s.ca[c].mode
    BY DEF States, CallFields
  <2>6. F \in [Calls -> CallFields]
    BY <2>5, Zenon
  <2> HIDE DEF broken, X, F
  <2>7. /\ t \in States /\ t.cl = s.cl /\ t.ca = F
        /\ t.wi.in = s.wi.in /\ t.wi.half = NoCall /\ t.wi.garbled = broken /\ t.wi.sent = X
    BY <2>3, <2>6, ZenonT(30) DEF States, WireFields
  <2> HIDE DEF t
  <2>8. \A c \in Calls :
          /\ t.ca[c].at = s.ca[c].at /\ t.ca[c].haveThread = s.ca[c].haveThread
          /\ t.ca[c].ping = s.ca[c].ping
          /\ t.ca[c].mode = IF c \in calls THEN mode(c) ELSE s.ca[c].mode
    BY <2>5, <2>7, SMTT(30)
  <2>9. \A c \in Calls :
          /\ c \in Range(q) <=> s.ca[c].at \in {"queued", "asleep"} \/ c = o
          /\ c = o <=> Buck(s.ca[c])
          /\ s.ca[c].haveThread <=> s.ca[c].at \in Waiting
          /\ s.ca[c].at \in {"queued", "armed", "freed"} => c \in Messages
    BY DEF Inv, Placed
  <2>10. Placed(t, o)
    <3>1. ASSUME NEW c \in Calls PROVE Buck(t.ca[c]) <=> Buck(s.ca[c])
      <4>1. CASE c \in calls
        <5>1. s.ca[c].at \in {"queued", "asleep"} \cup InLoop
          BY <2>9, <4>1
        <5> QED BY <2>8, <5>1 DEF Buck, InLoop
      <4>2. CASE c \notin calls
        BY <2>8, <4>2, SMTT(30) DEF Buck
      <4> QED BY <4>1, <4>2
    <3> QED BY <2>7, <2>8, <2>9, <3>1, ZenonT(30) DEF Inv, Placed
  <2>11. Held(t, o)
    BY <2>7, <2>8, SMTT(30) DEF Inv, Held
  <2>12. Framed(t)
    BY <2>4, <2>7 DEF Framed
  <2>13. \A c \in calls : c \in Calls /\ s.ca[c].at # "idle"
    BY <2>2, <2>9 DEF InLoop
  <2>14. Rest(t, sv)
    <3>1. \A c \in ReplyCalls :
            /\ c \in s.wi.sent => c \in t.wi.sent
            /\ c \in t.wi.sent =>
                 c \in s.wi.sent \/ (t.ca[c].at # "idle" /\ t.ca[c].mode # "tx")
            /\ t.ca[c].mode = "tx" => s.ca[c].mode = "tx"
      BY <2>3, <2>7, <2>8, <2>13 DEF Calls
    <3>2. \A c \in ReplyCalls :
            t.ca[c].mode = "complete" <=> c \notin calls /\ s.ca[c].mode = "complete"
      BY <2>8 DEF Calls
    <3>3. \A c \in calls : s.ca[c].at # "ok"
      BY <2>9, <2>13, SMTT(30) DEF InLoop
    <3>4. SameRest(s, t)
      BY <2>7, <2>8, <3>1, <3>2, <3>3, ZenonT(30) DEF SameRest, Inv, Rest, Answered, Calls
    <3> QED BY <2>7, <3>4, RestKept, SMTT(30) DEF Inv
  <2>15. \A c \in calls : t.ca[c].mode # "tx"
    BY <2>8, <2>13
  <2>16. Inv(t, sv, o)
    BY <2>10, <2>11, <2>12, <2>14, SMTT(30) DEF Inv
  <2> QED BY <1>2, <2>1, <2>7, <2>8, <2>15, <2>16 DEF WrittenOk
<1> QED BY <1>1, <1>2

\* A state after a write has stopped.
BlockedOk(s, t, sv, o) == t \in States /\ Inv(t, sv, o) /\ t.cl = s.cl /\ t.ca = s.ca

\* A write stops in the message of c, which is the first that is still to be written,
\* or before it.
LEMMA BlockedInv ==
  ASSUME NEW s \in States, NEW sv, NEW o, Inv(s, sv, o), NEW c \in Calls,
         NEW part \in BOOLEAN,
         s.cl.sock /\ ~s.cl.wantClose /\ part =>
           /\ s.wi.half \in {NoCall, c}
           /\ First(s.cl.waitDispatch, {x \in Calls : s.ca[x].mode = "tx"}, c)
  PROVE  BlockedOk(s, Blocked(s, c, part), sv, o)
<1> DEFINE g == s.wi.garbled \/ (part /\ s.wi.half \notin {NoCall, c})
           h == IF part THEN c ELSE s.wi.half
           t == [s EXCEPT !.wi.full = TRUE, !.wi.garbled = g, !.wi.half = h]
<1>1. Blocked(s, c, part) = t
  BY DEF Blocked, States, WireFields
<1>2. g \in BOOLEAN
  BY Zenon
<1>3. h \in Calls \cup {NoCall}
  BY Fields
<1>4. s.cl.sock /\ ~s.cl.wantClose =>
        /\ ~g
        /\ h # NoCall => First(s.cl.waitDispatch, {x \in Calls : s.ca[x].mode = "tx"}, h)
  BY DEF Inv, Framed
<1> HIDE DEF g, h
<1>5. /\ t \in States /\ t.cl = s.cl /\ t.ca = s.ca /\ t.wi.in = s.wi.in
      /\ t.wi.sent = s.wi.sent /\ t.wi.garbled = g /\ t.wi.half = h
  BY <1>2, <1>3, Zenon DEF States, WireFields
<1> HIDE DEF t
<1>6. Placed(t, o) /\ Held(t, o)
  BY <1>5, Zenon DEF Inv, Placed, Held
<1>7. Framed(t)
  BY <1>4, <1>5, SMTT(30) DEF Framed
<1>8. Rest(t, sv)
  <2>1. SameRest(s, t)
    BY <1>5 DEF SameRest, Inv, Rest, Answered
  <2> QED BY <1>5, <2>1, RestKept, SMTT(30) DEF Inv
<1> QED BY <1>1, <1>5, <1>6, <1>7, <1>8 DEF Inv, BlockedOk

\* A state that the I/O made of s.
Handled(s, t, sv, o) ==
  /\ t \in States /\ Inv(t, sv, o) /\ Along(s, t)
  /\ t.cl.closeReason = s.cl.closeReason

\* virNetClientIOHandleOutput writes the calls in the order of the list.
LEMMA HandleOutputInv ==
  ASSUME NEW s \in States, NEW sv, NEW o, Inv(s, sv, o),
         o \in Calls => s.ca[o].at \in InLoop,
         NEW out \in HandleOutput(s)
  PROVE  Handled(s, out.s, sv, o) /\ out.ok \in BOOLEAN
<1> DEFINE q == s.cl.waitDispatch
           tx == {i \in DOMAIN q : s.ca[q[i]].mode = "tx"}
           calls(n) == {q[i] : i \in {j \in tx : j < n}}
           first == q[Min(tx)]
           Before(n) == Written(s, calls(n), first)
           Places2 == {y \in [at : tx, part : BOOLEAN] :
                         y.at = Min(tx) => y.part /\ s.wi.half # q[y.at]}
           T == {c \in Calls : s.ca[c].mode = "tx"}
<1>1. /\ q \in Seq(Calls) /\ Len(q) \in Nat /\ DOMAIN q = 1..Len(q)
      /\ \A i \in 1..Len(q) : q[i] \in Calls /\ q[i] \in Range(q)
  BY Fields, RangeOf
<1>2. CASE tx = {} \/ (s.wi.full /\ ~s.wi.hup)
  <2>1. HandleOutput(s) = {[s |-> s, ok |-> TRUE]}
    BY <1>2, Zenon DEF HandleOutput
  <2>2. out.s = s /\ out.ok = TRUE
    BY <2>1
  <2> QED BY <2>2, Zenon DEF Handled, Along
<1>3. CASE s.wi.hup /\ tx # {}
  <2>1. HandleOutput(s) = {[s |-> s, ok |-> FALSE]}
    BY <1>3, Zenon DEF HandleOutput
  <2>2. out.s = s /\ out.ok = FALSE
    BY <2>1
  <2> QED BY <2>2, Zenon DEF Handled, Along
<1>4. CASE ~(tx = {} \/ (s.wi.full /\ ~s.wi.hup)) /\ ~(s.wi.hup /\ tx # {})
  <2>1. HandleOutput(s) =
          {[s |-> Before(Len(q) + 1), ok |-> TRUE]}
          \cup {[s |-> Blocked(Before(x.at), q[x.at], x.part), ok |-> TRUE] : x \in Places2}
    BY <1>4, Zenon DEF HandleOutput
  <2>2. tx \in SUBSET Nat /\ tx # {} /\ \A i \in tx : i \in 1..Len(q) /\ q[i] \in T
    <3>1. tx # {}
      BY <1>4
    <3>2. \A i \in tx : i \in 1..Len(q) /\ q[i] \in T
      BY <1>1
    <3>3. 1..Len(q) \subseteq Nat
      BY <1>1
    <3> HIDE DEF tx, T
    <3> QED BY <3>1, <3>2, <3>3, SMTT(30)
  <2>4. \A i \in 1..Len(q) : q[i] \in T => i \in tx
    BY <1>1, SMTT(30)
  <2>5. ASSUME NEW n
        PROVE  /\ calls(n) \in SUBSET Range(q)
               /\ \A i \in tx : i < n => q[i] \in calls(n)
               /\ \A c \in calls(n) : \E i \in tx : i < n /\ q[i] = c
    <3>1. calls(n) \in SUBSET Range(q)
      BY <1>1, <2>2
    <3> HIDE DEF tx
    <3>2. \A i \in tx : i < n => q[i] \in calls(n)
      BY Zenon
    <3>3. \A c \in calls(n) : \E i \in tx : i < n /\ q[i] = c
      BY Zenon
    <3> QED BY <3>1, <3>2, <3>3, Zenon
  <2> HIDE DEF tx, calls
  <2>3. Min(tx) \in tx /\ \A i \in tx : Min(tx) <= i
    BY <2>2, Least
  <2>6. s.cl.sock /\ ~s.cl.wantClose => s.wi.half \in {NoCall, first}
    <3> SUFFICES ASSUME s.cl.sock, ~s.cl.wantClose, s.wi.half # NoCall
                 PROVE  s.wi.half = first
      OBVIOUS
    <3>1. First(q, T, s.wi.half)
      BY DEF Inv, Framed
    <3> HIDE DEF T
    <3>2. PICK i \in 1..Len(q) : q[i] = s.wi.half /\ s.wi.half \in T /\ \A j \in 1..i-1 : q[j] \notin T
      BY <3>1 DEF First
    <3>3. i \in tx /\ Min(tx) <= i
      BY <2>3, <2>4, <3>2
    <3>4. Min(tx) \in 1..Len(q) /\ q[Min(tx)] \in T
      BY <2>2, <2>3, ZenonT(30)
    <3>5. ~(Min(tx) \in 1..i-1)
      BY <3>2, <3>4
    <3>6. Min(tx) = i
      BY <1>1, <3>3, <3>4, <3>5, SMTT(30)
    <3> QED BY <3>2, <3>6
  <2> HIDE DEF first, Before
  <2>7. ASSUME NEW n PROVE WrittenOk(s, Before(n), calls(n), sv, o)
    <3>1. calls(n) \in SUBSET Range(s.cl.waitDispatch)
      BY <2>5
    <3> QED BY <2>6, <3>1, WrittenInv DEF Before
  <2>8. ASSUME NEW n \in tx, NEW part \in BOOLEAN
        PROVE  BlockedOk(Before(n), Blocked(Before(n), q[n], part), sv, o)
    <3> DEFINE b == Before(n)
               U == {c \in Calls : b.ca[c].mode = "tx"}
    <3>1. n \in 1..Len(q) /\ n \in Nat /\ q[n] \in Calls /\ q[n] \in T
      BY <1>1, <2>2, SMTT(30)
    <3>2. /\ b \in States /\ Inv(b, sv, o) /\ b.cl = s.cl
          /\ calls(n) = {} => b.wi.half = s.wi.half
          /\ calls(n) # {} => b.wi.half = NoCall
          /\ \A c \in Calls \ calls(n) : b.ca[c].mode = s.ca[c].mode
          /\ \A c \in calls(n) : b.ca[c].mode # "tx"
      BY <2>7 DEF WrittenOk
    <3> HIDE DEF b
    <3>3. q[n] \notin calls(n)
      <4> SUFFICES ASSUME NEW i \in tx, i < n, q[i] = q[n] PROVE FALSE
        BY <2>5
      <4>1. i \in 1..Len(q)
        BY <2>2
      <4>2. Unique(q)
        BY DEF Inv, Placed
      <4>3. i = n
        BY <3>1, <4>1, <4>2, SMTT(30) DEF Unique
      <4> QED BY <3>1, <4>3
    <3>4. First(q, U, q[n])
      <4>1. q[n] \in U
        BY <3>1, <3>2, <3>3, SMTT(30)
      <4>2. ASSUME NEW j \in 1..n-1 PROVE q[j] \notin U
        <5>1. j \in 1..Len(q) /\ j < n
          BY <1>1, <3>1
        <5>2. CASE q[j] \in T
          <6>1. q[j] \in calls(n)
            BY <2>4, <2>5, <5>1, <5>2, SMTT(30)
          <6> QED BY <3>2, <6>1
        <5>3. CASE q[j] \notin T
          <6>1. q[j] \in Calls /\ s.ca[q[j]].mode # "tx"
            BY <1>1, <5>1, <5>3
          <6> QED BY <3>2, <6>1, SMTT(30)
        <5> QED BY <5>2, <5>3
      <4> QED BY <3>1, <4>1, <4>2, SMTT(30) DEF First
    <3>5. ASSUME s.cl.sock, ~s.cl.wantClose PROVE b.wi.half \in {NoCall, q[n]}
      <4>1. CASE calls(n) # {}
        BY <3>2, <4>1
      <4>2. CASE calls(n) = {}
        <5>1. ~(Min(tx) < n)
          BY <2>3, <2>5, <4>2
        <5>2. Min(tx) \in Nat /\ Min(tx) <= n
          BY <2>2, <2>3
        <5>3. Min(tx) = n
          BY <3>1, <5>1, <5>2, SMTT(30)
        <5> QED BY <2>6, <3>2, <3>5, <4>2, <5>3, SMTT(30) DEF first
      <4> QED BY <4>1, <4>2
    <3>6. b.cl.sock /\ ~b.cl.wantClose /\ part =>
            b.wi.half \in {NoCall, q[n]} /\ First(b.cl.waitDispatch, U, q[n])
      BY <3>2, <3>4, <3>5, SMTT(30)
    <3>7. BlockedOk(b, Blocked(b, q[n], part), sv, o)
      BY <3>1, <3>2, <3>6, BlockedInv, ZenonT(30)
    <3> QED BY <3>7 DEF b
  <2>9. CASE out = [s |-> Before(Len(q) + 1), ok |-> TRUE]
    <3> DEFINE t == Before(Len(q) + 1)
    <3>1. out.s = t /\ out.ok = TRUE
      BY <2>9
    <3>2. t \in States /\ Inv(t, sv, o) /\ t.cl = s.cl /\ \A c \in Calls : t.ca[c].at = s.ca[c].at
      BY <2>7 DEF WrittenOk
    <3> HIDE DEF t
    <3> QED BY <3>1, <3>2, Zenon DEF Handled, Along
  <2>10. ASSUME NEW x \in Places2, out = [s |-> Blocked(Before(x.at), q[x.at], x.part), ok |-> TRUE]
         PROVE  Handled(s, out.s, sv, o) /\ out.ok \in BOOLEAN
    <3> DEFINE b == Before(x.at)
               t == Blocked(b, q[x.at], x.part)
    <3>1. out.s = t /\ out.ok = TRUE
      BY <2>10
    <3>2. x.at \in tx /\ x.part \in BOOLEAN
      OBVIOUS
    <3>3. BlockedOk(b, t, sv, o)
      BY <2>8, <3>2
    <3>4. b.cl = s.cl /\ \A c \in Calls : b.ca[c].at = s.ca[c].at
      BY <2>7 DEF WrittenOk
    <3> HIDE DEF t, b
    <3> QED BY <3>1, <3>3, <3>4, ZenonT(30) DEF Handled, Along, BlockedOk
  <2> HIDE DEF Places2
  <2> QED BY <2>1, <2>9, <2>10
<1> QED BY <1>2, <1>3, <1>4
=============================================================================
