---------------------------- MODULE RecursionFacts ----------------------------
(***************************************************************************)
(* What recursive definitions compute, for any operator: a fold through a  *)
(* sequence (FoldLeft), and a climb from a node of a tree to an end.       *)
(* Each is first shown to exist, and to be the only function of its kind.  *)
(***************************************************************************)
EXTENDS Naturals, Sequences, SequencesExt, FiniteSetTheorems, WellFoundedInduction, TLAPS

CONSTANT Op(_, _)

Fold(base, s) == FoldLeft(Op, base, s)

\* The function of the definition, over the sets of indices in `all`.
Iterates(f, all, base, s) ==
    f = [d \in SUBSET all |->
           IF d = {} THEN base ELSE Op(f[d \ {Max(d)}], s[Max(d)])]

\* v[k] is the fold of the first k elements.
Steps(v, base, s) ==
    /\ v = [k \in 0..Len(s) |-> v[k]]
    /\ v[0] = base
    /\ \A k \in 1..Len(s) : v[k] = Op(v[k-1], s[k])

LEMMA LeastSubset ==
    ASSUME NEW n \in Nat, NEW Ds \in SUBSET SUBSET (1..n), Ds # {}
    PROVE  \E m \in Ds : \A d \in Ds : d \subseteq m => d = m
<1>1. IsFiniteSet(1..n)
  BY FS_Interval
<1>2. FiniteSubsetsOf(1..n) = SUBSET (1..n)
  BY <1>1, FS_FiniteSubsetsOfFinite
<1>3. IsWellFoundedOn(StrictSubsetOrdering(1..n), FiniteSubsetsOf(1..n))
  BY FS_StrictSubsetOrderingWellFounded
<1>4. \E m \in Ds : \A d \in Ds : ~ (<<d, m>> \in StrictSubsetOrdering(1..n))
  BY <1>2, <1>3, WFMin
<1>. QED
  BY <1>4 DEF StrictSubsetOrdering

\* A property of numbers that holds somewhere holds somewhere for the first time.
LEMMA Least ==
    ASSUME NEW K \in SUBSET Nat, K # {}
    PROVE  \E m \in K : \A k \in K : m <= k
<1>1. PICK n \in Nat : n \in K
  OBVIOUS
<1>. DEFINE Below(i) == {j \in 1..n : j <= i}
            Ds == {Below(i) : i \in {j \in K : j <= n}}
<1>2. \A i \in Nat : Below(i) \in SUBSET (1..n)
  OBVIOUS
<1>3. Ds \in SUBSET SUBSET (1..n) /\ Ds # {}
  <2>. HIDE DEF Below
  <2>1. n \in {j \in K : j <= n} /\ \A j \in K : j \in Nat
    BY <1>1
  <2>2. Below(n) \in Ds
    BY <2>1
  <2>3. \A d \in Ds : d \in SUBSET (1..n)
    BY <1>2, <2>1
  <2>. HIDE DEF Ds
  <2>. QED
    BY <2>1, <2>2, <2>3
<1>4. \E m \in Ds : \A d \in Ds : d \subseteq m => d = m
  <2>1. \A Es \in SUBSET SUBSET (1..n) : Es # {} =>
          \E m \in Es : \A d \in Es : d \subseteq m => d = m
    BY LeastSubset
  <2>. HIDE DEF Ds, Below
  <2>. QED
    BY <1>3, <2>1
<1>5. PICK m \in K : m <= n /\ \A k \in K : k <= n /\ Below(k) \subseteq Below(m) => Below(k) = Below(m)
  <2>. HIDE DEF Below
  <2>. QED
    BY <1>4
<1>6. ASSUME NEW k \in K, ~ (m <= k) PROVE FALSE
  <2>1. k \in Nat /\ m \in Nat /\ n \in Nat /\ k < m /\ k <= n /\ m \in 1..n
    BY <1>5, <1>6, <1>1
  <2>2. Below(k) \subseteq Below(m)
    BY <2>1
  <2>3. m \in Below(m) /\ m \notin Below(k)
    BY <2>1
  <2>. HIDE DEF Below
  <2>. QED
    BY <1>5, <2>1, <2>2, <2>3
<1>. QED
  BY <1>6

\* Induction up to n, for a set of numbers.
LEMMA UpTo ==
    ASSUME NEW n \in Nat, NEW K, 0 \in K, \A k \in 1..n : k - 1 \in K => k \in K
    PROVE  0..n \subseteq K
<1>. DEFINE Out == {k \in 0..n : k \notin K}
<1>1. SUFFICES ASSUME Out # {} PROVE FALSE
  OBVIOUS
<1>2. Out \in SUBSET Nat
  OBVIOUS
<1>3. \E m \in Out : \A k \in Out : m <= k
  <2>. HIDE DEF Out
  <2>. QED
    BY <1>1, <1>2, Least
<1>4. PICK m \in 0..n : m \notin K /\ \A k \in Out : m <= k
  BY <1>3
<1>5. m \in 1..n /\ m - 1 \in 0..n /\ ~ (m <= m - 1)
  BY <1>4
<1>. QED
  BY <1>4, <1>5

LEMMA MaxOfIndices ==
    ASSUME NEW n \in Nat, NEW d \in SUBSET (1..n), d # {}
    PROVE  Max(d) \in d /\ \A k \in d : k <= Max(d)
<1>. DEFINE K == {n - k : k \in d}
<1>1. d \subseteq Nat /\ \A k \in d : k <= n /\ n - k \in Nat
  OBVIOUS
<1>2. K \in SUBSET Nat /\ K # {}
  BY <1>1
<1>3. \E m \in K : \A k \in K : m <= k
  <2>. HIDE DEF K
  <2>. QED
    BY <1>2, Least
<1>4. PICK m \in d : \A k \in d : n - m <= n - k
  BY <1>3
<1>5. \A k \in d : m >= k
  BY <1>1, <1>4
<1>6. Max(d) \in d /\ \A k \in d : Max(d) >= k
  BY <1>5 DEF Max
<1>. QED
  BY <1>1, <1>6

LEMMA SmallerSet ==
    ASSUME NEW n \in Nat, NEW d \in SUBSET (1..n), d # {}
    PROVE  d \ {Max(d)} \in SUBSET (1..n) /\ d \ {Max(d)} \subseteq d /\ d \ {Max(d)} # d
BY MaxOfIndices

\* Two such functions agree wherever both are defined.
LEMMA IteratesAgree ==
    ASSUME NEW n \in Nat, NEW base, NEW s,
           NEW a \in SUBSET (1..n), NEW b \in SUBSET (1..n), NEW f, NEW g,
           Iterates(f, a, base, s), Iterates(g, b, base, s)
    PROVE  \A d \in SUBSET (a \cap b) : f[d] = g[d]
<1>. DEFINE Bad == {d \in SUBSET (a \cap b) : f[d] # g[d]}
<1>1. SUFFICES ASSUME Bad # {} PROVE FALSE
  OBVIOUS
<1>2. Bad \in SUBSET SUBSET (1..n)
  OBVIOUS
<1>3. \E m \in Bad : \A d \in Bad : d \subseteq m => d = m
  <2>. HIDE DEF Bad
  <2>. QED
    BY <1>1, <1>2, LeastSubset
<1>4. PICK m \in SUBSET (a \cap b) : f[m] # g[m] /\ \A d \in Bad : d \subseteq m => d = m
  BY <1>3
<1>5. \A d \in SUBSET a : f[d] = IF d = {} THEN base ELSE Op(f[d \ {Max(d)}], s[Max(d)])
  BY DEF Iterates
<1>6. \A d \in SUBSET b : g[d] = IF d = {} THEN base ELSE Op(g[d \ {Max(d)}], s[Max(d)])
  BY DEF Iterates
<1>7. m # {} /\ m \in SUBSET (1..n)
  BY <1>4, <1>5, <1>6
<1>. DEFINE w == m \ {Max(m)}
<1>8. w \subseteq m /\ w # m
  BY <1>7, SmallerSet
<1>9. w \notin Bad /\ w \in SUBSET (a \cap b)
  BY <1>4, <1>8
<1>10. f[w] = g[w]
  BY <1>9
<1>11. f[m] = Op(f[w], s[Max(m)]) /\ g[m] = Op(g[w], s[Max(m)])
  BY <1>5, <1>6, <1>7, <1>4
<1>. QED
  BY <1>4, <1>10, <1>11

LEMMA IteratesExists ==
    ASSUME NEW n \in Nat, NEW base, NEW s, NEW a \in SUBSET (1..n)
    PROVE  \E f : Iterates(f, a, base, s)
<1>0. \A p, q \in SUBSET (1..n) : \A f, g :
        Iterates(f, p, base, s) /\ Iterates(g, q, base, s) =>
          \A d \in SUBSET (p \cap q) : f[d] = g[d]
  <2>. TAKE p, q \in SUBSET (1..n)
  <2>. TAKE f, g
  <2>. HAVE Iterates(f, p, base, s) /\ Iterates(g, q, base, s)
  <2>. QED
    BY IteratesAgree
<1>. DEFINE Bad == {d \in SUBSET (1..n) : ~ \E f : Iterates(f, d, base, s)}
<1>1. SUFFICES ASSUME Bad # {} PROVE FALSE
  OBVIOUS
<1>2. Bad \in SUBSET SUBSET (1..n)
  OBVIOUS
<1>3. \E m \in Bad : \A d \in Bad : d \subseteq m => d = m
  <2>. HIDE DEF Bad
  <2>. QED
    BY <1>1, <1>2, LeastSubset
<1>4. PICK m \in Bad : \A d \in Bad : d \subseteq m => d = m
  BY <1>3
<1>5. m \in SUBSET (1..n) /\ ~ \E f : Iterates(f, m, base, s)
  BY <1>4
<1>6. \A d \in SUBSET (1..n) : d \subseteq m /\ d # m => \E f : Iterates(f, d, base, s)
  BY <1>4
<1>. DEFINE less(u) == u \ {Max(u)}
            G(u) == CHOOSE f : Iterates(f, less(u), base, s)
            F == [u \in SUBSET m |-> IF u = {} THEN base ELSE Op(G(u)[less(u)], s[Max(u)])]
<1>7. \A u \in SUBSET m : u # {} =>
         Max(u) \in u /\ less(u) \in SUBSET (1..n) /\ less(u) \subseteq u /\ less(u) # m
  <2>. TAKE u \in SUBSET m
  <2>. HAVE u # {}
  <2>1. u \in SUBSET (1..n)
    BY <1>5
  <2>. QED
    BY <2>1, SmallerSet, MaxOfIndices
<1>8. \A u \in SUBSET m : u # {} => Iterates(G(u), less(u), base, s)
  BY <1>6, <1>7
<1>9. ASSUME NEW u \in SUBSET m, u # {} PROVE F[less(u)] = G(u)[less(u)]
  <2>. DEFINE w == less(u)
  <2>1. w \in SUBSET m /\ w \in SUBSET (1..n) /\ Iterates(G(u), w, base, s)
    BY <1>7, <1>8, <1>9
  <2>. HIDE DEF G
  <2>2. G(u)[w] = IF w = {} THEN base ELSE Op(G(u)[w \ {Max(w)}], s[Max(w)])
    BY <2>1 DEF Iterates
  <2>3. CASE w = {}
    BY <2>1, <2>2, <2>3
  <2>4. CASE w # {}
    <3>. DEFINE x == less(w)
    <3>1. x \in SUBSET (1..n) /\ x \subseteq w /\ Iterates(G(w), x, base, s)
      BY <1>7, <1>8, <2>1, <2>4
    <3>2. \A d \in SUBSET (w \cap x) : G(u)[d] = G(w)[d]
      <4>. HIDE DEF w, x, less, F
      <4>. QED
        BY <1>0, <2>1, <3>1
    <3>3. G(u)[x] = G(w)[x]
      BY <3>1, <3>2
    <3>4. F[w] = Op(G(w)[x], s[Max(w)])
      BY <2>1, <2>4
    <3>. QED
      BY <2>2, <2>4, <3>3, <3>4
  <2>. QED
    BY <2>3, <2>4
<1>10. ASSUME NEW u \in SUBSET m
       PROVE  F[u] = IF u = {} THEN base ELSE Op(F[less(u)], s[Max(u)])
  <2>1. F[u] = IF u = {} THEN base ELSE Op(G(u)[less(u)], s[Max(u)])
    OBVIOUS
  <2>. HIDE DEF F, G
  <2>. QED
    BY <1>9, <2>1
<1>11. F = [u \in SUBSET m |-> F[u]]
  OBVIOUS
<1>12. Iterates(F, m, base, s)
  <2>. HIDE DEF F
  <2>. QED
    BY <1>10, <1>11 DEF Iterates
<1>. QED
  BY <1>5, <1>12

LEMMA FoldIterates ==
    ASSUME NEW base, NEW s, NEW n \in Nat, DOMAIN s = 1..n
    PROVE  \E f : Iterates(f, 1..n, base, s) /\ Fold(base, s) = f[1..n]
<1>. DEFINE It == CHOOSE f : Iterates(f, 1..n, base, s)
<1>1. Iterates(It, 1..n, base, s)
  BY IteratesExists
<1>2. Fold(base, s) = It[1..n]
  BY DEF Fold, FoldLeft, MapThenFoldSet, Iterates
<1>. QED
  BY <1>1, <1>2

\* The fold is the last of the values got one element after another.
LEMMA FoldSteps ==
    ASSUME NEW base, NEW S, NEW s \in Seq(S)
    PROVE  \E v : /\ v[0] = base
                  /\ \A k \in 1..Len(s) : v[k] = Op(v[k-1], s[k])
                  /\ Fold(base, s) = v[Len(s)]
<1>. DEFINE n == Len(s)
<1>0. n \in Nat /\ DOMAIN s = 1..n
  OBVIOUS
<1>. HIDE DEF n
<1>1. PICK f : Iterates(f, 1..n, base, s) /\ Fold(base, s) = f[1..n]
  BY <1>0, FoldIterates
<1>. DEFINE v == [k \in 0..n |-> f[1..k]]
<1>2. \A d \in SUBSET (1..n) : f[d] = IF d = {} THEN base ELSE Op(f[d \ {Max(d)}], s[Max(d)])
  BY <1>1 DEF Iterates
<1>3. v[0] = base
  <2>1. v[0] = f[1..0] /\ 1..0 = {}
    BY <1>0
  <2>. QED
    BY <1>2, <2>1
<1>4. ASSUME NEW k \in 1..n PROVE v[k] = Op(v[k-1], s[k])
  <2>1. 1..k \in SUBSET (1..n) /\ k \in 1..k /\ k \in Nat /\ k - 1 \in 0..n
    BY <1>0
  <2>2. Max(1..k) \in 1..k /\ \A j \in 1..k : j <= Max(1..k)
    <3>. HIDE DEF v
    <3>1. 1..k # {}
      BY <2>1
    <3>. QED
      BY <1>0, <2>1, <3>1, MaxOfIndices
  <2>3. Max(1..k) = k
    BY <2>1, <2>2
  <2>4. 1..k \ {k} = 1..(k-1)
    BY <2>1
  <2>5. v[k] = f[1..k] /\ v[k-1] = f[1..(k-1)]
    BY <2>1
  <2>. QED
    BY <1>2, <2>1, <2>3, <2>4, <2>5
<1>5. v[n] = f[1..n]
  BY <1>0
<1>. QED
  <2>. HIDE DEF v
  <2>1. v[0] = base /\ (\A k \in 1..n : v[k] = Op(v[k-1], s[k])) /\ Fold(base, s) = v[n]
    BY <1>1, <1>3, <1>4, <1>5
  <2>. QED
    BY <2>1 DEF n

LEMMA FoldEmpty ==
    ASSUME NEW base
    PROVE  Fold(base, <<>>) = base
<1>. DEFINE s == <<>>
<1>1. s \in Seq({}) /\ Len(s) = 0
  OBVIOUS
<1>2. \E v : /\ v[0] = base
             /\ \A k \in 1..Len(s) : v[k] = Op(v[k-1], s[k])
             /\ Fold(base, s) = v[Len(s)]
  <2>. HIDE DEF s
  <2>. QED
    BY <1>1, FoldSteps
<1>. QED
  BY <1>1, <1>2

LEMMA FoldAppend ==
    ASSUME NEW base, NEW S, NEW s \in Seq(S), NEW e \in S
    PROVE  Fold(base, Append(s, e)) = Op(Fold(base, s), e)
<1>. DEFINE t == Append(s, e)
            n == Len(s)
<1>1. t \in Seq(S)
  OBVIOUS
<1>2. PICK v : /\ v[0] = base /\ \A k \in 1..Len(s) : v[k] = Op(v[k-1], s[k])
               /\ Fold(base, s) = v[Len(s)]
  BY FoldSteps
<1>3. \E w : /\ w[0] = base /\ \A k \in 1..Len(t) : w[k] = Op(w[k-1], t[k])
             /\ Fold(base, t) = w[Len(t)]
  <2>. HIDE DEF t
  <2>. QED
    BY <1>1, FoldSteps
<1>4. PICK w : /\ w[0] = base /\ \A k \in 1..Len(t) : w[k] = Op(w[k-1], t[k])
               /\ Fold(base, t) = w[Len(t)]
  BY <1>3
<1>5. n \in Nat /\ Len(t) = n + 1 /\ t[n+1] = e /\ \A k \in 1..n : t[k] = s[k]
  OBVIOUS
<1>. HIDE DEF t
<1>6. \A k \in 1..n : w[k] = Op(w[k-1], s[k])
  BY <1>4, <1>5
<1>7. \A k \in 1..n : v[k] = Op(v[k-1], s[k])
  BY <1>2
<1>8. v[0] = w[0] /\ n \in Nat
  BY <1>2, <1>4, <1>5
<1>. HIDE DEF n
<1>9. \A k \in 0..n : v[k] = w[k]
  <2>. DEFINE K == {k \in 0..n : v[k] = w[k]}
  <2>1. 0 \in K
    BY <1>8
  <2>2. \A k \in 1..n : k - 1 \in K => k \in K
    BY <1>6, <1>7, <1>8
  <2>3. 0..n \subseteq K
    <3>. HIDE DEF K
    <3>. QED
      BY <1>8, <2>1, <2>2, UpTo
  <2>. QED
    BY <2>3
<1>10. n + 1 \in 1..(n+1) /\ (n + 1) - 1 = n /\ n \in 0..n
  BY <1>8
<1>11. w[n+1] = Op(w[n], e) /\ v[n] = w[n]
  BY <1>4, <1>5, <1>9, <1>10
<1>. QED
  BY <1>2, <1>4, <1>5, <1>11 DEF t, n

(***************************************************************************)
(* Climbs.                                                                 *)
(***************************************************************************)
\* g[j] is base[j] at an end, and elsewhere what Op makes of g one step up.
Climbs(g, D, ends, up, base) ==
    g = [j \in D |-> IF j \in ends THEN base[j] ELSE Op(g[up[j]], j)]

\* Every step up from a node that is no end is in D, and no set of nodes goes round.
Grounded(D, ends, up) ==
    /\ \A j \in D \ ends : up[j] \in D
    /\ \A S \in SUBSET (D \ ends) : S # {} => \E j \in S : up[j] \notin S

Upward(C, D, ends, up) == C \in SUBSET D /\ \A j \in C \ ends : up[j] \in C

LEMMA ClimbsAgree ==
    ASSUME NEW D, NEW ends, NEW up, NEW base, Grounded(D, ends, up),
           NEW A, NEW B, Upward(A, D, ends, up), Upward(B, D, ends, up),
           NEW f, NEW g, Climbs(f, A, ends, up, base), Climbs(g, B, ends, up, base)
    PROVE  \A j \in A \cap B : f[j] = g[j]
<1>. DEFINE Bad == {j \in A \cap B : f[j] # g[j]}
<1>1. SUFFICES ASSUME Bad # {} PROVE FALSE
  OBVIOUS
<1>2. \A j \in A : f[j] = IF j \in ends THEN base[j] ELSE Op(f[up[j]], j)
  BY DEF Climbs
<1>3. \A j \in B : g[j] = IF j \in ends THEN base[j] ELSE Op(g[up[j]], j)
  BY DEF Climbs
<1>4. Bad \in SUBSET (D \ ends)
  BY <1>2, <1>3 DEF Upward
<1>5. \E j \in Bad : up[j] \notin Bad
  <2>. HIDE DEF Bad
  <2>. QED
    BY <1>1, <1>4 DEF Grounded
<1>6. PICK j \in A \cap B : f[j] # g[j] /\ up[j] \notin Bad
  BY <1>5
<1>7. j \notin ends /\ up[j] \in A \cap B
  BY <1>4, <1>6 DEF Upward
<1>8. f[up[j]] = g[up[j]]
  BY <1>6, <1>7
<1>. QED
  BY <1>2, <1>3, <1>6, <1>7, <1>8

\* Some part of D that holds j has a climb.
Climbable(j, D, ends, up, base) ==
    \E C, f : j \in C /\ Upward(C, D, ends, up) /\ Climbs(f, C, ends, up, base)

LEMMA ClimbOne ==
    ASSUME NEW D, NEW ends, NEW up, NEW base, Grounded(D, ends, up), NEW i \in D
    PROVE  Climbable(i, D, ends, up, base)
<1>. DEFINE Bad == {j \in D : ~ Climbable(j, D, ends, up, base)}
<1>1. SUFFICES ASSUME Bad # {} PROVE FALSE
  OBVIOUS
<1>2. ASSUME NEW j \in D, j \in ends PROVE Climbable(j, D, ends, up, base)
  <2>. DEFINE f == [x \in {j} |-> base[x]]
  <2>1. f = [x \in {j} |-> IF x \in ends THEN base[x] ELSE Op(f[up[x]], x)]
    BY <1>2
  <2>. HIDE DEF f
  <2>2. Climbs(f, {j}, ends, up, base)
    BY <2>1 DEF Climbs
  <2>3. Upward({j}, D, ends, up)
    BY <1>2 DEF Upward
  <2>. QED
    BY <2>2, <2>3 DEF Climbable
<1>3. Bad \in SUBSET (D \ ends)
  BY <1>2
<1>4. \E j \in Bad : up[j] \notin Bad
  <2>. HIDE DEF Bad
  <2>. QED
    BY <1>1, <1>3 DEF Grounded
<1>5. PICK j \in D : ~ Climbable(j, D, ends, up, base) /\ up[j] \notin Bad
  BY <1>4
<1>6. j \notin ends /\ up[j] \in D
  BY <1>2, <1>5 DEF Grounded
<1>7. PICK C, f : up[j] \in C /\ Upward(C, D, ends, up) /\ Climbs(f, C, ends, up, base)
  BY <1>5, <1>6 DEF Climbable
<1>8. j \notin C
  BY <1>5, <1>7 DEF Climbable
<1>. DEFINE E == C \cup {j}
            g == [x \in E |-> IF x = j THEN Op(f[up[j]], j) ELSE f[x]]
<1>9. \A x \in C : f[x] = IF x \in ends THEN base[x] ELSE Op(f[up[x]], x)
  BY <1>7 DEF Climbs
<1>10. \A x \in C \ ends : up[x] \in C
  BY <1>7 DEF Upward
<1>11. ASSUME NEW x \in E PROVE g[x] = IF x \in ends THEN base[x] ELSE Op(g[up[x]], x)
  <2>1. CASE x = j
    <3>1. up[j] \in C /\ g[up[j]] = f[up[j]]
      BY <1>7, <1>8
    <3>. QED
      BY <1>6, <2>1, <3>1
  <2>2. CASE x \in C /\ x \in ends
    BY <1>8, <1>9, <2>2
  <2>3. CASE x \in C /\ x \notin ends
    <3>1. up[x] \in C /\ g[up[x]] = f[up[x]]
      BY <1>8, <1>10, <2>3
    <3>. QED
      BY <1>8, <1>9, <2>3, <3>1
  <2>. QED
    BY <2>1, <2>2, <2>3
<1>12. g = [x \in E |-> g[x]]
  OBVIOUS
<1>13. Climbs(g, E, ends, up, base)
  <2>. HIDE DEF g, E
  <2>. QED
    BY <1>11, <1>12 DEF Climbs
<1>14. Upward(E, D, ends, up) /\ j \in E
  BY <1>7, <1>10 DEF Upward
<1>. QED
  <2>. HIDE DEF g, E
  <2>. QED
    BY <1>5, <1>13, <1>14 DEF Climbable

LEMMA ClimbExists ==
    ASSUME NEW D, NEW ends, NEW up, NEW base, Grounded(D, ends, up)
    PROVE  \E g : Climbs(g, D, ends, up, base)
<1>. DEFINE Part(j) == CHOOSE f : \E C : j \in C /\ Upward(C, D, ends, up) /\ Climbs(f, C, ends, up, base)
            F == [j \in D |-> Part(j)[j]]
<1>1. \A j \in D : \E C : j \in C /\ Upward(C, D, ends, up) /\ Climbs(Part(j), C, ends, up, base)
  <2>. TAKE j \in D
  <2>1. \E f : \E C : j \in C /\ Upward(C, D, ends, up) /\ Climbs(f, C, ends, up, base)
    BY ClimbOne DEF Climbable
  <2>. QED
    BY <2>1
<1>. HIDE DEF Part
<1>2. ASSUME NEW j \in D PROVE F[j] = IF j \in ends THEN base[j] ELSE Op(F[up[j]], j)
  <2>1. PICK C : j \in C /\ Upward(C, D, ends, up) /\ Climbs(Part(j), C, ends, up, base)
    BY <1>1
  <2>2. Part(j)[j] = IF j \in ends THEN base[j] ELSE Op(Part(j)[up[j]], j)
    BY <2>1 DEF Climbs
  <2>3. CASE j \in ends
    BY <2>2, <2>3
  <2>4. CASE j \notin ends
    <3>1. up[j] \in C /\ up[j] \in D
      BY <2>1, <2>4 DEF Upward
    <3>2. PICK B : up[j] \in B /\ Upward(B, D, ends, up) /\ Climbs(Part(up[j]), B, ends, up, base)
      BY <1>1, <3>1
    <3>3. \A x \in C \cap B : Part(j)[x] = Part(up[j])[x]
      BY <2>1, <3>2, ClimbsAgree
    <3>4. F[up[j]] = Part(up[j])[up[j]]
      BY <3>1
    <3>. QED
      BY <2>2, <2>4, <3>1, <3>2, <3>3, <3>4
  <2>. QED
    BY <2>3, <2>4
<1>3. F = [j \in D |-> F[j]]
  OBVIOUS
<1>. QED
  <2>. HIDE DEF F
  <2>. QED
    BY <1>2, <1>3 DEF Climbs
==============================================================================
