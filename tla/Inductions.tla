----------------------------- MODULE Inductions -----------------------------
(***************************************************************************)
(* Induction over data, for the proofs of the components, and what they    *)
(* need of places and sequences.  The theorems of the library take the     *)
(* predicate or the recursive definition as an operator; here the          *)
(* predicate is a set of natural numbers and the definition a function, so *)
(* that both can be given in a proof.                                      *)
(***************************************************************************)
EXTENDS Integers, Sequences, FiniteSets, FiniteSetsExt, SequenceTheorems,
        WellFoundedInduction, TLAPS

Below == {p \in Nat \X Nat : p[1] < p[2]}

LEMMA BelowWellFounded == IsWellFoundedOn(Below, Nat)
  BY NatLessThanWellFounded, Zenon DEF OpToRel, Below

(***************************************************************************)
(* A set of natural numbers that is not empty has a least element.         *)
(***************************************************************************)
THEOREM LeastNat ==
  ASSUME NEW T, T \subseteq Nat, T # {}
  PROVE  \E n \in T : \A m \in T : n <= m
<1>1. PICK x \in T : \A y \in T : ~ (<<y, x>> \in Below)
  BY BelowWellFounded, WFMin
<1>2. SUFFICES ASSUME NEW m \in T PROVE x <= m
  OBVIOUS
<1>3. x \in Nat /\ m \in Nat
  OBVIOUS
<1>4. m < x => <<m, x>> \in Below
  BY <1>3 DEF Below
<1> QED BY <1>1, <1>3, <1>4

(***************************************************************************)
(* A set of natural numbers with 0, and with the successor of each of its  *)
(* elements, is that of all.                                               *)
(***************************************************************************)
THEOREM NatInduct ==
  ASSUME NEW S, S \subseteq Nat, 0 \in S, \A n \in S : n + 1 \in S
  PROVE  \A n \in Nat : n \in S
<1> SUFFICES ASSUME NEW k \in Nat, k \notin S PROVE FALSE
  OBVIOUS
<1>1. PICK n \in Nat \ S : \A m \in Nat \ S : n <= m
  <2>1. Nat \ S # {} /\ Nat \ S \subseteq Nat
    OBVIOUS
  <2> QED BY <2>1, LeastNat
<1>2. n - 1 \in Nat /\ n - 1 \notin Nat \ S
  BY <1>1
<1> QED BY <1>1, <1>2

(***************************************************************************)
(* The largest of finitely many natural numbers.                           *)
(***************************************************************************)
LEMMA MaxOfPlaces ==
  ASSUME NEW n \in Nat, NEW t, t \subseteq 1 .. n, t # {}
  PROVE  Max(t) \in t /\ \A y \in t : Max(t) >= y
<1> DEFINE T == {n - x : x \in t}
<1>0. \A x \in t : x \in 1 .. n /\ n - x \in Nat
  OBVIOUS
<1>1. T \subseteq Nat /\ T # {}
  BY <1>0
<1>2. PICK d \in T : \A e \in T : d <= e
  BY <1>1, LeastNat
<1>3. PICK x \in t : d = n - x
  BY <1>2
<1>4. ASSUME NEW y \in t PROVE x >= y
  <2>1. n - x <= n - y
    BY <1>2, <1>3
  <2> QED BY <1>0, <2>1
<1> QED BY <1>4 DEF Max

LEMMA MaxOfPrefix ==
  ASSUME NEW n \in Nat \ {0}
  PROVE  Max(1 .. n) = n /\ (1 .. n) \ {n} = 1 .. n - 1
<1>1. Max(1 .. n) \in 1 .. n /\ \A y \in 1 .. n : Max(1 .. n) >= y
  <2>1. n \in 1 .. n
    OBVIOUS
  <2>2. n \in Nat /\ 1 .. n # {}
    BY <2>1
  <2> QED BY <2>2, MaxOfPlaces
<1> QED BY <1>1

(***************************************************************************)
(* The smallest of some places.                                            *)
(***************************************************************************)
LEMMA MinOfPlaces ==
  ASSUME NEW n \in Nat, NEW T, T \subseteq 1 .. n, T # {}
  PROVE  Min(T) \in T /\ \A y \in T : Min(T) <= y
<1>1. T \subseteq Nat
  OBVIOUS
<1>2. \E x \in T : \A y \in T : x <= y
  BY <1>1, LeastNat
<1> QED BY <1>2 DEF Min

(***************************************************************************)
(* A sequence with one element more, and the beginning of one.             *)
(***************************************************************************)
LEMMA Pushed ==
  ASSUME NEW S, NEW s \in Seq(S), NEW w \in S
  PROVE  /\ Append(s, w) \in Seq(S) /\ Len(Append(s, w)) = Len(s) + 1
         /\ \A i \in 1 .. Len(s) + 1 :
              Append(s, w)[i] = IF i = Len(s) + 1 THEN w ELSE s[i]
OBVIOUS

LEMMA StartOf ==
  ASSUME NEW S, NEW s \in Seq(S), NEW n \in Nat, n <= Len(s)
  PROVE  /\ SubSeq(s, 1, n) \in Seq(S) /\ Len(SubSeq(s, 1, n)) = n
         /\ \A i \in 1 .. n : SubSeq(s, 1, n)[i] = s[i]
<1>1. Len(s) \in Nat /\ \A i \in 1 .. n : s[i] \in S
  OBVIOUS
<1> DEFINE q == SubSeq(s, 1, n)
<1>2. /\ q \in Seq(S) /\ Len(q) = IF 1 <= n THEN n - 1 + 1 ELSE 0
      /\ \A i \in 1 .. n - 1 + 1 : q[i] = s[1 + i - 1]
  <2>1. 1 \in Int /\ n \in Int
    OBVIOUS
  <2> QED BY <1>1, <2>1, SubSeqProperties
<1>3. n - 1 + 1 = n /\ \A i \in 1 .. n : 1 + i - 1 = i
  OBVIOUS
<1> HIDE DEF q
<1>4. /\ q \in Seq(S) /\ Len(q) = n
      /\ \A i \in 1 .. n : q[i] = s[i]
  BY <1>2, <1>3
<1> QED BY <1>4 DEF q

(***************************************************************************)
(* The largest of a finite set of natural numbers.                         *)
(***************************************************************************)
LEMMA SeqBounded ==
  ASSUME NEW seq \in Seq(Nat)
  PROVE  \E b \in Nat : \A j \in 1 .. Len(seq) : seq[j] <= b
<1> DEFINE n == Len(seq)
           Good == {m \in Nat : m <= n =>
                      \E b \in Nat : \A j \in 1 .. m : seq[j] <= b}
<1>0. n \in Nat /\ \A j \in 1 .. n : seq[j] \in Nat
  OBVIOUS
<1>1. 0 \in Good
  <2>1. 0 \in Nat /\ \A j \in 1 .. 0 : seq[j] <= 0
    OBVIOUS
  <2> QED BY <2>1
<1>2. ASSUME NEW m \in Good PROVE m + 1 \in Good
  <2>1. SUFFICES ASSUME m + 1 <= n
                 PROVE  \E b \in Nat : \A j \in 1 .. m + 1 : seq[j] <= b
    OBVIOUS
  <2>2. m \in Nat /\ m <= n /\ m + 1 \in 1 .. n
    BY <1>0, <2>1
  <2>3. PICK b \in Nat : \A j \in 1 .. m : seq[j] <= b
    BY <2>2
  <2> DEFINE c == IF seq[m + 1] > b THEN seq[m + 1] ELSE b
  <2>4. c \in Nat /\ b <= c /\ seq[m + 1] <= c
    BY <1>0, <2>2
  <2> HIDE DEF c
  <2>5. ASSUME NEW j \in 1 .. m + 1 PROVE seq[j] <= c
    <3>1. CASE j = m + 1
      BY <2>4, <3>1
    <3>2. CASE j # m + 1
      <4>1. j \in 1 .. m /\ j \in 1 .. n
        BY <1>0, <2>2, <3>2
      <4> QED BY <1>0, <2>3, <2>4, <4>1
    <3> QED BY <3>1, <3>2
  <2> QED BY <2>4, <2>5
<1>3. Good \subseteq Nat
  OBVIOUS
<1>4. \A m \in Nat : m \in Good
  <2> HIDE DEF Good
  <2> QED BY <1>1, <1>2, <1>3, NatInduct
<1>5. n \in Good
  BY <1>0, <1>4
<1>6. n <= n
  BY <1>0
<1> QED BY <1>5, <1>6

LEMMA MaxOfFinite ==
  ASSUME NEW T, IsFiniteSet(T), T \subseteq Nat, T # {}
  PROVE  Max(T) \in T /\ \A y \in T : Max(T) >= y
<1>1. PICK seq \in Seq(T) : \A x \in T : \E j \in 1 .. Len(seq) : seq[j] = x
  BY DEF IsFiniteSet
<1>2. seq \in Seq(Nat)
  BY SeqMonotonic
<1>3. PICK b \in Nat : \A j \in 1 .. Len(seq) : seq[j] <= b
  BY <1>2, SeqBounded
<1>4. \A x \in T : x \in Nat /\ x <= b
  BY <1>1, <1>3
<1> DEFINE D == {b - x : x \in T}
<1>5. \A d \in D : d \in Nat
  BY <1>4
<1>6. D \subseteq Nat /\ D # {}
  BY <1>5
<1>7. PICK d \in D : \A e \in D : d <= e
  <2> HIDE DEF D
  <2> QED BY <1>6, LeastNat
<1>8. PICK x \in T : d = b - x
  BY <1>7
<1>9. ASSUME NEW y \in T PROVE x >= y
  <2>1. b - x <= b - y
    BY <1>7, <1>8
  <2> QED BY <1>4, <2>1
<1> QED BY <1>9 DEF Max

(***************************************************************************)
(* The function by which FoldLeft goes through a sequence of length n      *)
(* exists: on the sets of its places, with D[<<v, j>>] what the place j    *)
(* makes of v.                                                             *)
(***************************************************************************)
FoldedBy(g, n, b, D) ==
  \A t \in SUBSET (1 .. n) :
    g[t] = IF t = {} THEN b ELSE D[<<g[t \ {Max(t)}], Max(t)>>]

THEOREM FoldExists ==
  ASSUME NEW S, NEW b \in S, NEW n \in Nat, NEW D \in [S \X (1 .. n) -> S]
  PROVE  \E g \in [SUBSET (1 .. n) -> S] : FoldedBy(g, n, b, D)
<1> DEFINE Good == {m \in Nat : m <= n =>
                      \E g \in [SUBSET (1 .. m) -> S] : FoldedBy(g, m, b, D)}
<1>0. \A m \in Nat : m \in Good <=>
        (m <= n => \E g \in [SUBSET (1 .. m) -> S] : FoldedBy(g, m, b, D))
  BY Zenon
<1> HIDE DEF Good
<1>1. 0 \in Good
  <2> DEFINE g == [t \in SUBSET (1 .. 0) |-> b]
  <2>1. g \in [SUBSET (1 .. 0) -> S]
    OBVIOUS
  <2>2. FoldedBy(g, 0, b, D)
    BY DEF FoldedBy
  <2> QED BY <2>1, <2>2, <1>0
<1>2. ASSUME NEW m \in Nat, m \in Good PROVE m + 1 \in Good
  <2>1. SUFFICES ASSUME m + 1 <= n
                 PROVE  \E h \in [SUBSET (1 .. m + 1) -> S] :
                          FoldedBy(h, m + 1, b, D)
    <3>1. m + 1 \in Nat
      OBVIOUS
    <3> QED BY <1>0, <3>1
  <2>2. PICK g \in [SUBSET (1 .. m) -> S] : FoldedBy(g, m, b, D)
    <3>1. m <= n
      BY <2>1
    <3> QED BY <1>0, <1>2, <3>1
  <2> DEFINE l == m + 1
             h == [t \in SUBSET (1 .. l) |->
                     IF l \in t THEN D[<<g[t \ {l}], l>>] ELSE g[t]]
  <2>3. l \in 1 .. n /\ m \in Nat
    BY <2>1
  <2>4. ASSUME NEW t \in SUBSET (1 .. l), l \in t
        PROVE  Max(t) = l /\ t \ {l} \in SUBSET (1 .. m)
    <3>1. Max(t) \in t /\ \A y \in t : Max(t) >= y
      <4>1. l \in Nat /\ t \subseteq 1 .. l /\ t # {}
        BY <2>3, <2>4
      <4> QED BY <4>1, MaxOfPlaces
    <3>2. \A y \in t : y \in Int /\ 1 <= y /\ y <= m + 1
      BY <2>3
    <3>3. Max(t) = l
      <4>1. Max(t) >= l
        BY <3>1, <2>4
      <4>2. Max(t) \in Int /\ Max(t) <= m + 1
        BY <3>1, <3>2
      <4> QED BY <4>1, <4>2
    <3>4. \A y \in t \ {l} : y \in 1 .. m
      BY <3>2, <2>3
    <3> QED BY <3>3, <3>4
  <2>5. ASSUME NEW t \in SUBSET (1 .. l), l \notin t
        PROVE  t \in SUBSET (1 .. m)
    BY <2>3, <2>5
  <2>6. h \in [SUBSET (1 .. l) -> S]
    BY <2>3, <2>4, <2>5
  <2>7. ASSUME NEW t \in SUBSET (1 .. l)
        PROVE  h[t] = IF t = {} THEN b ELSE D[<<h[t \ {Max(t)}], Max(t)>>]
    <3>1. CASE l \in t
      <4>1. t \ {l} \in SUBSET (1 .. m) /\ Max(t) = l
        BY <2>4, <3>1
      <4>2. t \ {l} \in SUBSET (1 .. l) /\ l \notin t \ {l}
        BY <2>7
      <4>3. h[t \ {l}] = g[t \ {l}]
        BY <4>2
      <4>4. h[t] = D[<<g[t \ {l}], l>>]
        BY <3>1
      <4> QED BY <3>1, <4>1, <4>3, <4>4
    <3>2. CASE l \notin t
      <4>1. t \in SUBSET (1 .. m)
        BY <2>5, <3>2
      <4>2. h[t] = g[t]
        BY <3>2
      <4>3. g[t] = IF t = {} THEN b ELSE D[<<g[t \ {Max(t)}], Max(t)>>]
        BY <2>2, <4>1 DEF FoldedBy
      <4>4. h[t \ {Max(t)}] = g[t \ {Max(t)}]
        BY <3>2
      <4> QED BY <4>2, <4>3, <4>4
    <3> QED BY <3>1, <3>2
  <2>8. FoldedBy(h, m + 1, b, D)
    BY <2>7 DEF FoldedBy
  <2> QED BY <2>6, <2>8
<1>3. n \in Good
  <2>1. Good \subseteq Nat
    BY DEF Good
  <2>2. \A m \in Good : m + 1 \in Good
    BY <1>2, <2>1
  <2> QED BY <1>1, <2>1, <2>2, NatInduct
<1>4. n <= n
  OBVIOUS
<1> QED BY <1>0, <1>3, <1>4

(***************************************************************************)
(* A function defined by recursion over the natural numbers exists.        *)
(***************************************************************************)
Recurs(g, b, D) == \A k \in Nat : g[k] = IF k = 0 THEN b ELSE D[<<g[k - 1], k>>]

THEOREM RecursionExists ==
  ASSUME NEW S, NEW b \in S, NEW D \in [S \X Nat -> S]
  PROVE  \E g \in [Nat -> S] : Recurs(g, b, D)
<1> DEFINE To(g, n) == \A k \in 0 .. n :
                         g[k] = IF k = 0 THEN b ELSE D[<<g[k - 1], k>>]
           Good == {n \in Nat : \E g \in [0 .. n -> S] : To(g, n)}
<1>0. \A n \in Nat : n \in Good <=> \E g \in [0 .. n -> S] : To(g, n)
  BY Zenon
<1> HIDE DEF Good
<1>1. 0 \in Good
  <2> DEFINE g == [k \in 0 .. 0 |-> b]
  <2>1. g \in [0 .. 0 -> S] /\ To(g, 0)
    OBVIOUS
  <2> QED BY <2>1, <1>0
<1>2. ASSUME NEW n \in Nat, n \in Good PROVE n + 1 \in Good
  <2>1. PICK g \in [0 .. n -> S] : To(g, n)
    BY <1>0, <1>2
  <2> DEFINE h == [k \in 0 .. n + 1 |->
                     IF k = n + 1 THEN D[<<g[n], n + 1>>] ELSE g[k]]
  <2>2. h \in [0 .. n + 1 -> S]
    OBVIOUS
  <2>3. ASSUME NEW k \in 0 .. n + 1
        PROVE  h[k] = IF k = 0 THEN b ELSE D[<<h[k - 1], k>>]
    <3>1. CASE k = n + 1
      <4>1. n # n + 1 /\ n \in 0 .. n + 1
        OBVIOUS
      <4>2. h[n] = g[n] /\ h[k] = D[<<g[n], n + 1>>]
        BY <3>1, <4>1
      <4>3. k - 1 = n /\ k # 0
        BY <3>1
      <4> HIDE DEF h
      <4> QED BY <3>1, <4>2, <4>3
    <3>2. CASE k # n + 1
      <4>1. k \in 0 .. n /\ h[k] = g[k]
        BY <3>2
      <4>2. k # 0 => k - 1 \in 0 .. n + 1 /\ k - 1 # n + 1
        BY <4>1
      <4>3. k # 0 => h[k - 1] = g[k - 1]
        BY <4>2
      <4> QED BY <2>1, <4>1, <4>3
    <3> QED BY <3>1, <3>2
  <2>4. \E f \in [0 .. n + 1 -> S] : To(f, n + 1)
    <3> HIDE DEF h
    <3> QED BY <2>2, <2>3
  <2> QED BY <2>4, <1>0
<1>3. \A n \in Nat : \E g \in [0 .. n -> S] : To(g, n)
  <2>1. Good \subseteq Nat
    BY DEF Good
  <2>2. \A n \in Good : n + 1 \in Good
    BY <1>2, <2>1
  <2>3. \A n \in Nat : n \in Good
    BY <1>1, <2>1, <2>2, NatInduct
  <2> QED BY <1>0, <2>3
<1> DEFINE f == [n \in Nat |-> CHOOSE g : g \in [0 .. n -> S] /\ To(g, n)]
<1>4. \A n \in Nat : f[n] \in [0 .. n -> S] /\ To(f[n], n)
  BY ZenonT(60), <1>3
<1> HIDE DEF f
<1>4a. ASSUME NEW n \in Nat, NEW k \in 0 .. n
       PROVE  f[n][k] = IF k = 0 THEN b ELSE D[<<f[n][k - 1], k>>]
  BY <1>4
<1>4b. \A n \in Nat : f[n] \in [0 .. n -> S]
  BY <1>4
<1> HIDE DEF To
<1>5. ASSUME NEW n \in Nat PROVE \A m \in Nat : n <= m => f[n][n] = f[m][n]
  <2> DEFINE Same == {k \in Nat : \A p \in Nat, q \in Nat :
                        k <= p /\ k <= q => f[p][k] = f[q][k]}
  <2>1. 0 \in Same
    <3>1. \A p \in Nat : f[p][0] = b
      <4>1. \A p \in Nat : 0 \in 0 .. p
        OBVIOUS
      <4> QED BY <1>4a, <4>1
    <3> QED BY <3>1
  <2>2. ASSUME NEW k \in Same PROVE k + 1 \in Same
    <3>1. SUFFICES ASSUME NEW p \in Nat, NEW q \in Nat, k + 1 <= p, k + 1 <= q
                   PROVE  f[p][k + 1] = f[q][k + 1]
      OBVIOUS
    <3>2. f[p][k] = f[q][k]
      BY <3>1
    <3>3. k + 1 \in 0 .. p /\ k + 1 \in 0 .. q /\ k + 1 # 0 /\ (k + 1) - 1 = k
      BY <3>1
    <3>4. f[p][k + 1] = D[<<f[p][k], k + 1>>]
      BY <1>4a, <3>3
    <3>5. f[q][k + 1] = D[<<f[q][k], k + 1>>]
      BY <1>4a, <3>3
    <3> QED BY <3>2, <3>4, <3>5
  <2>3. Same \subseteq Nat
    OBVIOUS
  <2>4. n \in Same
    <3> HIDE DEF Same
    <3> QED BY <2>1, <2>2, <2>3, NatInduct
  <2> QED BY <2>4
<1> DEFINE g == [n \in Nat |-> f[n][n]]
<1>6. g \in [Nat -> S]
  BY <1>4b
<1>7. ASSUME NEW k \in Nat
      PROVE  g[k] = IF k = 0 THEN b ELSE D[<<g[k - 1], k>>]
  <2>0. k \in 0 .. k
    OBVIOUS
  <2>1. CASE k = 0
    BY <1>4a, <2>0, <2>1
  <2>2. CASE k # 0
    <3>1. k - 1 \in Nat /\ f[k - 1][k - 1] = f[k][k - 1]
      BY <1>5, <2>2
    <3>2. f[k][k] = D[<<f[k][k - 1], k>>]
      BY <1>4a, <2>0, <2>2
    <3> QED BY <3>1, <3>2, <2>2
  <2> QED BY <2>1, <2>2
<1> QED BY <1>6, <1>7 DEF Recurs

(***************************************************************************)
(* Induction up to a bound.                                                *)
(***************************************************************************)
LEMMA InductUpTo ==
  ASSUME NEW n \in Nat, NEW Good, 0 \in Good,
         \A m \in 0 .. n - 1 : m \in Good => m + 1 \in Good
  PROVE  \A m \in 0 .. n : m \in Good
<1> DEFINE G == {m \in Nat : m <= n => m \in Good}
<1>0. \A m \in Nat : m \in G <=> (m <= n => m \in Good)
  OBVIOUS
<1>1. 0 \in G /\ G \subseteq Nat
  OBVIOUS
<1> HIDE DEF G
<1>2. ASSUME NEW m \in G PROVE m + 1 \in G
  <2>1. m \in Nat /\ m + 1 \in Nat
    BY <1>1
  <2>2. ASSUME m + 1 <= n PROVE m + 1 \in Good
    <3>1. m \in 0 .. n - 1
      BY <2>1, <2>2
    <3>2. m \in Good
      BY <1>0, <2>1, <3>1
    <3> QED BY <3>1, <3>2
  <2> QED BY <1>0, <2>1, <2>2
<1>3. \A m \in Nat : m \in G
  BY <1>1, <1>2, NatInduct
<1> QED BY <1>0, <1>3

(***************************************************************************)
(* What FoldLeft makes of a sequence is the last of the values it goes     *)
(* through, place by place; h is the function it recurses by.              *)
(***************************************************************************)
FoldsIn(S, h, n, b, D) ==
  /\ h[{}] = b
  /\ \A t \in SUBSET (1 .. n) : t # {} /\ h[t \ {Max(t)}] \in S =>
       h[t] = D[<<h[t \ {Max(t)}], Max(t)>>]
Trace(f, n, b, D) ==
  /\ f[0] = b
  /\ \A j \in 1 .. n : f[j] = D[<<f[j - 1], j>>]
EndsTrace(f, h, n, b, D) == Trace(f, n, b, D) /\ h[1 .. n] = f[n]

THEOREM FoldTrace ==
  ASSUME NEW S, NEW b \in S, NEW n \in Nat, NEW D \in [S \X (1 .. n) -> S],
         NEW h, FoldsIn(S, h, n, b, D)
  PROVE  \E f \in [0 .. n -> S] : EndsTrace(f, h, n, b, D)
<1>0. /\ h[{}] = b
      /\ \A t \in SUBSET (1 .. n) : t # {} /\ h[t \ {Max(t)}] \in S =>
           h[t] = D[<<h[t \ {Max(t)}], Max(t)>>]
  BY DEF FoldsIn
<1> DEFINE f == [j \in 0 .. n |-> h[1 .. j]]
           Good == {j \in 0 .. n : /\ f[j] \in S
                                   /\ j # 0 => f[j] = D[<<f[j - 1], j>>]}
<1>1. f[0] = b
  <2>1. 0 \in 0 .. n /\ 1 .. 0 = {}
    OBVIOUS
  <2> QED BY <1>0, <2>1
<1>2. 0 \in Good
  BY <1>1
<1>3. ASSUME NEW m \in 0 .. n - 1, m \in Good
      PROVE  m + 1 \in Good
  <2>1. m + 1 \in Nat \ {0} /\ m + 1 \in 0 .. n /\ m \in 0 .. n /\ m + 1 \in 1 .. n
    OBVIOUS
  <2>2. Max(1 .. m + 1) = m + 1 /\ (1 .. m + 1) \ {m + 1} = 1 .. (m + 1) - 1
    BY <2>1, MaxOfPrefix
  <2>3. (m + 1) - 1 = m
    BY <2>1
  <2>4. 1 .. m + 1 \in SUBSET (1 .. n) /\ 1 .. m + 1 # {}
    <3>1. \A y \in 1 .. m + 1 : y \in 1 .. n
      BY <2>1
    <3>2. m + 1 \in 1 .. m + 1
      BY <2>1
    <3> QED BY <3>1, <3>2
  <2>5. f[m] = h[1 .. m] /\ f[m + 1] = h[1 .. m + 1] /\ f[m] \in S
    BY <1>3, <2>1
  <2> HIDE DEF f
  <2>6. f[m + 1] = D[<<f[m], m + 1>>]
    BY <1>0, <2>2, <2>3, <2>4, <2>5
  <2>7. <<f[m], m + 1>> \in S \X (1 .. n)
    BY <2>1, <2>5
  <2>8. f[m + 1] \in S
    BY <2>6, <2>7
  <2> QED BY <2>1, <2>3, <2>6, <2>8
<1>4. \A m \in 0 .. n : m \in Good
  <2> HIDE DEF Good
  <2> QED BY <1>2, <1>3, InductUpTo
<1>5. f \in [0 .. n -> S]
  BY <1>4
<1>6. \A j \in 1 .. n : f[j] = D[<<f[j - 1], j>>]
  <2>1. \A j \in 1 .. n : j \in 0 .. n /\ j # 0
    OBVIOUS
  <2> QED BY <1>4, <2>1
<1>7. h[1 .. n] = f[n]
  OBVIOUS
<1> HIDE DEF f
<1> QED BY <1>1, <1>5, <1>6, <1>7 DEF Trace, EndsTrace
=============================================================================
