---------------------------- MODULE ProgramProofs ----------------------------
(***************************************************************************)
(* Theorems about Program, for every set of files, strings and exported    *)
(* symbols and every size of pages and of the window: what a program finds *)
(* on its stack, what exec_process is given, and what a module is when its *)
(* init function is called; and about Kmalloc, from which the loaders have *)
(* their headers and mappings, for every page size, window and set of      *)
(* sizes.                                                                  *)
(***************************************************************************)
EXTENDS Program, Kmalloc, Inductions, FiniteSetTheorems

-----------------------------------------------------------------------------
(***************************************************************************)
(* Sums of lengths, as FoldLeft makes them.                                *)
(***************************************************************************)
SumsOf(list, f) ==
  /\ f \in [0 .. Len(list) -> Nat] /\ f[0] = 0
  /\ \A j \in 1 .. Len(list) : f[j] = f[j - 1] + list[j]

Added(list) ==
  LET h == CHOOSE g : g = [t \in SUBSET (DOMAIN list) |->
                             IF t = {} THEN 0
                             ELSE g[t \ {Max(t)}] + list[Max(t)]]
  IN  h[DOMAIN list]

LEMMA SumTrace ==
  ASSUME NEW es \in Seq(Nat)
  PROVE  \E f : SumsOf(es, f) /\ Added(es) = f[Len(es)]
<1> DEFINE n == Len(es)
           D == [p \in Nat \X (1 .. n) |-> p[1] + es[p[2]]]
           IsFold(h) == h = [t \in SUBSET (DOMAIN es) |->
                               IF t = {} THEN 0
                               ELSE h[t \ {Max(t)}] + es[Max(t)]]
           h == CHOOSE x : IsFold(x)
<1>1. n \in Nat /\ DOMAIN es = 1 .. n /\ \A j \in 1 .. n : es[j] \in Nat
  OBVIOUS
<1>2. D \in [Nat \X (1 .. n) -> Nat] /\ 0 \in Nat
  BY <1>1
<1>3. PICK g \in [SUBSET (1 .. n) -> Nat] : FoldedBy(g, n, 0, D)
  <2> HIDE DEF D, n
  <2> QED BY <1>1, <1>2, FoldExists
<1>4. ASSUME NEW g1, NEW t \in SUBSET (1 .. n), t # {}, g1[t \ {Max(t)}] \in Nat
      PROVE  g1[t \ {Max(t)}] + es[Max(t)] = D[<<g1[t \ {Max(t)}], Max(t)>>]
  <2>1. Max(t) \in 1 .. n
    <3> HIDE DEF n
    <3> QED BY <1>1, <1>4, MaxOfPlaces
  <2> QED BY <1>4, <2>1
<1>5. IsFold(g)
  <2>1. ASSUME NEW t \in SUBSET (1 .. n)
        PROVE  g[t] = IF t = {} THEN 0 ELSE g[t \ {Max(t)}] + es[Max(t)]
    <3>1. CASE t = {}
      BY <1>3, <3>1 DEF FoldedBy
    <3>2. CASE t # {}
      <4> HIDE DEF D, n
      <4>1. t \ {Max(t)} \in SUBSET (1 .. n)
        OBVIOUS
      <4>2. g[t \ {Max(t)}] \in Nat
        BY <1>3, <4>1
      <4>3. g[t] = D[<<g[t \ {Max(t)}], Max(t)>>]
        BY <1>3, <3>2 DEF FoldedBy
      <4>4. g[t \ {Max(t)}] + es[Max(t)] = D[<<g[t \ {Max(t)}], Max(t)>>]
        BY <1>4, <3>2, <4>2
      <4> QED BY <3>2, <4>3, <4>4
    <3> QED BY <3>1, <3>2
  <2> HIDE DEF n
  <2> QED BY <1>1, <1>3, <2>1
<1>6. IsFold(h)
  <2> HIDE DEF IsFold
  <2> QED BY <1>5
<1>7. Added(es) = h[DOMAIN es]
  BY DEF Added
<1>8. FoldsIn(Nat, h, n, 0, D)
  <2> HIDE DEF h, D, n
  <2>1. h[{}] = 0
    <3>1. {} \in SUBSET (DOMAIN es)
      OBVIOUS
    <3> QED BY <1>6, <3>1
  <2>2. ASSUME NEW t \in SUBSET (1 .. n), t # {}, h[t \ {Max(t)}] \in Nat
        PROVE  h[t] = D[<<h[t \ {Max(t)}], Max(t)>>]
    <3>1. h[t] = h[t \ {Max(t)}] + es[Max(t)]
      BY <1>1, <1>6, <2>2
    <3> QED BY <1>4, <2>2, <3>1
  <2> QED BY <2>1, <2>2 DEF FoldsIn
<1>9. PICK f \in [0 .. n -> Nat] : EndsTrace(f, h, n, 0, D)
  <2> HIDE DEF h, D, n
  <2>1. n \in Nat /\ 0 \in Nat
    BY <1>1
  <2> QED BY <2>1, <1>2, <1>8, FoldTrace
<1>10. SumsOf(es, f)
  <2>1. ASSUME NEW j \in 1 .. n PROVE f[j] = f[j - 1] + es[j]
    <3> HIDE DEF n, D, h
    <3>1. j - 1 \in 0 .. n /\ f[j - 1] \in Nat
      BY <1>1, <1>9
    <3> USE DEF D
    <3>2. f[j] = D[<<f[j - 1], j>>]
      BY <1>9 DEF EndsTrace, Trace
    <3> QED BY <3>1, <3>2
  <2> QED BY <1>9, <2>1 DEF EndsTrace, Trace, SumsOf
<1> QED BY <1>1, <1>7, <1>9, <1>10 DEF EndsTrace

\* There is one way to add up a list, and of its beginning it is the same.
LEMMA SumsUnique ==
  ASSUME NEW list \in Seq(Nat), NEW f, NEW g, NEW n \in 0 .. Len(list),
         SumsOf(list, f), SumsOf(SubSeq(list, 1, n), g)
  PROVE  \A j \in 0 .. n : f[j] = g[j]
<1>1. n \in Nat /\ n <= Len(list) /\ Len(list) \in Nat
  OBVIOUS
<1>2. /\ Len(SubSeq(list, 1, n)) = n
      /\ \A j \in 1 .. n : SubSeq(list, 1, n)[j] = list[j]
  BY <1>1, StartOf
<1> DEFINE Good == {j \in 0 .. n : f[j] = g[j]}
<1>3. 0 \in Good
  BY <1>1 DEF SumsOf
<1>4. ASSUME NEW m \in 0 .. n - 1, m \in Good
      PROVE  m + 1 \in Good
  <2>1. m + 1 \in 1 .. n /\ m + 1 \in 1 .. Len(list) /\ (m + 1) - 1 = m /\ m + 1 \in 0 .. n
    BY <1>1
  <2>2. f[m + 1] = f[m] + list[m + 1]
    BY <2>1 DEF SumsOf
  <2>3. g[m + 1] = g[m] + list[m + 1]
    BY <1>2, <2>1 DEF SumsOf
  <2> QED BY <1>4, <2>1, <2>2, <2>3
<1>5. \A m \in 0 .. n : m \in Good
  <2> HIDE DEF Good
  <2> QED BY <1>1, <1>3, <1>4, InductUpTo
<1> QED BY <1>5

Sums(list) == CHOOSE f : SumsOf(list, f)

LEMMA SumsExist ==
  ASSUME NEW list \in Seq(Nat)
  PROVE  /\ SumsOf(list, Sums(list)) /\ Added(list) = Sums(list)[Len(list)]
         /\ Len(list) \in Nat
<1>1. PICK f : SumsOf(list, f) /\ Added(list) = f[Len(list)]
  BY SumTrace
<1>2. SumsOf(list, Sums(list))
  BY <1>1 DEF Sums
<1>3. SubSeq(list, 1, Len(list)) = list /\ Len(list) \in 0 .. Len(list) /\ Len(list) \in Nat
  OBVIOUS
<1>4. f[Len(list)] = Sums(list)[Len(list)]
  BY <1>1, <1>2, <1>3, SumsUnique
<1> QED BY <1>1, <1>2, <1>3, <1>4

LEMMA TotalOf ==
  ASSUME NEW list \in Seq(Nat)
  PROVE  /\ U!Total(list) = Sums(list)[Len(list)]
         /\ \A n \in 1 .. Len(list) : U!Before(list, n) = Sums(list)[n - 1]
<1>1. \A l : U!Total(l) = Added(l)
  BY Zenon DEF U!Total, Added, U!FoldLeft, U!MapThenFoldSet, U!Max, Max
<1>2. ASSUME NEW n \in 1 .. Len(list)
      PROVE  U!Before(list, n) = Sums(list)[n - 1]
  <2>1. Len(list) \in Nat /\ n - 1 \in 0 .. Len(list) /\ n - 1 \in Nat /\ n - 1 <= Len(list)
    OBVIOUS
  <2> DEFINE b == SubSeq(list, 1, n - 1)
  <2>2. b \in Seq(Nat) /\ Len(b) = n - 1
    BY <2>1, StartOf
  <2>3. /\ SumsOf(b, Sums(b)) /\ Added(b) = Sums(b)[n - 1]
    BY <2>2, SumsExist
  <2>4. SumsOf(list, Sums(list))
    BY SumsExist
  <2>5. Sums(list)[n - 1] = Sums(b)[n - 1]
    BY <2>1, <2>3, <2>4, SumsUnique
  <2> QED BY <1>1, <2>3, <2>5 DEF U!Before
<1> QED BY <1>1, <1>2, SumsExist

\* The sums grow, and every place is in one of the parts.
LEMMA SumsGrow ==
  ASSUME NEW list \in Seq(Nat)
  PROVE  \A n \in 0 .. Len(list) : \A m \in 0 .. n : Sums(list)[m] <= Sums(list)[n]
<1> DEFINE f == Sums(list)
           Good == {n \in 0 .. Len(list) : \A m \in 0 .. n : f[m] <= f[n]}
<1>1. SumsOf(list, f) /\ Len(list) \in Nat
  BY SumsExist
<1> HIDE DEF f
<1>2. \A n \in 0 .. Len(list) : f[n] \in Nat
  BY <1>1 DEF SumsOf
<1>3. 0 \in Good
  BY <1>1, <1>2
<1>4. ASSUME NEW n \in 0 .. Len(list) - 1, n \in Good
      PROVE  n + 1 \in Good
  <2>1. n + 1 \in 1 .. Len(list) /\ (n + 1) - 1 = n /\ n + 1 \in 0 .. Len(list)
    BY <1>1
  <2>2. f[n + 1] = f[n] + list[n + 1] /\ list[n + 1] \in Nat
    BY <1>1, <2>1 DEF SumsOf
  <2>3. ASSUME NEW m \in 0 .. n + 1
        PROVE  f[m] <= f[n + 1]
    <3>1. CASE m = n + 1
      BY <1>2, <2>1, <3>1
    <3>2. CASE m # n + 1
      <4>1. m \in 0 .. n /\ m \in 0 .. Len(list)
        BY <1>1, <3>2
      <4>2. f[m] <= f[n]
        BY <1>4, <4>1
      <4> QED BY <1>2, <2>1, <2>2, <4>1, <4>2
    <3> QED BY <3>1, <3>2
  <2> QED BY <2>1, <2>3
<1>5. \A n \in 0 .. Len(list) : n \in Good
  <2> HIDE DEF Good
  <2> QED BY <1>1, <1>3, <1>4, InductUpTo
<1> QED BY <1>5 DEF f

IsPart(list, x, k) ==
  k \in 1 .. Len(list) /\ Sums(list)[k - 1] <= x /\ x < Sums(list)[k]
Part(list, x) == CHOOSE k : IsPart(list, x, k)

LEMMA PartIs ==
  ASSUME NEW list \in Seq(Nat), NEW x \in Nat, NEW k, IsPart(list, x, k)
  PROVE  Part(list, x) = k
<1>1. IsPart(list, x, Part(list, x))
  BY DEF Part
<1> DEFINE m == Part(list, x)
<1> HIDE DEF m
<1>2. Len(list) \in Nat /\ SumsOf(list, Sums(list))
  BY SumsExist
<1>3. \A p \in 0 .. Len(list) : Sums(list)[p] \in Nat
  BY <1>2 DEF SumsOf
<1>4. \A p, q \in 1 .. Len(list) : p < q => Sums(list)[p] <= Sums(list)[q - 1]
  <2> SUFFICES ASSUME NEW p \in 1 .. Len(list), NEW q \in 1 .. Len(list), p < q
               PROVE  Sums(list)[p] <= Sums(list)[q - 1]
    OBVIOUS
  <2>1. q - 1 \in 0 .. Len(list) /\ p \in 0 .. q - 1
    BY <1>2
  <2> QED BY <2>1, SumsGrow
<1>5. ASSUME NEW p, NEW q, IsPart(list, x, p), IsPart(list, x, q), p < q
      PROVE  FALSE
  <2>1. p \in 1 .. Len(list) /\ q \in 1 .. Len(list)
    BY <1>5 DEF IsPart
  <2>2. p \in 0 .. Len(list) /\ q - 1 \in 0 .. Len(list)
    BY <1>2, <2>1
  <2>3. Sums(list)[p] \in Nat /\ Sums(list)[q - 1] \in Nat
    BY <1>3, <2>2
  <2>4. x < Sums(list)[p] /\ Sums(list)[p] <= Sums(list)[q - 1] /\ Sums(list)[q - 1] <= x
    BY <1>4, <1>5, <2>1 DEF IsPart
  <2> QED BY <2>3, <2>4
<1>6. ~ (m < k) /\ ~ (k < m)
  BY <1>1, <1>5 DEF m
<1>7. m \in Nat /\ k \in Nat
  BY <1>1, <1>2 DEF m, IsPart
<1>8. m = k
  BY <1>6, <1>7
<1> QED BY <1>8 DEF m

-----------------------------------------------------------------------------
(***************************************************************************)
(* The stack as do_exec and exec_process lay it out: the words from        *)
(* user_stack on, the strings of the environment, and those of the         *)
(* arguments, up to USER_STACK_TOP.                                        *)
(***************************************************************************)
Page == PAGE_SIZE * WORD
Top == U!USER_STACK_TOP
Words == 5 + Len(argv) + Len(envv)

StackTyped == argv \in Seq(Nat) /\ envv \in Seq(Nat)

LEMMA StackConstants ==
  /\ WORD \in Nat \ {0} /\ PAGE_SIZE \in Nat \ {0}
  /\ Page \in Nat /\ Page > 2 * WORD /\ TOP_PAGE \in Nat
  /\ Top = (TOP_PAGE + 1) * Page - 1 /\ Top \in Nat
<1>1. /\ WORD \in Nat \ {0} /\ PAGE_SIZE \in Nat \ {0}
      /\ Page > 2 * WORD /\ TOP_PAGE \in Nat
  BY ProgramAssumption DEF L!Constants, U!Constants, Page
<1>2. Page \in Nat
  BY <1>1 DEF Page
<1>3. Top = (TOP_PAGE + 1) * Page - 1
  BY DEF Top, U!USER_STACK_TOP, Page
<1>4. (TOP_PAGE + 1) * Page \in Nat /\ (TOP_PAGE + 1) * Page >= Page
  BY <1>1, <1>2
<1> QED BY <1>1, <1>2, <1>3, <1>4

LEMMA ListsTyped == \A list \in U!Lists : list \in Seq(Nat)
<1> SUFFICES ASSUME NEW list \in U!Lists PROVE list \in Seq(Nat)
  OBVIOUS
<1>1. PICK n \in 0 .. MAX_STRINGS : list \in [1 .. n -> Strings]
  BY DEF U!Lists
<1>2. Strings \subseteq Nat /\ n \in Nat
  BY ProgramAssumption DEF U!Constants
<1>3. list \in [1 .. n -> Nat]
  BY <1>1, <1>2
<1> QED BY <1>2, <1>3

LEMMA Layout ==
  ASSUME StackTyped
  PROVE  /\ Len(argv) \in Nat /\ Len(envv) \in Nat
         /\ Sums(argv)[Len(argv)] \in Nat /\ Sums(envv)[Len(envv)] \in Nat
         /\ U!argvs \in Int /\ U!envvs \in Int /\ U!user_stack \in Int
         /\ U!argvs = Top - Sums(argv)[Len(argv)]
         /\ U!envvs = U!argvs - Sums(envv)[Len(envv)]
         /\ U!user_stack = U!envvs - WORD * Words
         /\ U!user_stack < U!envvs
<1>0. ASSUME NEW list \in Seq(Nat)
      PROVE  Len(list) \in Nat /\ Sums(list)[Len(list)] \in Nat
  <2>1. SumsOf(list, Sums(list)) /\ Len(list) \in 0 .. Len(list)
    BY SumsExist
  <2> QED BY <2>1 DEF SumsOf
<1>1. /\ Len(argv) \in Nat /\ Len(envv) \in Nat
      /\ Sums(argv)[Len(argv)] \in Nat /\ Sums(envv)[Len(envv)] \in Nat
  BY <1>0 DEF StackTyped
<1>2. U!arglen = Sums(argv)[Len(argv)] /\ U!envlen = Sums(envv)[Len(envv)]
  BY TotalOf DEF StackTyped, U!arglen, U!envlen
<1>3. /\ U!argvs = Top - Sums(argv)[Len(argv)]
      /\ U!envvs = U!argvs - Sums(envv)[Len(envv)]
  BY <1>2 DEF U!argvs, U!envvs, Top
<1>4. U!argvs \in Int /\ U!envvs \in Int
  BY <1>1, <1>3, StackConstants
<1>5. U!user_stack = U!envvs - 2 * WORD - WORD * (1 + Len(envv))
                       - WORD * (1 + Len(argv)) - WORD
  BY DEF U!user_stack, U!sizeof_auxv
<1>6. ASSUME NEW e \in Int, NEW w \in Int, NEW x \in Int, NEW y \in Int
      PROVE  e - 2 * w - w * (1 + y) - w * (1 + x) - w = e - w * (5 + x + y)
  OBVIOUS
<1>7. U!user_stack = U!envvs - WORD * Words
  BY <1>1, <1>4, <1>5, <1>6, StackConstants DEF Words
<1>8. WORD * Words \in Nat /\ WORD * Words > 0
  <2>1. ASSUME NEW w \in Nat \ {0}, NEW x \in Nat \ {0} PROVE w * x \in Nat /\ w * x > 0
    OBVIOUS
  <2>2. Words \in Nat \ {0}
    BY <1>1 DEF Words
  <2> QED BY <2>1, <2>2, StackConstants
<1>9. U!user_stack \in Int /\ U!user_stack < U!envvs
  BY <1>4, <1>7, <1>8
<1> QED BY <1>1, <1>3, <1>4, <1>7, <1>9

WordAt(k) ==
  IF k = 0 THEN Len(argv)
  ELSE IF k <= Len(argv) THEN U!argvs + Sums(argv)[k - 1]
  ELSE IF k = 1 + Len(argv) THEN 0
  ELSE IF k <= 1 + Len(argv) + Len(envv)
  THEN U!envvs + Sums(envv)[k - (1 + Len(argv)) - 1]
  ELSE 0

StringByte(what, list, x) ==
  <<what, Part(list, x), x - Sums(list)[Part(list, x) - 1] + 1>>

\* The byte that belongs at an address.
ByteAt(a) ==
  IF a < U!envvs
  THEN <<"word", WordAt((a - U!user_stack) \div WORD), ((a - U!user_stack) % WORD) + 1>>
  ELSE IF a < U!argvs THEN StringByte("env", envv, a - U!envvs)
  ELSE StringByte("arg", argv, a - U!argvs)

LEMMA SameLayout ==
  ASSUME argv' = argv, envv' = envv
  PROVE  /\ U!user_stack' = U!user_stack /\ U!argvs' = U!argvs /\ U!envvs' = U!envvs
         /\ \A a : ByteAt(a)' = ByteAt(a)
         /\ Words' = Words /\ U!StackPages' = U!StackPages
<1>1. U!user_stack' = U!user_stack /\ U!argvs' = U!argvs /\ U!envvs' = U!envvs
  BY DEF U!user_stack, U!argvs, U!envvs, U!arglen, U!envlen
<1>2. \A k : WordAt(k)' = WordAt(k)
  BY <1>1 DEF WordAt
<1>3. \A a : ByteAt(a)' = ByteAt(a)
  BY <1>1, <1>2 DEF ByteAt
<1>4. Words' = Words
  BY DEF Words
<1>5. U!StackPages' = U!StackPages
  BY <1>1 DEF U!StackPages, U!initial_stack_size
<1> QED BY <1>1, <1>3, <1>4, <1>5

LEMMA DivideOnce ==
  ASSUME NEW d \in Nat \ {0}, NEW q \in Int, NEW r \in 0 .. d - 1
  PROVE  (d * q + r) \div d = q /\ (d * q + r) % d = r
  OBVIOUS

\* What is written at an address.
LEMMA AtIs ==
  ASSUME NEW a \in Int, NEW n \in Nat, NEW f, f = [b \in 1 .. n |-> f[b]]
  PROVE  /\ DOMAIN U!At(a, f) = a .. a + n - 1
         /\ \A x \in a .. a + n - 1 : U!At(a, f)[x] = f[x - a + 1]
<1>1. Len(f) = n
  OBVIOUS
<1>2. U!At(a, f) = [x \in a .. a + n - 1 |-> f[x - a + 1]]
  BY <1>1 DEF U!At
<1> QED BY <1>2

LEMMA WordIs ==
  ASSUME StackTyped, NEW k \in 0 .. Words - 1, NEW v, v = WordAt(k)
  PROVE  /\ DOMAIN U!Word(k, v) = U!user_stack + WORD * k .. (U!user_stack + WORD * (k + 1)) - 1
         /\ \A a \in DOMAIN U!Word(k, v) :
              /\ a \in U!user_stack .. U!envvs - 1
              /\ U!Word(k, v)[a] = ByteAt(a)
<1> DEFINE b == U!user_stack + WORD * k
           f == [x \in 1 .. WORD |-> <<"word", v, x>>]
<1>1. /\ WORD \in Nat \ {0} /\ U!user_stack \in Int /\ Words \in Nat /\ k \in Nat
      /\ k <= Words - 1 /\ U!envvs = U!user_stack + WORD * Words
  <2>1. Words \in Nat
    BY Layout DEF Words
  <2>2. WORD * Words \in Int
    BY <2>1, StackConstants
  <2> QED BY <2>1, <2>2, Layout, StackConstants
<1>2. WORD * k \in Nat /\ WORD * (k + 1) = WORD * k + WORD /\ WORD * (k + 1) <= WORD * Words
  <2>1. ASSUME NEW w \in Nat, NEW x \in Nat, NEW y \in Nat, x + 1 <= y
        PROVE  w * x \in Nat /\ w * (x + 1) = w * x + w /\ w * (x + 1) <= w * y
    <3>1. w * (x + 1) = w * x + w /\ w * x \in Nat /\ w * y \in Nat
      OBVIOUS
    <3>2. PICK z \in Nat : y = x + 1 + z
      <4>1. y - (x + 1) \in Nat /\ y = x + 1 + (y - (x + 1))
        BY <2>1
      <4> QED BY <4>1
    <3>3. w * y = w * (x + 1) + w * z /\ w * z \in Nat /\ w * (x + 1) \in Nat
      BY <3>2
    <3> QED BY <3>1, <3>3
  <2> QED BY <1>1, <2>1
<1>3. b \in Int /\ b + WORD - 1 = (U!user_stack + WORD * (k + 1)) - 1 /\ b >= U!user_stack
  BY <1>1, <1>2
<1>4. WORD * Words \in Nat
  BY <1>1
<1>5. /\ DOMAIN U!At(b, f) = b .. b + WORD - 1
      /\ \A x \in b .. b + WORD - 1 : U!At(b, f)[x] = f[x - b + 1]
  <2>1. f = [x \in 1 .. WORD |-> f[x]]
    OBVIOUS
  <2> HIDE DEF f, b
  <2> QED BY <1>1, <1>3, <2>1, AtIs
<1>6. U!Word(k, v) = U!At(b, f)
  BY DEF U!Word
<1>7. ASSUME NEW a \in b .. b + WORD - 1
      PROVE  /\ a \in U!user_stack .. U!envvs - 1
             /\ U!At(b, f)[a] = ByteAt(a)
  <2> DEFINE r == a - b
  <2>1. a \in Int /\ r \in 0 .. WORD - 1 /\ a - U!user_stack = WORD * k + r
        /\ r + 1 \in 1 .. WORD
    BY <1>1, <1>2, <1>3
  <2> HIDE DEF r
  <2>2. (a - U!user_stack) \div WORD = k /\ (a - U!user_stack) % WORD = r
    BY <1>1, <2>1, DivideOnce
  <2>3. a \in U!user_stack .. U!envvs - 1
    BY <1>1, <1>2, <1>3, <1>4, <2>1
  <2>4. a < U!envvs
    BY <1>1, <1>4, <2>3
  <2>5. ByteAt(a) = <<"word", v, r + 1>>
    BY <2>2, <2>4 DEF ByteAt
  <2>6. U!At(b, f)[a] = f[r + 1]
    BY <1>5 DEF r
  <2>7. f[r + 1] = <<"word", v, r + 1>>
    BY <2>1
  <2> QED BY <2>3, <2>5, <2>6, <2>7
<1>8. b = U!user_stack + WORD * k
  OBVIOUS
<1> HIDE DEF b, f
<1> QED BY <1>3, <1>5, <1>6, <1>7, <1>8

\* A string of a list at its place in the list's part of the stack.
LEMMA StringIs ==
  ASSUME NEW list \in Seq(Nat), NEW base \in Int, NEW what, NEW k \in 1 .. Len(list)
  PROVE  /\ \A x \in base + Sums(list)[k - 1] .. (base + Sums(list)[k]) - 1 :
              x \in DOMAIN U!String(what, k, list[k], base + Sums(list)[k - 1])
         /\ \A x \in DOMAIN U!String(what, k, list[k], base + Sums(list)[k - 1]) :
              /\ x \in base .. (base + Sums(list)[Len(list)]) - 1
              /\ U!String(what, k, list[k], base + Sums(list)[k - 1])[x]
                   = StringByte(what, list, x - base)
<1> DEFINE a == base + Sums(list)[k - 1]
           f == [x \in 1 .. list[k] |-> <<what, k, x>>]
           s == U!String(what, k, list[k], a)
<1>1. /\ Len(list) \in Nat /\ list[k] \in Nat
      /\ Sums(list)[k - 1] \in Nat /\ Sums(list)[k] \in Nat
      /\ Sums(list)[Len(list)] \in Nat
      /\ Sums(list)[k] = Sums(list)[k - 1] + list[k]
      /\ Sums(list)[k] <= Sums(list)[Len(list)]
  <2>1. SumsOf(list, Sums(list)) /\ Len(list) \in Nat
    BY SumsExist
  <2>2. /\ k - 1 \in 0 .. Len(list) /\ k \in 0 .. Len(list)
        /\ Len(list) \in 0 .. Len(list)
    BY <2>1
  <2>3. list[k] \in Nat
    OBVIOUS
  <2>4. /\ Sums(list)[k - 1] \in Nat /\ Sums(list)[k] \in Nat
        /\ Sums(list)[Len(list)] \in Nat
        /\ Sums(list)[k] = Sums(list)[k - 1] + list[k]
    BY <2>1, <2>2 DEF SumsOf
  <2>5. Sums(list)[k] <= Sums(list)[Len(list)]
    BY <2>1, <2>2, SumsGrow
  <2> QED BY <2>1, <2>3, <2>4, <2>5
<1>2. /\ a \in Int /\ a + list[k] - 1 = (base + Sums(list)[k]) - 1
      /\ a = base + Sums(list)[k - 1]
  BY <1>1
<1>3. s = U!At(a, f)
  BY DEF U!String
<1>4. /\ DOMAIN U!At(a, f) = a .. a + list[k] - 1
      /\ \A x \in a .. a + list[k] - 1 : U!At(a, f)[x] = f[x - a + 1]
  <2>1. f = [x \in 1 .. list[k] |-> f[x]]
    OBVIOUS
  <2>2. a \in Int /\ list[k] \in Nat
    BY <1>1, <1>2
  <2> HIDE DEF f, a
  <2> QED BY <2>1, <2>2, AtIs
<1>5. ASSUME NEW x \in a .. a + list[k] - 1
      PROVE  /\ x \in base .. (base + Sums(list)[Len(list)]) - 1
             /\ U!At(a, f)[x] = StringByte(what, list, x - base)
  <2>1. x \in Int /\ x - base \in Nat /\ x - a + 1 \in 1 .. list[k]
        /\ Sums(list)[k - 1] <= x - base /\ x - base < Sums(list)[k]
    <3>1. ASSUME NEW p \in Nat, NEW l \in Nat, NEW y \in base + p .. base + p + l - 1
          PROVE  /\ y \in Int /\ y - base \in Nat /\ y - (base + p) + 1 \in 1 .. l
                 /\ p <= y - base /\ y - base < p + l
      OBVIOUS
    <3> QED BY <1>1, <3>1
  <2>2. Part(list, x - base) = k
    BY <2>1, PartIs DEF IsPart
  <2>3. StringByte(what, list, x - base) = <<what, k, x - base - Sums(list)[k - 1] + 1>>
    BY <2>2 DEF StringByte
  <2>4. x - a + 1 = x - base - Sums(list)[k - 1] + 1
    <3>1. ASSUME NEW p \in Nat, NEW y \in Int
          PROVE  y - (base + p) + 1 = y - base - p + 1
      OBVIOUS
    <3> QED BY <1>1, <2>1, <3>1
  <2>5. U!At(a, f)[x] = <<what, k, x - a + 1>>
    BY <1>4, <2>1
  <2>6. x \in base .. (base + Sums(list)[Len(list)]) - 1
    <3>1. ASSUME NEW y \in Int, y - base \in Nat, NEW q \in Nat, NEW t \in Nat,
                 y - base < q, q <= t
          PROVE  y \in base .. (base + t) - 1
      BY <3>1
    <3> QED BY <1>1, <2>1, <3>1
  <2> QED BY <2>3, <2>4, <2>5, <2>6
<1> HIDE DEF a, f
<1>6. /\ DOMAIN s = a .. (base + Sums(list)[k]) - 1
      /\ \A x \in DOMAIN s :
           /\ x \in base .. (base + Sums(list)[Len(list)]) - 1
           /\ s[x] = StringByte(what, list, x - base)
  BY <1>2, <1>3, <1>4, <1>5
<1> QED BY <1>6 DEF a

-----------------------------------------------------------------------------
(***************************************************************************)
(* The invariant of the stack: what was written is what belongs there, in  *)
(* pages that are there, and as much of it as the code has come to.        *)
(***************************************************************************)
Covered(there, lo, hi) == \A a \in lo .. hi - 1 : a \in there

StackImage ==
  \A a \in DOMAIN stack_mem :
    /\ a \in U!user_stack .. Top - 1 /\ a \div Page \in mapped
    /\ stack_mem[a] = ByteAt(a)

FirstPage == U!user_stack \div Page

Laid ==
  /\ stack_stage \in {"map", "argc"} =>
       stack_i = 1 /\ written = 0 /\ DOMAIN stack_mem = {}
  /\ stack_stage = "argv" =>
       /\ stack_i \in 1 .. Len(argv) + 1 /\ written = Sums(argv)[stack_i - 1]
       /\ Covered(DOMAIN stack_mem, U!user_stack, U!user_stack + WORD * stack_i)
       /\ Covered(DOMAIN stack_mem, U!argvs, U!argvs + written)
  /\ stack_stage = "envv" =>
       /\ stack_i \in 1 .. Len(envv) + 1 /\ written = Sums(envv)[stack_i - 1]
       /\ Covered(DOMAIN stack_mem, U!user_stack, U!user_stack + WORD * (1 + Len(argv) + stack_i))
       /\ Covered(DOMAIN stack_mem, U!argvs, Top)
          /\ Covered(DOMAIN stack_mem, U!envvs, U!envvs + written)
  /\ stack_stage = "auxv" =>
       /\ Covered(DOMAIN stack_mem, U!user_stack, U!user_stack + WORD * (3 + Len(argv) + Len(envv)))
       /\ Covered(DOMAIN stack_mem, U!envvs, Top)
  /\ stack_stage \in {"regs", "run", "wild"} => Covered(DOMAIN stack_mem, U!user_stack, Top)

PagesMapped ==
  stack_stage # "map" =>
    \E n \in 0 .. U!StackPages : mapped = FirstPage .. FirstPage + n - 1

StackInv ==
  /\ argv \in U!Lists /\ envv \in U!Lists
  /\ StackImage /\ Laid /\ PagesMapped /\ U!PanicsExplained

LEMMA InvTyped == ASSUME StackInv PROVE StackTyped
BY ListsTyped DEF StackInv, StackTyped

LEMMA TimesGrows ==
  ASSUME NEW w \in Nat, NEW x \in Int, NEW y \in Int, x <= y
  PROVE  w * x \in Int /\ w * y \in Int /\ w * x <= w * y
<1>1. PICK z \in Nat : y = x + z
  <2>1. y - x \in Nat /\ y = x + (y - x)
    OBVIOUS
  <2> QED BY <2>1
<1>2. w * y = w * x + w * z /\ w * z \in Nat /\ w * x \in Int
  BY <1>1
<1> QED BY <1>2

LEMMA DivideIs ==
  ASSUME NEW d \in Nat \ {0}, NEW a \in Int
  PROVE  /\ a \div d \in Int /\ a % d \in 0 .. d - 1
         /\ a = d * (a \div d) + (a % d)
OBVIOUS

\* The pages from a first one on that a size makes up for reach to the end,
\* if the end is one byte before that of a page, and the size no multiple.
LEMMA PagesReach ==
  ASSUME NEW p \in Nat \ {0}, NEW n \in Nat, NEW b \in Int, NEW size \in Nat,
         b + size = n * p - 1, size % p # 0, NEW a \in b .. b + size - 1
  PROVE  a \div p \in b \div p .. (b \div p) + ((size + p - 1) \div p) - 1
<1> DEFINE f == b \div p
           r == b % p
           c == n - f - 1
           g == a \div p
           q == a % p
<1>1. f \in Int /\ r \in 0 .. p - 1 /\ b = p * f + r
  BY DivideIs
<1>2. g \in Int /\ q \in 0 .. p - 1 /\ a = p * g + q /\ a \in Int
  BY DivideIs
<1> HIDE DEF f, r, g, q
<1>3. c \in Int /\ p * n = p * c + p * f + p /\ p * n = n * p
  BY <1>1
<1>4. p * c \in Int /\ p * f \in Int /\ p * n \in Int /\ p * g \in Int
  BY <1>1, <1>2, <1>3
<1> HIDE DEF c
<1>5. size = p * c + (p - 1 - r)
  BY <1>1, <1>3, <1>4
<1>6. p - 1 - r \in 0 .. p - 1
  BY <1>1
<1>7. size % p = p - 1 - r
  BY <1>3, <1>5, <1>6, DivideOnce
<1>8. p - 2 - r \in 0 .. p - 1 /\ r \in Int
  BY <1>1, <1>7
<1>9. size + p - 1 = p * (c + 1) + (p - 2 - r) /\ c + 1 \in Int
  <2>1. p * (c + 1) = p * c + p
    BY <1>3
  <2> QED BY <1>3, <1>4, <1>5, <1>8, <2>1
<1>10. (size + p - 1) \div p = c + 1
  BY <1>8, <1>9, DivideOnce
<1>11. f <= g
  <2>1. SUFFICES ASSUME g + 1 <= f PROVE FALSE
    BY <1>1, <1>2
  <2>2. p * (g + 1) <= p * f /\ p * (g + 1) = p * g + p
    BY <1>1, <1>2, <2>1, TimesGrows
  <2> QED BY <1>1, <1>2, <1>4, <2>2
<1>12. g < n
  <2>1. SUFFICES ASSUME n <= g PROVE FALSE
    BY <1>2
  <2>2. p * n <= p * g
    BY <1>2, <2>1, TimesGrows
  <2>3. a <= n * p - 2
    BY <1>2
  <2> QED BY <1>2, <1>3, <1>4, <2>2, <2>3
<1>13. g <= f + (c + 1) - 1
  BY <1>1, <1>2, <1>12 DEF c
<1> QED BY <1>1, <1>2, <1>10, <1>11, <1>13, <1>9 DEF f, g
LEMMA PutKeeps ==
  ASSUME StackInv, stack_stage # "map", NEW bytes, NEW next, next # "panic",
         \A a \in DOMAIN bytes :
           a \in U!user_stack .. Top - 1 /\ bytes[a] = ByteAt(a),
         U!Put(bytes, next)
  PROVE  /\ argv' = argv /\ envv' = envv /\ mapped' = mapped
         /\ StackImage' /\ U!PanicsExplained'
         /\ \/ stack_stage' = "panic"
            \/ /\ stack_stage' = next
               /\ DOMAIN stack_mem' = DOMAIN bytes \union DOMAIN stack_mem
<1>1. argv' = argv /\ envv' = envv /\ mapped' = mapped
  BY DEF U!Put
<1>2. /\ U!user_stack' = U!user_stack /\ \A a : ByteAt(a)' = ByteAt(a)
      /\ U!StackPages' = U!StackPages
  BY <1>1, SameLayout
<1>3. \A a : U!Reaches(bytes) => (a \in DOMAIN bytes => a \div Page \in mapped)
  BY DEF U!Reaches, Page
<1>4. Top' = Top /\ Page' = Page
  BY DEF Top, U!USER_STACK_TOP, Page
<1>5. CASE U!Reaches(bytes)
  <2>1. stack_stage' = next /\ stack_mem' = U!Upon(bytes, stack_mem)
    BY <1>5 DEF U!Put
  <2>2. /\ DOMAIN stack_mem' = DOMAIN bytes \union DOMAIN stack_mem
        /\ \A a \in DOMAIN stack_mem' :
             stack_mem'[a] = IF a \in DOMAIN bytes THEN bytes[a] ELSE stack_mem[a]
    BY <2>1 DEF U!Upon
  <2>3. StackImage'
    <3>1. ASSUME NEW a \in DOMAIN stack_mem'
          PROVE  /\ a \in U!user_stack .. Top - 1 /\ a \div Page \in mapped
                 /\ stack_mem'[a] = ByteAt(a)
      <4>1. CASE a \in DOMAIN bytes
        BY <1>3, <1>5, <2>2, <4>1
      <4>2. CASE a \notin DOMAIN bytes
        BY <2>2, <4>2 DEF StackInv, StackImage
      <4> QED BY <4>1, <4>2
    <3> QED BY <1>1, <1>2, <1>4, <3>1 DEF StackImage
  <2>4. U!PanicsExplained'
    BY <2>1 DEF U!PanicsExplained
  <2> QED BY <1>1, <2>1, <2>2, <2>3, <2>4
<1>6. CASE ~ U!Reaches(bytes)
  <2>1. stack_stage' = "panic" /\ stack_mem' = stack_mem
    BY <1>6 DEF U!Put
  <2>2. StackImage'
    BY <1>1, <1>2, <1>4, <2>1 DEF StackInv, StackImage
  <2>3. PICK a \in U!user_stack .. Top - 1 : a \div Page \notin mapped
    BY <1>6 DEF U!Reaches, Page
  <2>4. PICK n \in 0 .. U!StackPages : mapped = FirstPage .. FirstPage + n - 1
    BY DEF StackInv, PagesMapped
  <2> DEFINE size == Top - U!user_stack
  <2>5. /\ Page \in Nat \ {0} /\ U!user_stack \in Int /\ size \in Nat
        /\ U!user_stack + size = (TOP_PAGE + 1) * Page - 1
        /\ a \in U!user_stack .. U!user_stack + size - 1 /\ TOP_PAGE + 1 \in Nat
    <3>1. U!user_stack \in Int /\ Top \in Nat /\ Page > 0 /\ Page \in Nat
          /\ TOP_PAGE + 1 \in Nat
      BY StackConstants, InvTyped, Layout
    <3>2. U!user_stack <= Top
      BY <2>3, <3>1
    <3> QED BY <3>1, <3>2, <2>3, StackConstants
  <2>6. /\ U!initial_stack_size = size
        /\ U!StackPages = (size + Page - 1) \div Page
    BY DEF U!initial_stack_size, U!StackPages, Top, Page
  <2> HIDE DEF size
  <2>7. size % Page = 0 \/ n < U!StackPages
    <3>1. SUFFICES ASSUME size % Page # 0, ~ (n < U!StackPages) PROVE FALSE
      OBVIOUS
    <3>2. U!StackPages \in Int
      BY <2>5, <2>6
    <3>3. n = U!StackPages
      BY <2>4, <3>1, <3>2
    <3>4. a \div Page \in FirstPage .. FirstPage + U!StackPages - 1
      BY <2>5, <2>6, <3>1, PagesReach DEF FirstPage
    <3> QED BY <2>3, <2>4, <3>3, <3>4
  <2>8. Cardinality(mapped) = n
    <3>1. FirstPage \in Int /\ U!StackPages \in Int
      BY <2>5, <2>6 DEF FirstPage
    <3>2. n \in Nat /\ FirstPage + n - 1 \in Int
      BY <2>4, <3>1
    <3>3. Cardinality(FirstPage .. FirstPage + n - 1)
            = IF FirstPage > FirstPage + n - 1 THEN 0 ELSE (FirstPage + n - 1) - FirstPage + 1
      BY <3>1, <3>2, FS_Interval
    <3> QED BY <2>4, <3>1, <3>2, <3>3
  <2>9. \A t : U!Cardinality(t) = Cardinality(t)
    BY Zenon DEF U!Cardinality, Cardinality
  <2>10. size % Page = 0 \/ U!RanOut
    BY <2>7, <2>8, <2>9 DEF U!RanOut
  <2>11. U!initial_stack_size' = U!initial_stack_size /\ U!RanOut' = U!RanOut
    BY <1>1, <1>2 DEF U!initial_stack_size, U!USER_STACK_TOP, U!RanOut
  <2>12. U!PanicsExplained'
    BY <2>6, <2>10, <2>11 DEF U!PanicsExplained, Page
  <2> QED BY <1>1, <2>1, <2>2, <2>12
<1> QED BY <1>5, <1>6

\* What every Put keeps, and what is left to show of it.
LEMMA PutInv ==
  ASSUME StackInv, stack_stage # "map", NEW bytes, NEW next, next # "panic",
         next # "map",
         \A a \in DOMAIN bytes :
           a \in U!user_stack .. Top - 1 /\ bytes[a] = ByteAt(a),
         U!Put(bytes, next),
         /\ stack_stage' = next /\ argv' = argv /\ envv' = envv
         /\ DOMAIN stack_mem' = DOMAIN bytes \union DOMAIN stack_mem
         => Laid'
  PROVE  StackInv'
<1>1. /\ argv' = argv /\ envv' = envv /\ mapped' = mapped
      /\ StackImage' /\ U!PanicsExplained'
      /\ \/ stack_stage' = "panic"
         \/ /\ stack_stage' = next
            /\ DOMAIN stack_mem' = DOMAIN bytes \union DOMAIN stack_mem
  BY PutKeeps
<1>2. Laid'
  <2>1. CASE stack_stage' = "panic"
    BY <2>1 DEF Laid
  <2> QED BY <1>1, <2>1
<1>3. PagesMapped'
  <2>1. U!user_stack' = U!user_stack /\ U!StackPages' = U!StackPages
    BY <1>1, SameLayout
  <2>2. FirstPage' = FirstPage
    BY <2>1 DEF FirstPage, Page
  <2> QED BY <1>1, <2>1, <2>2 DEF StackInv, PagesMapped
<1>4. argv' \in U!Lists /\ envv' \in U!Lists
  BY <1>1 DEF StackInv
<1>5. U!Lists' = U!Lists
  BY DEF U!Lists
<1> QED BY <1>1, <1>2, <1>3, <1>4, <1>5 DEF StackInv

LEMMA WordPlaces ==
  ASSUME StackTyped
  PROVE  /\ U!user_stack + WORD * 0 = U!user_stack
         /\ U!user_stack + WORD * Words = U!envvs
         /\ \A k \in Nat : U!user_stack + WORD * k \in Int
<1>1. WORD \in Nat /\ U!user_stack \in Int /\ Words \in Nat
  BY Layout, StackConstants DEF Words
<1>2. \A k \in Nat : WORD * k \in Nat
  BY <1>1
<1>3. U!user_stack = U!envvs - WORD * Words /\ U!envvs \in Int
  BY Layout
<1>4. WORD * Words \in Nat /\ WORD * 0 = 0
  BY <1>1, <1>2
<1> QED BY <1>1, <1>2, <1>3, <1>4

\* A word more.
LEMMA WordCovers ==
  ASSUME StackTyped, NEW k \in 0 .. Words - 1, NEW v, v = WordAt(k),
         NEW there, DOMAIN U!Word(k, v) \subseteq there,
         Covered(there, U!user_stack, U!user_stack + WORD * k)
  PROVE  Covered(there, U!user_stack, U!user_stack + WORD * (k + 1))
<1>1. DOMAIN U!Word(k, v) = U!user_stack + WORD * k .. (U!user_stack + WORD * (k + 1)) - 1
  BY WordIs
<1>2. k \in Nat /\ k + 1 \in Nat
  <2>1. Words \in Nat
    BY Layout DEF Words
  <2> QED BY <2>1
<1>3. /\ U!user_stack + WORD * k \in Int /\ U!user_stack + WORD * (k + 1) \in Int
      /\ U!user_stack \in Int
  BY <1>2, WordPlaces, Layout
<1>5. ASSUME NEW x \in Int, NEW y \in Int, NEW z \in Int, NEW a \in x .. z - 1
      PROVE  a \in x .. y - 1 \/ a \in y .. z - 1
  OBVIOUS
<1> DEFINE y == U!user_stack + WORD * k
           z == U!user_stack + WORD * (k + 1)
<1>6. /\ y \in Int /\ z \in Int /\ DOMAIN U!Word(k, v) = y .. z - 1
      /\ Covered(there, U!user_stack, y)
  <2>1. y \in Int /\ z \in Int
    BY <1>3
  <2>2. DOMAIN U!Word(k, v) = y .. z - 1
    BY <1>1
  <2>3. Covered(there, U!user_stack, y)
    BY Zenon
  <2> QED BY <2>1, <2>2, <2>3
<1> HIDE DEF y, z
<1>7. ASSUME NEW a \in U!user_stack .. z - 1 PROVE a \in there
  <2>1. a \in U!user_stack .. y - 1 \/ a \in y .. z - 1
    BY <1>3, <1>5, <1>6
  <2>2. CASE a \in U!user_stack .. y - 1
    BY <1>6, <2>2 DEF Covered
  <2>3. CASE a \in y .. z - 1
    BY <1>6, <2>3
  <2> QED BY <2>1, <2>2, <2>3
<1>8. Covered(there, U!user_stack, z)
  BY <1>7 DEF Covered
<1> QED BY <1>8 DEF z

LEMMA MapStackInv == StackInv /\ U!MapStack => StackInv'
<1> SUFFICES ASSUME StackInv, U!MapStack PROVE StackInv'
  OBVIOUS
<1>1. /\ stack_stage = "map" /\ stack_stage' = "argc"
      /\ argv' = argv /\ envv' = envv /\ stack_i' = stack_i
      /\ written' = written /\ stack_mem' = stack_mem
  BY DEF U!MapStack
<1>2. PICK n \in 0 .. U!StackPages : mapped' = FirstPage .. FirstPage + n - 1
  BY DEF U!MapStack, FirstPage, Page
<1>3. DOMAIN stack_mem = {} /\ stack_i = 1 /\ written = 0
  BY <1>1 DEF StackInv, Laid
<1>4. U!user_stack' = U!user_stack /\ U!StackPages' = U!StackPages
  BY <1>1, SameLayout
<1>5. FirstPage' = FirstPage
  BY <1>4 DEF FirstPage, Page
<1>6. PagesMapped'
  BY <1>2, <1>4, <1>5 DEF PagesMapped
<1>7. StackImage' /\ Laid' /\ U!PanicsExplained'
  BY <1>1, <1>3 DEF StackImage, Laid, U!PanicsExplained
<1>8. U!Lists' = U!Lists
  BY DEF U!Lists
<1> QED BY <1>1, <1>6, <1>7, <1>8 DEF StackInv

LEMMA PutArgcInv == StackInv /\ U!PutArgc => StackInv'
<1> SUFFICES ASSUME StackInv, U!PutArgc PROVE StackInv'
  OBVIOUS
<1> DEFINE bytes == U!Word(0, Len(argv))
<1>1. /\ stack_stage = "argc" /\ U!Put(bytes, "argv")
      /\ stack_i' = stack_i /\ written' = written
  BY DEF U!PutArgc
<1>2. stack_i = 1 /\ written = 0
  BY <1>1 DEF StackInv, Laid
<1>3. StackTyped /\ 0 \in 0 .. Words - 1 /\ Len(argv) = WordAt(0) /\ Len(argv) \in Nat
  <2>1. StackTyped
    BY InvTyped
  <2>2. Len(argv) \in Nat /\ Len(envv) \in Nat
    BY <2>1, Layout
  <2> QED BY <2>1, <2>2 DEF Words, WordAt
<1>4. /\ DOMAIN bytes = U!user_stack + WORD * 0 .. (U!user_stack + WORD * (0 + 1)) - 1
      /\ \A a \in DOMAIN bytes :
           a \in U!user_stack .. U!envvs - 1 /\ bytes[a] = ByteAt(a)
  BY <1>3, WordIs
<1> HIDE DEF bytes
<1>5. U!envvs <= Top /\ U!envvs \in Int /\ Top \in Int /\ U!argvs \in Int
  BY <1>3, Layout, StackConstants
<1>6. \A a \in DOMAIN bytes : a \in U!user_stack .. Top - 1 /\ bytes[a] = ByteAt(a)
  BY <1>4, <1>5, <1>3, Layout
<1>7. ASSUME stack_stage' = "argv", argv' = argv, envv' = envv,
             DOMAIN stack_mem' = DOMAIN bytes \union DOMAIN stack_mem
      PROVE  Laid'
  <2>1. stack_i' = 1 /\ written' = 0 /\ Sums(argv)[0] = 0
    BY <1>1, <1>2, <1>3, SumsExist DEF StackTyped, SumsOf
  <2>2. U!user_stack' = U!user_stack /\ U!argvs' = U!argvs
    BY <1>7, SameLayout
  <2>3. Covered(DOMAIN stack_mem', U!user_stack, U!user_stack + WORD * 1)
    <3>1. Covered(DOMAIN stack_mem', U!user_stack, U!user_stack + WORD * 0)
      BY <1>3, WordPlaces, Layout DEF Covered
    <3>2. DOMAIN bytes \subseteq DOMAIN stack_mem' /\ 0 + 1 = 1
      BY <1>7
    <3> QED BY <1>3, <3>1, <3>2, WordCovers DEF bytes
  <2>4. Covered(DOMAIN stack_mem', U!argvs, U!argvs + 0)
    BY <1>5 DEF Covered
  <2>5. 1 \in 1 .. Len(argv) + 1 /\ 0 = Sums(argv)[1 - 1]
    BY <1>3, <2>1
  <2> QED BY <1>7, <2>1, <2>2, <2>3, <2>4, <2>5 DEF Laid
<1> QED BY <1>1, <1>6, <1>7, PutInv

LEMMA CoverJoin ==
  ASSUME NEW s, NEW t, s \subseteq t, NEW lo \in Int, NEW x \in Int, NEW hi \in Int,
         Covered(s, lo, x), Covered(t, x, hi)
  PROVE  Covered(t, lo, hi)
<1> SUFFICES ASSUME NEW a \in lo .. hi - 1 PROVE a \in t
  BY DEF Covered
<1>1. a \in lo .. x - 1 \/ a \in x .. hi - 1
  OBVIOUS
<1> QED BY <1>1 DEF Covered

\* A string more.
LEMMA StringCovers ==
  ASSUME NEW list \in Seq(Nat), NEW base \in Int, NEW what, NEW k \in 1 .. Len(list),
         NEW old, NEW there, old \subseteq there,
         DOMAIN U!String(what, k, list[k], base + Sums(list)[k - 1]) \subseteq there,
         Covered(old, base, base + Sums(list)[k - 1])
  PROVE  Covered(there, base, base + Sums(list)[k])
<1>0. \A a \in base + Sums(list)[k - 1] .. (base + Sums(list)[k]) - 1 :
        a \in DOMAIN U!String(what, k, list[k], base + Sums(list)[k - 1])
  BY StringIs
<1> DEFINE mid == base + Sums(list)[k - 1]
           hi == base + Sums(list)[k]
<1>1. \A a \in mid .. hi - 1 : a \in DOMAIN U!String(what, k, list[k], mid)
  BY <1>0, Zenon
<1>2. mid \in Int /\ hi \in Int
  <2>1. SumsOf(list, Sums(list)) /\ Len(list) \in Nat
    BY SumsExist
  <2>2. k - 1 \in 0 .. Len(list) /\ k \in 0 .. Len(list)
    BY <2>1
  <2>3. Sums(list)[k - 1] \in Nat /\ Sums(list)[k] \in Nat
    BY <2>1, <2>2 DEF SumsOf
  <2> QED BY <2>3
<1>3. Covered(old, base, mid) /\ DOMAIN U!String(what, k, list[k], mid) \subseteq there
  OBVIOUS
<1> HIDE DEF mid, hi
<1>4. Covered(there, mid, hi)
  BY <1>1, <1>3 DEF Covered
<1>5. Covered(there, base, hi)
  BY <1>2, <1>3, <1>4, CoverJoin
<1> QED BY <1>5 DEF hi

\* The strings and the words are within the stack and as they should be.
LEMMA BytesRight ==
  ASSUME StackTyped
  PROVE  /\ \A n \in 1 .. Len(argv) :
              LET s == U!String("arg", n, argv[n], U!argvs + Sums(argv)[n - 1])
              IN  \A a \in DOMAIN s : a \in U!user_stack .. Top - 1 /\ s[a] = ByteAt(a)
         /\ \A n \in 1 .. Len(envv) :
              LET s == U!String("env", n, envv[n], U!envvs + Sums(envv)[n - 1])
              IN  \A a \in DOMAIN s : a \in U!user_stack .. Top - 1 /\ s[a] = ByteAt(a)
         /\ \A k \in 0 .. Words - 1 : \A v : v = WordAt(k) =>
              LET s == U!Word(k, v)
              IN  \A a \in DOMAIN s : a \in U!user_stack .. Top - 1 /\ s[a] = ByteAt(a)
<1>1. /\ U!argvs \in Int /\ U!envvs \in Int /\ U!user_stack \in Int /\ Top \in Int
      /\ U!argvs + Sums(argv)[Len(argv)] = Top /\ U!user_stack < U!envvs
      /\ U!envvs + Sums(envv)[Len(envv)] = U!argvs
      /\ U!envvs <= U!argvs /\ U!argvs <= Top
  BY Layout, StackConstants
<1>2. argv \in Seq(Nat) /\ envv \in Seq(Nat)
  BY DEF StackTyped
<1>6. U!argvs \in Int /\ U!envvs \in Int
  BY <1>1
<1>3. ASSUME NEW n \in 1 .. Len(argv), NEW s,
             s = U!String("arg", n, argv[n], U!argvs + Sums(argv)[n - 1]),
             NEW a \in DOMAIN s
      PROVE  a \in U!user_stack .. Top - 1 /\ s[a] = ByteAt(a)
  <2>1. /\ a \in U!argvs .. (U!argvs + Sums(argv)[Len(argv)]) - 1
        /\ s[a] = StringByte("arg", argv, a - U!argvs)
    <3>1. \A x \in DOMAIN U!String("arg", n, argv[n], U!argvs + Sums(argv)[n - 1]) :
            /\ x \in U!argvs .. (U!argvs + Sums(argv)[Len(argv)]) - 1
            /\ U!String("arg", n, argv[n], U!argvs + Sums(argv)[n - 1])[x]
                 = StringByte("arg", argv, x - U!argvs)
      BY <1>2, <1>6, StringIs
    <3> QED BY <1>3, <3>1
  <2>2. a \in U!argvs .. Top - 1
    BY <1>1, <2>1
  <2>3. a \in U!user_stack .. Top - 1 /\ ~ (a < U!envvs) /\ ~ (a < U!argvs)
    BY <1>1, <2>2
  <2> QED BY <2>1, <2>3 DEF ByteAt
<1>4. ASSUME NEW n \in 1 .. Len(envv), NEW s,
             s = U!String("env", n, envv[n], U!envvs + Sums(envv)[n - 1]),
             NEW a \in DOMAIN s
      PROVE  a \in U!user_stack .. Top - 1 /\ s[a] = ByteAt(a)
  <2>1. /\ a \in U!envvs .. (U!envvs + Sums(envv)[Len(envv)]) - 1
        /\ s[a] = StringByte("env", envv, a - U!envvs)
    <3>1. \A x \in DOMAIN U!String("env", n, envv[n], U!envvs + Sums(envv)[n - 1]) :
            /\ x \in U!envvs .. (U!envvs + Sums(envv)[Len(envv)]) - 1
            /\ U!String("env", n, envv[n], U!envvs + Sums(envv)[n - 1])[x]
                 = StringByte("env", envv, x - U!envvs)
      BY <1>2, <1>6, StringIs
    <3> QED BY <1>4, <3>1
  <2>2. a \in U!envvs .. U!argvs - 1
    BY <1>1, <2>1
  <2>3. a \in U!user_stack .. Top - 1 /\ ~ (a < U!envvs) /\ a < U!argvs
    BY <1>1, <2>2
  <2> QED BY <2>1, <2>3 DEF ByteAt
<1>5. ASSUME NEW k \in 0 .. Words - 1, NEW v, v = WordAt(k), NEW s,
             s = U!Word(k, v), NEW a \in DOMAIN s
      PROVE  a \in U!user_stack .. Top - 1 /\ s[a] = ByteAt(a)
  <2>1. a \in U!user_stack .. U!envvs - 1 /\ s[a] = ByteAt(a)
    BY <1>5, WordIs
  <2> QED BY <1>1, <2>1
<1> QED BY <1>3, <1>4, <1>5

\* One write upon another.
LEMMA BothRight ==
  ASSUME NEW s, NEW t,
         \A a \in DOMAIN s : a \in U!user_stack .. Top - 1 /\ s[a] = ByteAt(a),
         \A a \in DOMAIN t : a \in U!user_stack .. Top - 1 /\ t[a] = ByteAt(a)
  PROVE  /\ DOMAIN U!Upon(s, t) = DOMAIN s \union DOMAIN t
         /\ \A a \in DOMAIN U!Upon(s, t) :
              a \in U!user_stack .. Top - 1 /\ U!Upon(s, t)[a] = ByteAt(a)
BY DEF U!Upon

\* The values of the words.
LEMMA WordValues ==
  ASSUME StackTyped
  PROVE  /\ WordAt(0) = Len(argv) /\ WordAt(1 + Len(argv)) = 0
         /\ \A k \in 2 + Len(argv) + Len(envv) .. Words - 1 : WordAt(k) = 0
         /\ \A n \in 1 .. Len(argv) : WordAt(n) = U!argvs + Sums(argv)[n - 1]
         /\ \A n \in 1 .. Len(envv) :
              WordAt(1 + Len(argv) + n) = U!envvs + Sums(envv)[n - 1]
<1>1. Len(argv) \in Nat /\ Len(envv) \in Nat
  BY Layout
<1>2. \A n \in 1 .. Len(envv) : 1 + Len(argv) + n - (1 + Len(argv)) - 1 = n - 1
  BY <1>1
<1>3. ASSUME NEW n \in 1 .. Len(envv)
      PROVE  WordAt(1 + Len(argv) + n) = U!envvs + Sums(envv)[n - 1]
  <2> DEFINE k == 1 + Len(argv) + n
  <2>1. /\ k # 0 /\ ~ (k <= Len(argv)) /\ k # 1 + Len(argv)
        /\ k <= 1 + Len(argv) + Len(envv) /\ k - (1 + Len(argv)) - 1 = n - 1
    BY <1>1
  <2> HIDE DEF k
  <2>2. WordAt(k) = U!envvs + Sums(envv)[n - 1]
    BY <2>1 DEF WordAt
  <2> QED BY <2>2 DEF k
<1>4. ASSUME NEW k \in 2 + Len(argv) + Len(envv) .. Words - 1
      PROVE  WordAt(k) = 0
  <2>1. k # 0 /\ ~ (k <= Len(argv)) /\ ~ (k <= 1 + Len(argv) + Len(envv))
    BY <1>1
  <2> QED BY <2>1 DEF WordAt
<1>5. WordAt(0) = Len(argv) /\ WordAt(1 + Len(argv)) = 0
  BY <1>1 DEF WordAt
<1>6. ASSUME NEW n \in 1 .. Len(argv)
      PROVE  WordAt(n) = U!argvs + Sums(argv)[n - 1]
  <2>1. n # 0 /\ n <= Len(argv)
    BY <1>1
  <2> QED BY <2>1 DEF WordAt
<1> QED BY <1>3, <1>4, <1>5, <1>6

LEMMA CoverGrows ==
  ASSUME NEW s, NEW t, s \subseteq t, NEW lo, NEW hi, Covered(s, lo, hi)
  PROVE  Covered(t, lo, hi)
BY DEF Covered

\* The next word, with what else is written.
LEMMA NextWord ==
  ASSUME StackTyped, NEW k \in 0 .. Words - 1, NEW v, v = WordAt(k),
         NEW old, NEW there, old \subseteq there,
         DOMAIN U!Word(k, v) \subseteq there,
         Covered(old, U!user_stack, U!user_stack + WORD * k), NEW n, n = k + 1
  PROVE  Covered(there, U!user_stack, U!user_stack + WORD * n)
<1>1. Covered(there, U!user_stack, U!user_stack + WORD * k)
  BY CoverGrows
<1>2. Covered(there, U!user_stack, U!user_stack + WORD * (k + 1))
  BY <1>1, WordCovers
<1> QED BY <1>2

LEMMA PutArgInv == StackInv /\ U!PutArg => StackInv'
<1> SUFFICES ASSUME StackInv, U!PutArg PROVE StackInv'
  OBVIOUS
<1> DEFINE a == U!argvs + Sums(argv)[stack_i - 1]
           s == U!String("arg", stack_i, argv[stack_i], a)
           w == U!Word(stack_i, a)
           bytes == U!Upon(s, w)
<1>1. /\ stack_stage = "argv" /\ stack_i <= Len(argv)
      /\ stack_i' = stack_i + 1 /\ written' = written + argv[stack_i]
  BY DEF U!PutArg
<1>2. /\ stack_i \in 1 .. Len(argv) + 1 /\ written = Sums(argv)[stack_i - 1]
      /\ Covered(DOMAIN stack_mem, U!user_stack, U!user_stack + WORD * stack_i)
      /\ Covered(DOMAIN stack_mem, U!argvs, U!argvs + written)
  BY <1>1 DEF StackInv, Laid
<1>3. U!Put(bytes, "argv")
  BY <1>2 DEF U!PutArg
<1>4. /\ StackTyped /\ Len(argv) \in Nat /\ Len(envv) \in Nat
      /\ argv \in Seq(Nat) /\ U!argvs \in Int
  BY InvTyped, Layout DEF StackTyped
<1>5. stack_i \in 1 .. Len(argv) /\ stack_i \in 0 .. Words - 1
  BY <1>1, <1>2, <1>4 DEF Words
<1>6. a = WordAt(stack_i)
  BY <1>4, <1>5, WordValues
<1>7. \A x \in DOMAIN s : x \in U!user_stack .. Top - 1 /\ s[x] = ByteAt(x)
  BY <1>4, <1>5, BytesRight
<1>8. \A x \in DOMAIN w : x \in U!user_stack .. Top - 1 /\ w[x] = ByteAt(x)
  <2> HIDE DEF a
  <2> QED BY <1>4, <1>5, <1>6, BytesRight
<1>9. Sums(argv)[stack_i] = Sums(argv)[stack_i - 1] + argv[stack_i]
  BY <1>4, <1>5, SumsExist DEF SumsOf
<1> HIDE DEF s, w
<1>10. /\ DOMAIN bytes = DOMAIN s \union DOMAIN w
       /\ \A x \in DOMAIN bytes : x \in U!user_stack .. Top - 1 /\ bytes[x] = ByteAt(x)
  BY <1>7, <1>8, BothRight
<1> HIDE DEF bytes
<1>11. ASSUME stack_stage' = "argv", argv' = argv, envv' = envv,
              DOMAIN stack_mem' = DOMAIN bytes \union DOMAIN stack_mem
       PROVE  Laid'
  <2>1. U!user_stack' = U!user_stack /\ U!argvs' = U!argvs
    BY <1>11, SameLayout
  <2> DEFINE there == DOMAIN stack_mem'
  <2>2. DOMAIN stack_mem \subseteq there /\ DOMAIN s \subseteq there
        /\ DOMAIN w \subseteq there
    BY <1>10, <1>11
  <2> HIDE DEF there
  <2>3. Covered(there, U!user_stack, U!user_stack + WORD * stack_i')
    BY <1>1, <1>2, <1>4, <1>5, <1>6, <2>2, NextWord DEF w
  <2>4. Covered(DOMAIN stack_mem, U!argvs, a)
    BY <1>2
  <2>5. Covered(there, U!argvs, U!argvs + Sums(argv)[stack_i])
    BY <1>4, <1>5, <2>2, <2>4, StringCovers DEF s
  <2>6. written' = Sums(argv)[stack_i] /\ stack_i' - 1 = stack_i
        /\ stack_i' \in 1 .. Len(argv) + 1
    BY <1>1, <1>2, <1>5, <1>9, <1>4
  <2> QED BY <1>11, <2>1, <2>3, <2>5, <2>6 DEF Laid, there
<1> QED BY <1>1, <1>3, <1>10, <1>11, PutInv

LEMMA EndArgsInv == StackInv /\ U!EndArgs => StackInv'
<1> SUFFICES ASSUME StackInv, U!EndArgs PROVE StackInv'
  OBVIOUS
<1> DEFINE k == 1 + Len(argv)
           bytes == U!Word(k, 0)
<1>1. /\ stack_stage = "argv" /\ stack_i > Len(argv)
      /\ stack_i' = 1 /\ written' = 0 /\ U!Put(bytes, "envv")
  BY DEF U!EndArgs
<1>2. /\ stack_i \in 1 .. Len(argv) + 1 /\ written = Sums(argv)[stack_i - 1]
      /\ Covered(DOMAIN stack_mem, U!user_stack, U!user_stack + WORD * stack_i)
      /\ Covered(DOMAIN stack_mem, U!argvs, U!argvs + written)
  BY <1>1 DEF StackInv, Laid
<1>3. /\ StackTyped /\ Len(argv) \in Nat /\ Len(envv) \in Nat
      /\ argv \in Seq(Nat) /\ envv \in Seq(Nat) /\ U!argvs \in Int /\ U!envvs \in Int
      /\ U!argvs + Sums(argv)[Len(argv)] = Top
  BY InvTyped, Layout, StackConstants DEF StackTyped
<1>4. k \in 0 .. Words - 1 /\ WordAt(k) = 0 /\ k = stack_i /\ stack_i - 1 = Len(argv)
  <2>1. WordAt(k) = 0
    BY <1>3, WordValues
  <2>2. k = stack_i /\ stack_i - 1 = Len(argv)
    BY <1>1, <1>2, <1>3
  <2>3. k \in 0 .. Words - 1
    BY <1>3 DEF Words
  <2> QED BY <2>1, <2>2, <2>3
<1>5. \A x \in DOMAIN bytes : x \in U!user_stack .. Top - 1 /\ bytes[x] = ByteAt(x)
  <2> HIDE DEF k
  <2> QED BY <1>3, <1>4, BytesRight
<1> HIDE DEF bytes
<1>6. ASSUME stack_stage' = "envv", argv' = argv, envv' = envv,
              DOMAIN stack_mem' = DOMAIN bytes \union DOMAIN stack_mem
      PROVE  Laid'
  <2>1. /\ U!user_stack' = U!user_stack /\ U!argvs' = U!argvs
        /\ U!envvs' = U!envvs /\ Top' = Top
    BY <1>6, SameLayout DEF Top, U!USER_STACK_TOP
  <2> DEFINE there == DOMAIN stack_mem'
  <2>2. DOMAIN stack_mem \subseteq there /\ DOMAIN bytes \subseteq there
    BY <1>6
  <2> HIDE DEF there
  <2>3. Covered(there, U!user_stack, U!user_stack + WORD * (k + 1))
    <3> HIDE DEF k
    <3> QED BY <1>2, <1>3, <1>4, <2>2, NextWord DEF bytes
  <2>4. Covered(there, U!argvs, Top)
    BY <1>2, <1>3, <1>4, <2>2, CoverGrows
  <2>5. Covered(there, U!envvs, U!envvs + written')
    BY <1>1, <1>3 DEF Covered
  <2>6. /\ written' = Sums(envv)[1 - 1] /\ 1 \in 1 .. Len(envv) + 1
        /\ k + 1 = 1 + Len(argv) + 1
    BY <1>1, <1>3, SumsExist DEF SumsOf
  <2> HIDE DEF k
  <2> QED BY <1>1, <1>6, <2>1, <2>3, <2>4, <2>5, <2>6 DEF Laid, there
<1> QED BY <1>1, <1>5, <1>6, PutInv

LEMMA PutEnvInv == StackInv /\ U!PutEnv => StackInv'
<1> SUFFICES ASSUME StackInv, U!PutEnv PROVE StackInv'
  OBVIOUS
<1> DEFINE a == U!envvs + Sums(envv)[stack_i - 1]
           k == 1 + Len(argv) + stack_i
           s == U!String("env", stack_i, envv[stack_i], a)
           w == U!Word(k, a)
           bytes == U!Upon(s, w)
<1>1. /\ stack_stage = "envv" /\ stack_i <= Len(envv)
      /\ stack_i' = stack_i + 1 /\ written' = written + envv[stack_i]
  BY DEF U!PutEnv
<1>2. /\ stack_i \in 1 .. Len(envv) + 1 /\ written = Sums(envv)[stack_i - 1]
      /\ Covered(DOMAIN stack_mem, U!user_stack, U!user_stack + WORD * k)
      /\ Covered(DOMAIN stack_mem, U!argvs, Top)
      /\ Covered(DOMAIN stack_mem, U!envvs, U!envvs + written)
  BY <1>1 DEF StackInv, Laid
<1>3. U!Put(bytes, "envv")
  BY <1>2 DEF U!PutEnv
<1>4. /\ StackTyped /\ Len(argv) \in Nat /\ Len(envv) \in Nat
      /\ envv \in Seq(Nat) /\ U!envvs \in Int
  BY InvTyped, Layout DEF StackTyped
<1>5. stack_i \in 1 .. Len(envv) /\ k \in 0 .. Words - 1
  BY <1>1, <1>2, <1>4 DEF Words
<1>6. a = WordAt(k)
  BY <1>4, <1>5, WordValues
<1>7. \A x \in DOMAIN s : x \in U!user_stack .. Top - 1 /\ s[x] = ByteAt(x)
  BY <1>4, <1>5, BytesRight
<1>8. \A x \in DOMAIN w : x \in U!user_stack .. Top - 1 /\ w[x] = ByteAt(x)
  <2> HIDE DEF a, k
  <2> QED BY <1>4, <1>5, <1>6, BytesRight
<1>9. Sums(envv)[stack_i] = Sums(envv)[stack_i - 1] + envv[stack_i]
  BY <1>4, <1>5, SumsExist DEF SumsOf
<1> HIDE DEF s, w
<1>10. /\ DOMAIN bytes = DOMAIN s \union DOMAIN w
       /\ \A x \in DOMAIN bytes : x \in U!user_stack .. Top - 1 /\ bytes[x] = ByteAt(x)
  BY <1>7, <1>8, BothRight
<1> HIDE DEF bytes
<1>11. ASSUME stack_stage' = "envv", argv' = argv, envv' = envv,
              DOMAIN stack_mem' = DOMAIN bytes \union DOMAIN stack_mem
       PROVE  Laid'
  <2>1. /\ U!user_stack' = U!user_stack /\ U!argvs' = U!argvs
        /\ U!envvs' = U!envvs /\ Top' = Top
    BY <1>11, SameLayout DEF Top, U!USER_STACK_TOP
  <2> DEFINE there == DOMAIN stack_mem'
  <2>2. DOMAIN stack_mem \subseteq there /\ DOMAIN s \subseteq there
        /\ DOMAIN w \subseteq there
    BY <1>10, <1>11
  <2> HIDE DEF there
  <2>3. Covered(there, U!user_stack, U!user_stack + WORD * (1 + Len(argv) + stack_i'))
    <3> DEFINE n == 1 + Len(argv) + stack_i'
    <3>1. n = k + 1
      BY <1>1, <1>4, <1>5
    <3> HIDE DEF n, k
    <3>2. Covered(there, U!user_stack, U!user_stack + WORD * n)
      BY <1>2, <1>4, <1>5, <1>6, <2>2, <3>1, NextWord DEF w
    <3> QED BY <3>2 DEF n
  <2>4. Covered(DOMAIN stack_mem, U!envvs, a)
    BY <1>2
  <2>5. Covered(there, U!envvs, U!envvs + Sums(envv)[stack_i])
    BY <1>4, <1>5, <2>2, <2>4, StringCovers DEF s
  <2>6. written' = Sums(envv)[stack_i] /\ stack_i' - 1 = stack_i
        /\ stack_i' \in 1 .. Len(envv) + 1
    BY <1>1, <1>2, <1>5, <1>9, <1>4
  <2>7. Covered(there, U!argvs, Top)
    BY <1>2, <2>2, CoverGrows
  <2> HIDE DEF k
  <2> QED BY <1>11, <2>1, <2>3, <2>5, <2>6, <2>7 DEF Laid, there
<1> QED BY <1>1, <1>3, <1>10, <1>11, PutInv

LEMMA EndEnvsInv == StackInv /\ U!EndEnvs => StackInv'
<1> SUFFICES ASSUME StackInv, U!EndEnvs PROVE StackInv'
  OBVIOUS
<1> DEFINE k == 2 + Len(argv) + Len(envv)
           bytes == U!Word(k, 0)
<1>1. /\ stack_stage = "envv" /\ stack_i > Len(envv) /\ U!Put(bytes, "auxv")
  BY DEF U!EndEnvs
<1>2. /\ stack_i \in 1 .. Len(envv) + 1 /\ written = Sums(envv)[stack_i - 1]
      /\ Covered(DOMAIN stack_mem, U!user_stack,
                 U!user_stack + WORD * (1 + Len(argv) + stack_i))
      /\ Covered(DOMAIN stack_mem, U!argvs, Top)
      /\ Covered(DOMAIN stack_mem, U!envvs, U!envvs + written)
  BY <1>1 DEF StackInv, Laid
<1>3. /\ StackTyped /\ Len(argv) \in Nat /\ Len(envv) \in Nat
      /\ U!argvs \in Int /\ U!envvs \in Int /\ Top \in Int
      /\ U!envvs + Sums(envv)[Len(envv)] = U!argvs
  BY InvTyped, Layout, StackConstants
<1>4. k \in 0 .. Words - 1 /\ WordAt(k) = 0 /\ k = 1 + Len(argv) + stack_i
      /\ stack_i - 1 = Len(envv)
  <2>1. k \in 0 .. Words - 1 /\ k \in 2 + Len(argv) + Len(envv) .. Words - 1
    BY <1>3 DEF Words
  <2>2. k = 1 + Len(argv) + stack_i /\ stack_i - 1 = Len(envv)
    BY <1>1, <1>2, <1>3
  <2> HIDE DEF k
  <2>3. WordAt(k) = 0
    BY <1>3, <2>1, WordValues
  <2> QED BY <2>1, <2>2, <2>3
<1>5. \A x \in DOMAIN bytes : x \in U!user_stack .. Top - 1 /\ bytes[x] = ByteAt(x)
  <2> HIDE DEF k
  <2> QED BY <1>3, <1>4, BytesRight
<1> HIDE DEF bytes
<1>6. ASSUME stack_stage' = "auxv", argv' = argv, envv' = envv,
              DOMAIN stack_mem' = DOMAIN bytes \union DOMAIN stack_mem
      PROVE  Laid'
  <2>1. /\ U!user_stack' = U!user_stack /\ U!envvs' = U!envvs /\ Top' = Top
    BY <1>6, SameLayout DEF Top, U!USER_STACK_TOP
  <2> DEFINE there == DOMAIN stack_mem'
  <2>2. DOMAIN stack_mem \subseteq there /\ DOMAIN bytes \subseteq there
    BY <1>6
  <2> HIDE DEF there
  <2>3. Covered(there, U!user_stack, U!user_stack + WORD * (3 + Len(argv) + Len(envv)))
    <3> DEFINE n == 3 + Len(argv) + Len(envv)
    <3>1. n = k + 1
      BY <1>3
    <3> HIDE DEF n, k
    <3>2. Covered(there, U!user_stack, U!user_stack + WORD * n)
      BY <1>2, <1>3, <1>4, <2>2, <3>1, NextWord DEF bytes
    <3> QED BY <3>2 DEF n
  <2>4. Covered(DOMAIN stack_mem, U!envvs, U!argvs)
    BY <1>2, <1>3, <1>4
  <2>5. Covered(there, U!argvs, Top)
    BY <1>2, <2>2, CoverGrows
  <2>6. Covered(there, U!envvs, Top)
    BY <1>3, <2>2, <2>4, <2>5, CoverJoin
  <2> HIDE DEF k
  <2> QED BY <1>6, <2>1, <2>3, <2>6 DEF Laid, there
<1> QED BY <1>1, <1>5, <1>6, PutInv

LEMMA PutAuxInv == StackInv /\ U!PutAux => StackInv'
<1> SUFFICES ASSUME StackInv, U!PutAux PROVE StackInv'
  OBVIOUS
<1> DEFINE k == 3 + Len(argv) + Len(envv)
           w1 == U!Word(k, 0)
           l == 4 + Len(argv) + Len(envv)
           w2 == U!Word(l, 0)
           bytes == U!Upon(w1, w2)
<1>1. stack_stage = "auxv" /\ U!Put(bytes, "regs")
  BY DEF U!PutAux, U!AuxNull
<1>2. /\ Covered(DOMAIN stack_mem, U!user_stack, U!user_stack + WORD * k)
      /\ Covered(DOMAIN stack_mem, U!envvs, Top)
  BY <1>1 DEF StackInv, Laid
<1>3. /\ StackTyped /\ Len(argv) \in Nat /\ Len(envv) \in Nat
      /\ U!envvs \in Int /\ U!user_stack \in Int /\ Top \in Int
  BY InvTyped, Layout, StackConstants
<1>4. /\ k \in 0 .. Words - 1 /\ k \in 2 + Len(argv) + Len(envv) .. Words - 1
      /\ l \in 0 .. Words - 1 /\ l \in 2 + Len(argv) + Len(envv) .. Words - 1
      /\ l = k + 1 /\ Words = l + 1
  BY <1>3 DEF Words
<1> HIDE DEF k, l
<1>5. WordAt(k) = 0 /\ WordAt(l) = 0
  BY <1>3, <1>4, WordValues
<1>6. \A x \in DOMAIN w1 : x \in U!user_stack .. Top - 1 /\ w1[x] = ByteAt(x)
  BY <1>3, <1>4, <1>5, BytesRight
<1>7. \A x \in DOMAIN w2 : x \in U!user_stack .. Top - 1 /\ w2[x] = ByteAt(x)
  BY <1>3, <1>4, <1>5, BytesRight
<1> HIDE DEF w1, w2
<1>8. /\ DOMAIN bytes = DOMAIN w1 \union DOMAIN w2
      /\ \A x \in DOMAIN bytes : x \in U!user_stack .. Top - 1 /\ bytes[x] = ByteAt(x)
  BY <1>6, <1>7, BothRight
<1> HIDE DEF bytes
<1>9. ASSUME stack_stage' = "regs", argv' = argv, envv' = envv,
             DOMAIN stack_mem' = DOMAIN bytes \union DOMAIN stack_mem
      PROVE  Laid'
  <2>1. /\ U!user_stack' = U!user_stack /\ Top' = Top
    BY <1>9, SameLayout DEF Top, U!USER_STACK_TOP
  <2> DEFINE there == DOMAIN stack_mem'
  <2>2. /\ DOMAIN stack_mem \subseteq there /\ DOMAIN w1 \subseteq there
        /\ DOMAIN w2 \subseteq there /\ there \subseteq there
    BY <1>8, <1>9
  <2> HIDE DEF there
  <2>3. Covered(there, U!user_stack, U!user_stack + WORD * l)
    BY <1>2, <1>3, <1>4, <1>5, <2>2, NextWord DEF w1
  <2>4. Covered(there, U!user_stack, U!user_stack + WORD * Words)
    BY <1>3, <1>4, <1>5, <2>2, <2>3, NextWord DEF w2
  <2>5. Covered(there, U!user_stack, U!envvs)
    BY <1>3, <2>4, WordPlaces
  <2>6. Covered(there, U!envvs, Top)
    BY <1>2, <2>2, CoverGrows
  <2>7. Covered(there, U!user_stack, Top)
    BY <1>3, <2>2, <2>5, <2>6, CoverJoin
  <2> QED BY <1>9, <2>1, <2>7 DEF Laid, there
<1> QED BY <1>1, <1>8, <1>9, PutInv

LEMMA SameStack ==
  ASSUME StackInv,
         UNCHANGED <<argv, envv, stack_i, written, mapped, stack_mem>>,
         \/ stack_stage' = stack_stage
         \/ stack_stage = "regs" /\ stack_stage' \in {"run", "wild"}
  PROVE  StackInv'
<1>1. /\ U!user_stack' = U!user_stack /\ U!argvs' = U!argvs /\ U!envvs' = U!envvs
      /\ \A a : ByteAt(a)' = ByteAt(a)
      /\ U!StackPages' = U!StackPages
  BY SameLayout
<1>2. Top' = Top /\ FirstPage' = FirstPage /\ Page' = Page
  BY <1>1 DEF Top, U!USER_STACK_TOP, FirstPage, Page
<1>3. StackImage'
  BY <1>1, <1>2 DEF StackInv, StackImage
<1>4. Laid'
  BY <1>1, <1>2 DEF StackInv, Laid
<1>5. PagesMapped'
  BY <1>1, <1>2 DEF StackInv, PagesMapped
<1>6. U!initial_stack_size' = U!initial_stack_size /\ U!RanOut' = U!RanOut
  BY <1>1 DEF U!initial_stack_size, U!USER_STACK_TOP, U!RanOut
<1>7. U!PanicsExplained'
  BY <1>6 DEF StackInv, U!PanicsExplained
<1>8. U!Lists' = U!Lists
  BY DEF U!Lists
<1> QED BY <1>3, <1>4, <1>5, <1>7, <1>8 DEF StackInv

LEMMA StackInit == Init => StackInv
<1> SUFFICES ASSUME Init PROVE StackInv
  OBVIOUS
<1>1. /\ argv \in U!Lists /\ envv \in U!Lists /\ stack_stage = "map"
      /\ stack_i = 1 /\ written = 0 /\ stack_mem = <<>>
  BY DEF Init, U!Init
<1>2. DOMAIN stack_mem = {}
  BY <1>1
<1> QED BY <1>1, <1>2 DEF StackInv, StackImage, Laid, PagesMapped, U!PanicsExplained

LEMMA StackStep == StackInv /\ [Next]_vars => StackInv'
<1> SUFFICES ASSUME StackInv, [Next]_vars PROVE StackInv'
  OBVIOUS
<1>1. CASE StartProgram
  <2>1. CASE U!EnterProcess
    BY <2>1, SameStack DEF U!EnterProcess
  <2> QED BY <1>1, <2>1, MapStackInv, PutArgcInv, PutArgInv, EndArgsInv, PutEnvInv,
             EndEnvsInv, PutAuxInv DEF StartProgram, U!Next
<1>2. CASE UNCHANGED uvars
  BY <1>2, SameStack DEF uvars
<1> QED BY <1>1, <1>2 DEF Next, LoadFile, vars

-----------------------------------------------------------------------------
(***************************************************************************)
(* What a program reads from the stack.                                    *)
(***************************************************************************)
Slice(g, from, len) == [b \in 1 .. len |-> g[from + b - 1]]

LEMMA SliceJoin ==
  ASSUME NEW S, NEW g \in [Nat -> S], NEW from \in Nat, NEW p \in Nat, NEW q \in Nat
  PROVE  Slice(g, from, p) \o Slice(g, from + p, q) = Slice(g, from, p + q)
<1>1. \A f \in Nat : \A l \in Nat :
        /\ Slice(g, f, l) \in Seq(S) /\ Len(Slice(g, f, l)) = l
        /\ \A b \in 1 .. l : Slice(g, f, l)[b] = g[f + b - 1]
  <2> SUFFICES ASSUME NEW f \in Nat, NEW l \in Nat
               PROVE  /\ Slice(g, f, l) \in Seq(S) /\ Len(Slice(g, f, l)) = l
                      /\ \A b \in 1 .. l : Slice(g, f, l)[b] = g[f + b - 1]
    OBVIOUS
  <2>1. \A b \in 1 .. l : f + b - 1 \in Nat
    OBVIOUS
  <2>2. Slice(g, f, l) \in [1 .. l -> S]
    BY <2>1 DEF Slice
  <2> QED BY <2>2 DEF Slice
<1>0. p + q \in Nat /\ from + p \in Nat
  OBVIOUS
<1> DEFINE u == Slice(g, from, p)
           v == Slice(g, from + p, q)
           w == Slice(g, from, p + q)
<1>2. /\ u \in Seq(S) /\ Len(u) = p /\ v \in Seq(S) /\ Len(v) = q
      /\ w \in Seq(S) /\ Len(w) = p + q
  BY <1>0, <1>1
<1>3. /\ u \o v \in Seq(S) /\ Len(u \o v) = p + q
      /\ \A b \in 1 .. p + q : (u \o v)[b] = IF b <= p THEN u[b] ELSE v[b - p]
  BY <1>2, ConcatProperties
<1>4. \A b \in 1 .. p + q : (u \o v)[b] = w[b]
  <2> SUFFICES ASSUME NEW b \in 1 .. p + q PROVE (u \o v)[b] = w[b]
    OBVIOUS
  <2>1. w[b] = g[from + b - 1]
    BY <1>0, <1>1
  <2>2. CASE b <= p
    BY <1>1, <1>3, <2>1, <2>2
  <2>3. CASE ~ (b <= p)
    <3>1. b - p \in 1 .. q /\ (from + p) + (b - p) - 1 = from + b - 1 /\ from + p \in Nat
      BY <2>3
    <3>2. v[b - p] = g[from + b - 1]
      BY <1>1, <3>1
    <3> QED BY <1>3, <2>1, <2>3, <3>2
  <2> QED BY <2>2, <2>3
<1> HIDE DEF u, v, w
<1>5. u \o v = w
  BY <1>2, <1>3, <1>4, SeqEqual
<1> QED BY <1>2, <1>5 DEF u, v, w

LEMMA SliceAdd ==
  ASSUME NEW S, NEW g \in [Nat -> S], NEW lo \in Nat, NEW m \in Nat, m - lo \in Nat,
         NEW d \in Nat
  PROVE  Slice(g, lo, m - lo) \o Slice(g, m, d) = Slice(g, lo, (m + d) - lo)
<1>1. lo + (m - lo) = m /\ (m - lo) + d = (m + d) - lo
  OBVIOUS
<1>2. Slice(g, lo, m - lo) \o Slice(g, lo + (m - lo), d) = Slice(g, lo, (m - lo) + d)
  <2> DEFINE p == m - lo
  <2>1. p \in Nat
    OBVIOUS
  <2> HIDE DEF p
  <2>2. Slice(g, lo, p) \o Slice(g, lo + p, d) = Slice(g, lo, p + d)
    BY <2>1, SliceJoin
  <2> QED BY <2>2 DEF p
<1> QED BY <1>1, <1>2

Flat(seqs) ==
  IF Len(seqs) = 0 THEN seqs
  ELSE LET h == CHOOSE g : g = [p \in 1 .. Len(seqs) |->
                                  IF p = 1 THEN seqs[p] ELSE g[p - 1] \o seqs[p]]
       IN  h[Len(seqs)]

StringBytes(what, list) == [x \in Nat |-> StringByte(what, list, x)]

LEMMA JoinedIs ==
  ASSUME NEW list \in Seq(Nat), NEW what, NEW n \in 1 .. Len(list) + 1
  PROVE  U!Joined(what, list, n)
           = Slice(StringBytes(what, list), Sums(list)[n - 1],
                   Sums(list)[Len(list)] - Sums(list)[n - 1])
<1> DEFINE G == StringBytes(what, list)
           S == {G[x] : x \in Nat}
           N == Len(list) - n + 1
           A == [k \in 0 .. N |-> Sums(list)[n + k - 1]]
           l == [k \in 1 .. N |-> list[n + k - 1]]
           seqs == [k \in 1 .. N |-> [b \in 1 .. list[n + k - 1] |-> <<what, n + k - 1, b>>]]
           w == [k \in 1 .. N |-> Slice(G, A[0], A[k] - A[0])]
<1>1. Len(list) \in Nat /\ N \in Nat /\ n \in Nat /\ SumsOf(list, Sums(list))
  BY SumsExist
<1>2. \A k \in 0 .. N : A[k] \in Nat /\ A[k] - A[0] \in Nat /\ A[k] = Sums(list)[n + k - 1]
  <2> SUFFICES ASSUME NEW k \in 0 .. N
               PROVE  A[k] \in Nat /\ A[k] - A[0] \in Nat /\ A[k] = Sums(list)[n + k - 1]
    OBVIOUS
  <2>1. n + k - 1 \in 0 .. Len(list) /\ n + 0 - 1 \in 0 .. n + k - 1
        /\ n + 0 - 1 \in 0 .. Len(list) /\ 0 \in 0 .. N
    BY <1>1
  <2>2. Sums(list)[n + 0 - 1] <= Sums(list)[n + k - 1]
    BY <2>1, SumsGrow
  <2>3. Sums(list)[n + 0 - 1] \in Nat /\ Sums(list)[n + k - 1] \in Nat
    BY <1>1, <2>1 DEF SumsOf
  <2>4. A[k] = Sums(list)[n + k - 1] /\ A[0] = Sums(list)[n + 0 - 1]
    BY <2>1
  <2> QED BY <2>2, <2>3, <2>4
<1>3. \A k \in 1 .. N : /\ l[k] \in Nat /\ A[k] = A[k - 1] + l[k] /\ k - 1 \in 0 .. N
                        /\ n + k - 1 \in 1 .. Len(list) /\ k \in 0 .. N
  <2> SUFFICES ASSUME NEW k \in 1 .. N
               PROVE  /\ l[k] \in Nat /\ A[k] = A[k - 1] + l[k] /\ k - 1 \in 0 .. N
                      /\ n + k - 1 \in 1 .. Len(list) /\ k \in 0 .. N
    OBVIOUS
  <2>1. /\ n + k - 1 \in 1 .. Len(list) /\ k \in 0 .. N /\ k - 1 \in 0 .. N
        /\ n + (k - 1) - 1 = (n + k - 1) - 1
    BY <1>1
  <2>2. Sums(list)[n + k - 1] = Sums(list)[(n + k - 1) - 1] + list[n + k - 1]
    BY <1>1, <2>1 DEF SumsOf
  <2>3. A[k] = Sums(list)[n + k - 1] /\ A[k - 1] = Sums(list)[n + (k - 1) - 1]
    BY <1>2, <2>1
  <2>4. l[k] = list[n + k - 1] /\ l[k] \in Nat
    BY <2>1
  <2> QED BY <2>1, <2>2, <2>3, <2>4
<1>4. \A k \in 1 .. N : seqs[k] = Slice(G, A[k - 1], l[k])
  <2> SUFFICES ASSUME NEW k \in 1 .. N
               PROVE  seqs[k] = Slice(G, A[k - 1], l[k])
    OBVIOUS
  <2> DEFINE m == n + k - 1
  <2>1. /\ m \in 1 .. Len(list) /\ A[k - 1] \in Nat /\ l[k] = list[m] /\ l[k] \in Nat
        /\ A[k - 1] = Sums(list)[m - 1] /\ Sums(list)[m] = A[k - 1] + l[k]
    <3>1. n + (k - 1) - 1 = m - 1
      BY <1>1
    <3> QED BY <1>2, <1>3, <3>1
  <2>2. seqs[k] = [b \in 1 .. l[k] |-> <<what, m, b>>]
    BY <2>1
  <2> HIDE DEF A, l, m, seqs
  <2>3. ASSUME NEW b \in 1 .. l[k] PROVE G[A[k - 1] + b - 1] = <<what, m, b>>
    <3> DEFINE x == A[k - 1] + b - 1
    <3>1. x \in Nat /\ Sums(list)[m - 1] <= x /\ x < Sums(list)[m]
          /\ x - Sums(list)[m - 1] + 1 = b
      <4>1. PICK y \in Nat : y = A[k - 1]
        BY <2>1
      <4>2. PICK z \in Nat : z = l[k]
        BY <2>1
      <4>3. /\ y + b - 1 \in Nat /\ y <= y + b - 1 /\ y + b - 1 < y + z
            /\ (y + b - 1) - y + 1 = b
        BY <2>3, <4>2
      <4>4. x = y + b - 1 /\ Sums(list)[m - 1] = y /\ Sums(list)[m] = y + z
        BY <2>1, <4>1, <4>2
      <4> HIDE DEF x
      <4> QED BY <4>3, <4>4
    <3> HIDE DEF x
    <3>2. Part(list, x) = m
      BY <2>1, <3>1, PartIs DEF IsPart
    <3>3. G[x] = <<what, m, b>>
      BY <3>1, <3>2 DEF StringBytes, StringByte
    <3> QED BY <3>3 DEF x
  <2> QED BY <2>2, <2>3 DEF Slice
<1>5. Len(seqs) = N
  BY <1>1
<1>6. U!Joined(what, list, n) = Flat(seqs)
  <2>1. \A s : U!FlattenSeq(s) = Flat(s)
    BY Zenon DEF U!FlattenSeq, Flat
  <2> QED BY <2>1 DEF U!Joined
<1>7. n + N - 1 = Len(list) /\ n + 0 - 1 = n - 1 /\ N \in 0 .. N /\ 0 \in 0 .. N
  BY <1>1
<1>8. A[N] = Sums(list)[Len(list)] /\ A[0] = Sums(list)[n - 1]
  BY <1>2, <1>7
<1>9. G \in [Nat -> S]
  <2>1. G = [x \in Nat |-> G[x]]
    BY DEF StringBytes
  <2> QED BY <2>1
<1> HIDE DEF G, S, N, A, l, seqs
<1>10. CASE N = 0
  <2>1. Flat(seqs) = seqs
    BY <1>5, <1>10 DEF Flat
  <2>2. seqs = Slice(G, A[0], 0)
    BY <1>10 DEF seqs, Slice
  <2>3. A[N] - A[0] = 0
    BY <1>2, <1>7, <1>10
  <2> QED BY <1>6, <1>8, <1>10, <2>1, <2>2, <2>3 DEF G
<1>11. CASE N # 0
  <2> DEFINE IsFlat(g) == g = [p \in 1 .. Len(seqs) |->
                                 IF p = 1 THEN seqs[p] ELSE g[p - 1] \o seqs[p]]
             h == CHOOSE g : IsFlat(g)
  <2>1. ASSUME NEW p \in 1 .. N, p # 1
        PROVE  /\ p - 1 \in 1 .. N
               /\ Slice(G, A[0], A[p - 1] - A[0]) \o seqs[p] = Slice(G, A[0], A[p] - A[0])
    <3>1. p - 1 \in 1 .. N /\ p - 1 \in 0 .. N /\ p \in 0 .. N
      BY <1>1, <2>1
    <3>2. /\ A[0] \in Nat /\ A[p - 1] \in Nat /\ A[p - 1] - A[0] \in Nat /\ l[p] \in Nat
          /\ A[p] = A[p - 1] + l[p] /\ seqs[p] = Slice(G, A[p - 1], l[p])
      BY <1>2, <1>3, <1>4, <1>7, <3>1
    <3>3. Slice(G, A[0], A[p - 1] - A[0]) \o Slice(G, A[p - 1], l[p]) =
            Slice(G, A[0], A[p] - A[0])
      <4>1. PICK y \in Nat : y = A[0]
        BY <3>2
      <4>2. PICK m \in Nat : m = A[p - 1]
        BY <3>2
      <4>3. PICK d \in Nat : d = l[p]
        BY <3>2
      <4>4. m - y \in Nat /\ A[p] = m + d
        BY <3>2, <4>1, <4>2, <4>3
      <4>5. Slice(G, y, m - y) \o Slice(G, m, d) = Slice(G, y, (m + d) - y)
        BY <1>9, <4>4, SliceAdd
      <4> QED BY <4>1, <4>2, <4>3, <4>4, <4>5
    <3> QED BY <3>1, <3>2, <3>3
  <2>2. 1 \in 1 .. N /\ seqs[1] = Slice(G, A[0], A[1] - A[0])
    <3>1. 1 \in 1 .. N /\ 1 - 1 = 0 /\ 1 \in 0 .. N
      BY <1>1, <1>11
    <3>2. A[1] - A[0] = l[1]
      <4>1. ASSUME NEW y \in Nat, NEW d \in Nat PROVE (y + d) - y = d
        OBVIOUS
      <4>2. A[0] \in Nat /\ l[1] \in Nat /\ A[1] = A[0] + l[1]
        BY <1>2, <1>3, <1>7, <3>1
      <4> QED BY <4>1, <4>2
    <3> QED BY <1>4, <3>1, <3>2
  <2>3. IsFlat(w)
    <3>1. ASSUME NEW p \in 1 .. N
          PROVE  w[p] = IF p = 1 THEN seqs[p] ELSE w[p - 1] \o seqs[p]
      BY <2>1, <2>2
    <3> QED BY <1>5, <3>1
  <2> HIDE DEF w, IsFlat
  <2>4. IsFlat(h)
    BY <2>3
  <2> HIDE DEF h
  <2>5. \A p \in 1 .. N : h[p] = IF p = 1 THEN seqs[p] ELSE h[p - 1] \o seqs[p]
    BY <1>5, <2>4 DEF IsFlat
  <2> DEFINE Good == {p \in 0 .. N : p # 0 => h[p] = Slice(G, A[0], A[p] - A[0])}
  <2>6. 0 \in Good
    BY <1>7
  <2>7. ASSUME NEW p \in 0 .. N - 1, p \in Good
        PROVE  p + 1 \in Good
    <3>1. p + 1 \in 1 .. N /\ p + 1 \in 0 .. N /\ (p + 1) - 1 = p
      BY <1>1
    <3>2. CASE p = 0
      BY <2>2, <2>5, <3>1, <3>2
    <3>3. CASE p # 0
      <4>1. p + 1 # 1
        BY <3>3, <1>1
      <4>2. h[p + 1] = h[p] \o seqs[p + 1]
        BY <2>5, <3>1, <4>1
      <4>3. h[p] = Slice(G, A[0], A[p] - A[0])
        BY <2>7, <3>3
      <4>4. Slice(G, A[0], A[p] - A[0]) \o seqs[p + 1] = Slice(G, A[0], A[p + 1] - A[0])
        BY <2>1, <3>1, <4>1
      <4> QED BY <3>1, <4>2, <4>3, <4>4
    <3> QED BY <3>2, <3>3
  <2>8. \A p \in 0 .. N : p \in Good
    <3> HIDE DEF Good
    <3> QED BY <1>1, <2>6, <2>7, InductUpTo
  <2>9. h[N] = Slice(G, A[0], A[N] - A[0])
    BY <1>7, <1>11, <2>8
  <2>10. Flat(seqs) = h[N]
    BY <1>5, <1>11 DEF Flat, h, IsFlat
  <2> QED BY <1>6, <1>8, <2>9, <2>10 DEF G
<1> QED BY <1>10, <1>11

\* When the program runs its stack is all there, each byte as it should be.
LEMMA WhenRun ==
  ASSUME StackInv, stack_stage = "run"
  PROVE  /\ DOMAIN stack_mem = U!user_stack .. Top - 1
         /\ \A a \in U!user_stack .. Top - 1 :
              stack_mem[a] = ByteAt(a) /\ a \div Page \in mapped
<1>1. Covered(DOMAIN stack_mem, U!user_stack, Top)
  BY DEF StackInv, Laid
<1> QED BY <1>1 DEF StackInv, StackImage, Covered

LEMMA ReadArgument ==
  ASSUME StackInv, stack_stage = "run", NEW n \in 1 .. Len(argv)
  PROVE  U!ReadFrom(U!argvs + Sums(argv)[n - 1]) = U!Joined("arg", argv, n)
<1>1. /\ StackTyped /\ argv \in Seq(Nat) /\ Len(argv) \in Nat
      /\ U!argvs \in Int /\ U!envvs \in Int /\ U!user_stack \in Int
      /\ Sums(argv)[Len(argv)] \in Nat /\ Sums(envv)[Len(envv)] \in Nat
      /\ U!user_stack < U!envvs /\ U!envvs = U!argvs - Sums(envv)[Len(envv)]
      /\ U!argvs = Top - Sums(argv)[Len(argv)] /\ Top \in Nat
  BY InvTyped, Layout, StackConstants DEF StackTyped
<1>2. n \in 1 .. Len(argv) + 1 /\ n - 1 \in 0 .. Len(argv) /\ Len(argv) \in 0 .. Len(argv)
  BY <1>1
<1>3. PICK x \in Nat : x = Sums(argv)[n - 1]
  BY <1>1, <1>2, SumsExist DEF SumsOf
<1>4. PICK t \in Nat : t = Sums(argv)[Len(argv)]
  BY <1>1
<1>20. PICK A \in Int : A = U!argvs
  BY <1>1
<1>21. PICK B \in Int : B = U!user_stack
  BY <1>1
<1>22. PICK E \in Int : E = U!envvs
  BY <1>1
<1>23. PICK T \in Nat : T = Top
  BY <1>1
<1>24. PICK e \in Nat : e = Sums(envv)[Len(envv)]
  BY <1>1
<1>5. x <= t
  BY <1>1, <1>2, <1>3, <1>4, SumsGrow
<1> DEFINE G == StringBytes("arg", argv)
           len == t - x
<1>6. U!Joined("arg", argv, n) = Slice(G, x, len)
  BY <1>1, <1>2, <1>3, <1>4, JoinedIs
<1>25. A = T - t /\ E = A - e /\ B < E
  BY <1>1, <1>4, <1>20, <1>21, <1>22, <1>23, <1>24
<1>7. A = T - t /\ A >= E /\ A >= B /\ len \in Nat
  BY <1>5, <1>25
<1>8. \A b \in 1 .. len : stack_mem[A + x + b - 1] = G[x + b - 1]
  <2> SUFFICES ASSUME NEW b \in 1 .. len
               PROVE  stack_mem[A + x + b - 1] = G[x + b - 1]
    OBVIOUS
  <2> DEFINE a == A + x + b - 1
  <2>1. /\ a \in B .. T - 1 /\ ~ (a < A) /\ ~ (a < E)
        /\ a - A = x + b - 1 /\ x + b - 1 \in Nat
    BY <1>5, <1>7
  <2> HIDE DEF a
  <2>2. stack_mem[a] = StringByte("arg", argv, a - A)
    BY <2>1, <1>20, <1>21, <1>22, <1>23, WhenRun DEF ByteAt
  <2>3. stack_mem[a] = G[x + b - 1]
    BY <2>1, <2>2 DEF StringBytes
  <2> QED BY <2>3 DEF a
<1>9. U!ReadFrom(A + x) = [b \in 1 .. len |-> stack_mem[A + x + b - 1]]
  <2>1. T - (A + x) = len /\ U!USER_STACK_TOP = T
    BY <1>7, <1>23 DEF Top
  <2> QED BY <2>1 DEF U!ReadFrom
<1>10. U!ReadFrom(A + x) = Slice(G, x, len)
  BY <1>8, <1>9 DEF Slice
<1> QED BY <1>3, <1>6, <1>10, <1>20

LEMMA ReadVariable ==
  ASSUME StackInv, stack_stage = "run", NEW n \in 1 .. Len(envv)
  PROVE  U!ReadFrom(U!envvs + Sums(envv)[n - 1])
           = U!Joined("env", envv, n) \o U!Joined("arg", argv, 1)
<1>1. /\ StackTyped /\ argv \in Seq(Nat) /\ Len(argv) \in Nat
      /\ envv \in Seq(Nat) /\ Len(envv) \in Nat
      /\ U!argvs \in Int /\ U!envvs \in Int /\ U!user_stack \in Int
      /\ Sums(argv)[Len(argv)] \in Nat /\ Sums(envv)[Len(envv)] \in Nat
      /\ U!user_stack < U!envvs /\ U!envvs = U!argvs - Sums(envv)[Len(envv)]
      /\ U!argvs = Top - Sums(argv)[Len(argv)] /\ Top \in Nat
  BY InvTyped, Layout, StackConstants DEF StackTyped
<1>2. /\ n \in 1 .. Len(envv) + 1 /\ n - 1 \in 0 .. Len(envv)
      /\ Len(envv) \in 0 .. Len(envv) /\ 1 \in 1 .. Len(argv) + 1
  BY <1>1
<1>3. PICK x \in Nat : x = Sums(envv)[n - 1]
  BY <1>1, <1>2, SumsExist DEF SumsOf
<1>4. PICK e \in Nat : e = Sums(envv)[Len(envv)]
  BY <1>1
<1>5. PICK t \in Nat : t = Sums(argv)[Len(argv)]
  BY <1>1
<1>20. PICK A \in Int : A = U!argvs
  BY <1>1
<1>21. PICK B \in Int : B = U!user_stack
  BY <1>1
<1>22. PICK E \in Int : E = U!envvs
  BY <1>1
<1>23. PICK T \in Nat : T = Top
  BY <1>1
<1>6. x <= e /\ Sums(argv)[1 - 1] = 0
  <2>1. Sums(argv)[0] = 0
    BY <1>1, SumsExist DEF SumsOf
  <2>2. n - 1 \in 0 .. Len(envv) /\ Sums(envv)[n - 1] <= Sums(envv)[Len(envv)]
    BY <1>1, <1>2, SumsGrow
  <2> QED BY <1>3, <1>4, <2>1, <2>2
<1>25. A = T - t /\ E = A - e /\ B < E
  BY <1>1, <1>4, <1>5, <1>20, <1>21, <1>22, <1>23
<1> DEFINE G == StringBytes("env", envv)
           ArgBytes == StringBytes("arg", argv)
           S == {G[y] : y \in Nat} \union {ArgBytes[y] : y \in Nat}
           p == e - x
           u == Slice(G, x, p)
           v == Slice(ArgBytes, 0, t)
<1>7. U!Joined("env", envv, n) = u
  BY <1>1, <1>2, <1>3, <1>4, JoinedIs
<1>8. U!Joined("arg", argv, 1) = v
  <2>1. U!Joined("arg", argv, 1) = Slice(ArgBytes, Sums(argv)[1 - 1], t - Sums(argv)[1 - 1])
    BY <1>1, <1>2, <1>5, JoinedIs
  <2>2. t - 0 = t
    OBVIOUS
  <2> QED BY <1>6, <2>1, <2>2
<1>9. E = A - e /\ A = T - t /\ p \in Nat /\ p + t \in Nat /\ E >= B
  BY <1>6, <1>25
<1>10. /\ u \in Seq(S) /\ Len(u) = p /\ \A b \in 1 .. p : u[b] = G[x + b - 1]
       /\ v \in Seq(S) /\ Len(v) = t /\ \A b \in 1 .. t : v[b] = ArgBytes[0 + b - 1]
  <2>1. \A y \in Nat : G[y] \in S /\ ArgBytes[y] \in S
    OBVIOUS
  <2> HIDE DEF G, ArgBytes, S, p
  <2>2. u \in Seq(S) /\ Len(u) = p /\ \A b \in 1 .. p : u[b] = G[x + b - 1]
    <3>1. \A b \in 1 .. p : x + b - 1 \in Nat
      BY <1>9
    <3>2. u \in [1 .. p -> S]
      BY <2>1, <3>1 DEF Slice
    <3>3. \A b \in 1 .. p : u[b] = G[x + b - 1]
      BY DEF Slice
    <3> HIDE DEF u
    <3> QED BY <1>9, <3>2, <3>3
  <2>3. v \in Seq(S) /\ Len(v) = t /\ \A b \in 1 .. t : v[b] = ArgBytes[0 + b - 1]
    <3>1. \A b \in 1 .. t : 0 + b - 1 \in Nat
      OBVIOUS
    <3>2. v \in [1 .. t -> S]
      BY <2>1, <3>1 DEF Slice
    <3> QED BY <3>2 DEF Slice
  <2> QED BY <2>2, <2>3
<1> HIDE DEF G, ArgBytes, S, p, u, v
<1>11. /\ u \o v \in Seq(S) /\ Len(u \o v) = p + t
       /\ \A b \in 1 .. p + t : (u \o v)[b] = IF b <= p THEN u[b] ELSE v[b - p]
  BY <1>10, ConcatProperties
<1>12. ASSUME NEW b \in 1 .. p + t
       PROVE  stack_mem[E + x + b - 1] = (u \o v)[b]
  <2> DEFINE a == E + x + b - 1
  <2>1. CASE b <= p
    <3>1. /\ a \in B .. T - 1 /\ a < A /\ ~ (a < E)
          /\ a - E = x + b - 1 /\ x + b - 1 \in Nat /\ b \in 1 .. p
      BY <1>6, <1>9, <2>1 DEF p
    <3> HIDE DEF a
    <3>2. stack_mem[a] = StringByte("env", envv, a - E)
      BY <3>1, <1>20, <1>21, <1>22, <1>23, WhenRun DEF ByteAt
    <3>3. stack_mem[a] = G[x + b - 1]
      BY <3>1, <3>2 DEF StringBytes, G
    <3>4. (u \o v)[b] = G[x + b - 1]
      BY <1>10, <1>11, <2>1, <3>1
    <3> QED BY <3>3, <3>4 DEF a
  <2>2. CASE ~ (b <= p)
    <3>1. /\ a \in B .. T - 1 /\ ~ (a < A) /\ ~ (a < E)
          /\ a - A = 0 + (b - p) - 1 /\ 0 + (b - p) - 1 \in Nat /\ b - p \in 1 .. t
      BY <1>6, <1>9, <2>2 DEF p
    <3> HIDE DEF a
    <3>2. stack_mem[a] = StringByte("arg", argv, a - A)
      BY <3>1, <1>20, <1>21, <1>22, <1>23, WhenRun DEF ByteAt
    <3>3. stack_mem[a] = ArgBytes[0 + (b - p) - 1]
      BY <3>1, <3>2 DEF StringBytes, ArgBytes
    <3>4. (u \o v)[b] = ArgBytes[0 + (b - p) - 1]
      BY <1>10, <1>11, <2>2, <3>1
    <3> QED BY <3>3, <3>4 DEF a
  <2> QED BY <2>1, <2>2
<1>13. U!ReadFrom(E + x) = [b \in 1 .. p + t |-> stack_mem[E + x + b - 1]]
  <2>1. T - (E + x) = p + t /\ U!USER_STACK_TOP = T
    BY <1>9, <1>23 DEF Top, p
  <2> QED BY <2>1 DEF U!ReadFrom
<1>14. u \o v = [b \in 1 .. p + t |-> (u \o v)[b]]
  <2>1. u \o v \in [1 .. Len(u \o v) -> S]
    BY <1>11, LenProperties
  <2> QED BY <1>11, <2>1
<1>15. U!ReadFrom(E + x) = u \o v
  BY <1>12, <1>13, <1>14
<1> QED BY <1>3, <1>7, <1>8, <1>15, <1>22

(***************************************************************************)
(* The invariant gives what a program finds.                               *)
(***************************************************************************)
LEMMA InvAsGiven == ASSUME StackInv PROVE StackAsGiven
<1>1. /\ StackTyped /\ argv \in Seq(Nat) /\ envv \in Seq(Nat)
      /\ Len(argv) \in Nat /\ Len(envv) \in Nat
      /\ DOMAIN argv = 1 .. Len(argv) /\ DOMAIN envv = 1 .. Len(envv)
      /\ U!user_stack < U!envvs /\ U!user_stack \in Int /\ U!envvs \in Int
      /\ U!envvs <= Top /\ Top \in Nat
  BY InvTyped, Layout, StackConstants DEF StackTyped
<1>2. ASSUME stack_stage = "run", NEW bytes,
             \A a \in DOMAIN bytes :
               a \in U!user_stack .. Top - 1 /\ bytes[a] = ByteAt(a)
      PROVE  U!Holds(bytes)
  BY <1>2, WhenRun DEF U!Holds
<1>3. \A n \in 1 .. Len(argv) : U!Before(argv, n) = Sums(argv)[n - 1]
  BY <1>1, TotalOf
<1>4. \A n \in 1 .. Len(envv) : U!Before(envv, n) = Sums(envv)[n - 1]
  BY <1>1, TotalOf
<1>5. ASSUME stack_stage = "run", NEW k \in 0 .. Words - 1, NEW v, v = WordAt(k)
      PROVE  U!Holds(U!Word(k, v))
  <2>1. \A a \in DOMAIN U!Word(k, v) :
          a \in U!user_stack .. Top - 1 /\ U!Word(k, v)[a] = ByteAt(a)
    BY <1>1, <1>5, BytesRight
  <2> QED BY <1>2, <1>5, <2>1
<1>6. U!StackHolds
  <2> SUFFICES ASSUME stack_stage = "run"
               PROVE  /\ U!Holds(U!Word(0, Len(argv))) /\ U!Holds(U!Word(1 + Len(argv), 0))
                      /\ U!Holds(U!Word(2 + Len(argv) + Len(envv), 0)) /\ U!Holds(U!AuxNull)
                      /\ \A n \in DOMAIN argv :
                           LET a == U!argvs + U!Before(argv, n)
                           IN  U!Holds(U!Word(n, a)) /\ U!Holds(U!String("arg", n, argv[n], a))
                      /\ \A n \in DOMAIN envv :
                           LET a == U!envvs + U!Before(envv, n)
                           IN  /\ U!Holds(U!Word(1 + Len(argv) + n, a))
                               /\ U!Holds(U!String("env", n, envv[n], a))
    BY DEF U!StackHolds
  <2>1. /\ 0 \in 0 .. Words - 1 /\ 1 + Len(argv) \in 0 .. Words - 1
        /\ \A k \in 2 + Len(argv) + Len(envv) .. Words - 1 : k \in 0 .. Words - 1
        /\ \A n \in 1 .. Len(argv) : n \in 0 .. Words - 1
        /\ \A n \in 1 .. Len(envv) : 1 + Len(argv) + n \in 0 .. Words - 1
        /\ 2 + Len(argv) + Len(envv) \in 2 + Len(argv) + Len(envv) .. Words - 1
        /\ 3 + Len(argv) + Len(envv) \in 2 + Len(argv) + Len(envv) .. Words - 1
        /\ 4 + Len(argv) + Len(envv) \in 2 + Len(argv) + Len(envv) .. Words - 1
    BY <1>1 DEF Words
  <2>2. U!Holds(U!Word(0, Len(argv))) /\ U!Holds(U!Word(1 + Len(argv), 0))
    BY <1>1, <1>5, <2>1, WordValues
  <2>3. \A k \in 2 + Len(argv) + Len(envv) .. Words - 1 : U!Holds(U!Word(k, 0))
    BY <1>1, <1>5, <2>1, WordValues
  <2>4. U!Holds(U!AuxNull)
    BY <2>1, <2>3 DEF U!Holds, U!AuxNull, U!Upon
  <2>5. ASSUME NEW n \in DOMAIN argv, NEW a, a = U!argvs + U!Before(argv, n)
        PROVE  U!Holds(U!Word(n, a)) /\ U!Holds(U!String("arg", n, argv[n], a))
    <3>1. a = U!argvs + Sums(argv)[n - 1] /\ n \in 1 .. Len(argv)
      BY <1>1, <1>3, <2>5
    <3>2. U!Holds(U!Word(n, a))
      BY <1>1, <1>5, <2>1, <3>1, WordValues
    <3>3. \A x \in DOMAIN U!String("arg", n, argv[n], a) :
            x \in U!user_stack .. Top - 1 /\ U!String("arg", n, argv[n], a)[x] = ByteAt(x)
      BY <1>1, <3>1, BytesRight
    <3> QED BY <1>2, <3>2, <3>3
  <2>6. ASSUME NEW n \in DOMAIN envv, NEW a, a = U!envvs + U!Before(envv, n)
        PROVE  /\ U!Holds(U!Word(1 + Len(argv) + n, a))
               /\ U!Holds(U!String("env", n, envv[n], a))
    <3>1. a = U!envvs + Sums(envv)[n - 1] /\ n \in 1 .. Len(envv)
      BY <1>1, <1>4, <2>6
    <3>2. U!Holds(U!Word(1 + Len(argv) + n, a))
      BY <1>1, <1>5, <2>1, <3>1, WordValues
    <3>3. \A x \in DOMAIN U!String("env", n, envv[n], a) :
            x \in U!user_stack .. Top - 1 /\ U!String("env", n, envv[n], a)[x] = ByteAt(x)
      BY <1>1, <3>1, BytesRight
    <3> QED BY <1>2, <3>2, <3>3
  <2> QED BY <2>1, <2>2, <2>3, <2>4, <2>5, <2>6
<1>7. U!StringsRunOn
  <2> SUFFICES ASSUME stack_stage = "run"
               PROVE  /\ TOP_PAGE \in mapped /\ U!USER_STACK_TOP \notin DOMAIN stack_mem
                      /\ \A n \in DOMAIN argv :
                           U!ReadFrom(U!argvs + U!Before(argv, n)) = U!Joined("arg", argv, n)
                      /\ \A n \in DOMAIN envv :
                           U!ReadFrom(U!envvs + U!Before(envv, n))
                             = U!Joined("env", envv, n) \o U!Joined("arg", argv, 1)
    BY DEF U!StringsRunOn
  <2>1. U!USER_STACK_TOP \notin DOMAIN stack_mem
    <3>1. Top \notin U!user_stack .. Top - 1
      BY <1>1
    <3> QED BY <3>1, WhenRun DEF Top
  <2>2. TOP_PAGE \in mapped
    <3>1. Top - 1 \in U!user_stack .. Top - 1
      BY <1>1
    <3>2. /\ Page \in Nat /\ Page > 2 * WORD /\ WORD \in Nat \ {0} /\ TOP_PAGE \in Nat
          /\ Top = (TOP_PAGE + 1) * Page - 1
      BY StackConstants
    <3>3. Page \in Nat \ {0} /\ Page - 2 \in 0 .. Page - 1
      BY <3>2
    <3>4. Top - 1 = Page * TOP_PAGE + (Page - 2)
      <4>1. ASSUME NEW x \in Nat, NEW y \in Nat PROVE ((x + 1) * y - 1) - 1 = y * x + (y - 2)
        OBVIOUS
      <4> QED BY <3>2, <4>1
    <3>5. (Top - 1) \div Page = TOP_PAGE
      BY <3>2, <3>3, <3>4, DivideOnce
    <3> QED BY <3>1, <3>5, WhenRun
  <2>3. \A n \in DOMAIN argv :
          U!ReadFrom(U!argvs + U!Before(argv, n)) = U!Joined("arg", argv, n)
    BY <1>1, <1>3, ReadArgument
  <2>4. \A n \in DOMAIN envv :
          U!ReadFrom(U!envvs + U!Before(envv, n))
            = U!Joined("env", envv, n) \o U!Joined("arg", argv, 1)
    BY <1>1, <1>4, ReadVariable
  <2> QED BY <2>1, <2>2, <2>3, <2>4
<1>8. U!PanicsExplained
  BY DEF StackInv
<1> QED BY <1>6, <1>7, <1>8 DEF StackAsGiven

(***************************************************************************)
(* Every program that runs finds on its stack what do_exec was given: the  *)
(* number of its arguments, the pointers to them and to its environment,   *)
(* and at each pointer its string, which runs on into those that follow    *)
(* (do_exec.c:9-27, exec_process.c:44-92).                                 *)
(***************************************************************************)
THEOREM StackIsAsGiven == Spec => []StackAsGiven
<1>1. Init => StackInv
  BY StackInit
<1>2. StackInv /\ [Next]_vars => StackInv'
  BY StackStep
<1>3. StackInv => StackAsGiven
  BY InvAsGiven
<1> QED BY <1>1, <1>2, <1>3, PTL DEF Spec

-----------------------------------------------------------------------------
(***************************************************************************)
(* The loader: what its constants and files are.                           *)
(***************************************************************************)
LEMMA LoaderConstants ==
  /\ PAGE_SIZE \in Nat \ {0} /\ WINDOW \in Nat \ {0} /\ WINDOW_END \in Nat
  /\ WINDOW <= WINDOW_END /\ WINDOW_END < 2 * WINDOW
BY ProgramAssumption DEF L!Constants

LEMMA FileTyped ==
  ASSUME NEW f \in Files
  PROVE  /\ Len(f.phdrs) \in Nat /\ DOMAIN f.phdrs = 1 .. Len(f.phdrs)
         /\ \A n \in DOMAIN f.phdrs :
              /\ f.phdrs[n].memsz \in Nat /\ f.phdrs[n].filesz \in Nat
              /\ f.phdrs[n].filesz <= f.phdrs[n].memsz
              /\ f.phdrs[n].vaddr \in Nat /\ f.phdrs[n].w \in BOOLEAN
              /\ f.phdrs[n].type \in {"PT_LOAD", "PT_DYNAMIC", "other"}
         /\ f.dynamic \in Seq(L!Dyn) /\ f.syms \in Seq(L!Sym)
         /\ f.relocs \in Seq([at : Nat, sym : 0 .. Len(f.syms)])
<1>1. /\ f.phdrs \in Seq(L!Phdrs)
      /\ f.dynamic \in Seq(L!Dyn) /\ f.syms \in Seq(L!Sym)
      /\ f.relocs \in Seq([at : Nat, sym : 0 .. Len(f.syms)])
  BY ProgramAssumption DEF L!Constants
<1>2. Len(f.phdrs) \in Nat /\ DOMAIN f.phdrs = 1 .. Len(f.phdrs)
  BY <1>1
<1>3. ASSUME NEW n \in DOMAIN f.phdrs PROVE f.phdrs[n] \in L!Phdrs
  BY <1>1
<1>4. \A p \in L!Phdrs : /\ p.memsz \in Nat /\ p.filesz \in Nat /\ p.filesz <= p.memsz
                         /\ p.vaddr \in Nat /\ p.w \in BOOLEAN
                         /\ p.type \in {"PT_LOAD", "PT_DYNAMIC", "other"}
  BY DEF L!Phdrs, L!SegmentTypes
<1> QED BY <1>1, <1>2, <1>3, <1>4

\* The pages that are requested are enough.
LEMMA PagesEnough ==
  ASSUME NEW size \in Nat
  PROVE  PAGE_SIZE * L!NPages(size) \in Nat /\ size <= PAGE_SIZE * L!NPages(size)
<1> DEFINE q == size \div PAGE_SIZE
           r == size % PAGE_SIZE
           n == (q + 1) * PAGE_SIZE
<1>1. PAGE_SIZE \in Nat \ {0}
  BY LoaderConstants
<1>2. q \in Int /\ r \in 0 .. PAGE_SIZE - 1 /\ size = PAGE_SIZE * q + r
  BY <1>1, DivideIs
<1>3. q \in Nat
  BY <1>1
<1> HIDE DEF q, r
<1>4. n = PAGE_SIZE * q + PAGE_SIZE /\ PAGE_SIZE * q \in Nat
  BY <1>1, <1>3
<1>5. n \in Nat /\ size <= n
  BY <1>1, <1>2, <1>4
<1>6. L!NPages(size) = n
  BY DEF L!NPages, q
<1> HIDE DEF n
<1>7. PAGE_SIZE * n \in Nat /\ n <= PAGE_SIZE * n
  <2>1. PICK p \in Nat : PAGE_SIZE = p + 1
    <3>1. PAGE_SIZE - 1 \in Nat /\ PAGE_SIZE = (PAGE_SIZE - 1) + 1
      BY <1>1
    <3> QED BY <3>1
  <2>2. (p + 1) * n = p * n + n /\ p * n \in Nat
    BY <1>5
  <2> QED BY <1>5, <2>1, <2>2
<1> QED BY <1>5, <1>6, <1>7

LoadsOf(f) == {n \in DOMAIN f.phdrs : f.phdrs[n].type = "PT_LOAD"}
Upto(f, n) == {k \in LoadsOf(f) : k <= n}
CountTo(f, n) == Cardinality(Upto(f, n))

LEMMA LoadsAre ==
  /\ L!Loads = LoadsOf(file)
  /\ \A n : L!LoadsTo(n) = CountTo(file, n)
  /\ L!Cardinality(L!Loads) = Cardinality(LoadsOf(file))
<1>1. \A t : L!Cardinality(t) = Cardinality(t)
  BY Zenon DEF L!Cardinality, Cardinality
<1>2. L!Loads = LoadsOf(file)
  BY DEF L!Loads, LoadsOf
<1>3. \A n : {k \in L!Loads : k <= n} = Upto(file, n)
  BY <1>2 DEF Upto
<1> QED BY <1>1, <1>2, <1>3 DEF L!LoadsTo, CountTo

LEMMA Counting ==
  ASSUME NEW f \in Files
  PROVE  /\ CountTo(f, 0) = 0
         /\ \A n \in 1 .. Len(f.phdrs) :
              CountTo(f, n) = CountTo(f, n - 1) + (IF n \in LoadsOf(f) THEN 1 ELSE 0)
         /\ CountTo(f, Len(f.phdrs)) = Cardinality(LoadsOf(f))
         /\ \A n \in 0 .. Len(f.phdrs) : CountTo(f, n) \in Nat
         /\ \A n \in 0 .. Len(f.phdrs) : \A m \in 0 .. n : CountTo(f, m) <= CountTo(f, n)
<1>1. /\ Len(f.phdrs) \in Nat /\ DOMAIN f.phdrs = 1 .. Len(f.phdrs)
      /\ LoadsOf(f) \subseteq 1 .. Len(f.phdrs)
  BY FileTyped DEF LoadsOf
<1>2. \A n \in Int : IsFiniteSet(Upto(f, n))
  <2>1. IsFiniteSet(1 .. Len(f.phdrs))
    <3>1. 1 \in Int /\ Len(f.phdrs) \in Int
      BY <1>1
    <3> QED BY <3>1, FS_Interval
  <2>2. \A n \in Int : Upto(f, n) \subseteq 1 .. Len(f.phdrs)
    BY <1>1 DEF Upto
  <2> QED BY <2>1, <2>2, FS_Subset
<1>3. CountTo(f, 0) = 0
  <2>1. Upto(f, 0) = {}
    BY <1>1 DEF Upto
  <2> QED BY <2>1, FS_EmptySet DEF CountTo
<1>4. ASSUME NEW n \in 1 .. Len(f.phdrs)
      PROVE  CountTo(f, n) = CountTo(f, n - 1) + (IF n \in LoadsOf(f) THEN 1 ELSE 0)
  <2>1. n - 1 \in Int /\ n \notin Upto(f, n - 1) /\ IsFiniteSet(Upto(f, n - 1))
    BY <1>1, <1>2 DEF Upto
  <2>2. Cardinality(Upto(f, n - 1)) \in Nat
    BY <2>1, FS_CardinalityType
  <2>3. CASE n \in LoadsOf(f)
    <3>1. Upto(f, n) = Upto(f, n - 1) \union {n}
      BY <1>1, <2>3 DEF Upto
    <3>2. Cardinality(Upto(f, n - 1) \union {n}) = Cardinality(Upto(f, n - 1)) + 1
      BY <2>1, FS_AddElement
    <3> QED BY <2>3, <3>1, <3>2 DEF CountTo
  <2>4. CASE n \notin LoadsOf(f)
    <3>1. Upto(f, n) = Upto(f, n - 1)
      BY <1>1, <2>4 DEF Upto
    <3> QED BY <2>2, <2>4, <3>1 DEF CountTo
  <2> QED BY <2>3, <2>4
<1>5. CountTo(f, Len(f.phdrs)) = Cardinality(LoadsOf(f))
  <2>1. Upto(f, Len(f.phdrs)) = LoadsOf(f)
    BY <1>1 DEF Upto
  <2> QED BY <2>1 DEF CountTo
<1>6. \A n \in 0 .. Len(f.phdrs) : CountTo(f, n) \in Nat
  <2>1. \A n \in 0 .. Len(f.phdrs) : n \in Int
    BY <1>1
  <2> QED BY <2>1, <1>2, FS_CardinalityType DEF CountTo
<1>7. ASSUME NEW n \in 0 .. Len(f.phdrs), NEW m \in 0 .. n
      PROVE  CountTo(f, m) <= CountTo(f, n)
  <2>1. Upto(f, m) \subseteq Upto(f, n) /\ IsFiniteSet(Upto(f, n))
    <3>1. n \in Int /\ m \in Int /\ m <= n
      BY <1>1
    <3> QED BY <1>1, <1>2, <3>1 DEF Upto
  <2> QED BY <2>1, FS_Subset DEF CountTo
<1> QED BY <1>3, <1>4, <1>5, <1>6, <1>7

-----------------------------------------------------------------------------
(***************************************************************************)
(* The invariant of the loader.  A segment's block holds the words of the  *)
(* file and then nothing; blocks lie below vm_arena_head, where the next   *)
(* one begins.                                                             *)
(***************************************************************************)
Block(f, h, words, n, ref) ==
  /\ ref >= WINDOW /\ ref + f.phdrs[n].memsz <= h
  /\ \A x \in 1 .. f.phdrs[n].filesz :
       ref + x - 1 \in DOMAIN words /\ words[ref + x - 1] = <<"file", n, x>>
  /\ \A x \in f.phdrs[n].filesz + 1 .. f.phdrs[n].memsz : ref + x - 1 \notin DOMAIN words

Placed(f, h, words, n, m) ==
  /\ m.begin = f.phdrs[n].vaddr /\ m.end = f.phdrs[n].vaddr + f.phdrs[n].memsz
  /\ m.w = f.phdrs[n].w
  /\ f.phdrs[n].filesz > 0 => Block(f, h, words, n, m.data_ref)

AllPlaced(f, h, words, maps, c) ==
  /\ Len(maps) = CountTo(f, c - 1) /\ DOMAIN words \subseteq WINDOW .. h - 1
  /\ \A n \in LoadsOf(f) : n < c => Placed(f, h, words, n, maps[CountTo(f, n)])

\* A module's first segment where it will run.
First(f) == Min(LoadsOf(f))
Installed(f, base, words) ==
  \A x \in 1 .. f.phdrs[First(f)].filesz :
    LET a == base + f.phdrs[First(f)].vaddr + x - 1
    IN  a \in DOMAIN words /\ words[a] = <<"file", First(f), x>>

Placing(f, h, words, maps, base, c) ==
  /\ base >= WINDOW /\ c \in Nat \ {0} /\ Len(maps) = Cardinality(LoadsOf(f))
  /\ LoadsOf(f) # {} /\ f.phdrs[First(f)].filesz > 0 =>
       /\ maps[1].end - maps[1].begin = f.phdrs[First(f)].memsz
       /\ c = 1 => Placed(f, h, words, First(f), maps[1])
       /\ c > 1 => maps[1].begin >= WINDOW /\ Installed(f, base, words)

\* The relocations that the loop comes to, from the first of the first table on.
RelocAt(f, r, k) == IF r + k <= Len(f.relocs) THEN f.relocs[r + k]
                    ELSE [at |-> 0, sym |-> 0]
Hits(f, r, k) == /\ RelocAt(f, r, k).sym # 0
                 /\ f.syms[RelocAt(f, r, k).sym].name \in Exports
Right(f, r, base, words, c, x) ==
  LET a == base + f.phdrs[First(f)].vaddr + x - 1
  IN  /\ a \in DOMAIN words
      /\ \/ \E k \in 1 .. c - 1 :
              /\ Hits(f, r, k) /\ base + RelocAt(f, r, k).at = a
              /\ words[a] = <<"export", f.syms[RelocAt(f, r, k).sym].name, 0>>
         \/ /\ \A k \in 1 .. c - 1 : ~ (Hits(f, r, k) /\ base + RelocAt(f, r, k).at = a)
            /\ words[a] = <<"file", First(f), x>>
Ready(f, r, base, words, c) ==
  LoadsOf(f) # {} =>
    \A x \in 1 .. f.phdrs[First(f)].filesz : Right(f, r, base, words, c, x)

\* What the dynamic section gives.
PlacesOf(f, tag) == {k \in 1 .. Len(f.dynamic) : f.dynamic[k].d_tag = tag}
HasIn(f, tag) == PlacesOf(f, tag) # {}
ValueIn(f, tag) == f.dynamic[Max(PlacesOf(f, tag))].d_val
NumberIn(f, tag) == IF HasIn(f, tag) THEN ValueIn(f, tag) ELSE 0
Named(f) == HasIn(f, "DT_SYMTAB") /\ HasIn(f, "DT_STRTAB")
Relocated(f) == HasIn(f, "DT_RELA") \/ HasIn(f, "DT_JMPREL")
RelaOf(f) == IF HasIn(f, "DT_RELA") THEN ValueIn(f, "DT_RELA")
             ELSE ValueIn(f, "DT_JMPREL")

\* When all relocations were gone through, if there are any.
AllReady(f, base, words) ==
  \E c \in Nat :
    /\ IF Relocated(f) THEN c > NumberIn(f, "DT_RELASZ") + NumberIn(f, "DT_PLTRELSZ")
                       ELSE c = 1
    /\ Ready(f, RelaOf(f), base, words, c)
EntersInit(f, base, at) == \E s \in ToSet(f.syms) : s.name = "init_module"
/\ at = base + s.value

Maps == [begin : Int, end : Int, data_ref : Int, w : BOOLEAN]
LoadInv ==
  /\ file \in Files /\ head \in WINDOW .. WINDOW_END
  /\ base_vaddr \in Nat /\ max_vaddr \in Nat /\ base_addr \in Nat
  /\ mappings \in Seq(Maps)
  /\ stage = "header" => i = 1 /\ AllPlaced(file, head, mem, mappings, 1)
  /\ stage = "phdrs" => /\ i \in 1 .. Len(file.phdrs) + 1
                        /\ AllPlaced(file, head, mem, mappings, i)
  /\ stage = "exec_process" =>
       AllPlaced(file, head, mem, mappings, Len(file.phdrs) + 1)
  /\ stage = "place" => Placing(file, head, mem, mappings, base_addr, i)
  /\ stage = "resolve" => /\ Relocated(file) /\ i \in Nat \ {0}
                          /\ Ready(file, RelaOf(file), base_addr, mem, i)
  /\ stage = "lookup" => (Named(file) => AllReady(file, base_addr, mem))
  /\ stage = "loaded" => AllReady(file, base_addr, mem) /\ EntersInit(file, base_addr, i)

LEMMA BlockStays ==
  ASSUME NEW f \in Files, NEW n \in LoadsOf(f), NEW h \in Int, NEW h2 \in Int, h <= h2,
         NEW words, NEW words2, NEW ref \in Int, Block(f, h, words, n, ref),
         \A a \in WINDOW .. h - 1 :
           /\ a \in DOMAIN words2 <=> a \in DOMAIN words
           /\ a \in DOMAIN words => words2[a] = words[a]
  PROVE  Block(f, h2, words2, n, ref)
<1>1. /\ f.phdrs[n].memsz \in Nat /\ f.phdrs[n].filesz \in Nat
      /\ f.phdrs[n].filesz <= f.phdrs[n].memsz
  BY FileTyped DEF LoadsOf
<1>2. WINDOW \in Nat
  BY LoaderConstants
<1>3. PICK m \in Nat : m = f.phdrs[n].memsz
  BY <1>1
<1>4. PICK s \in Nat : s = f.phdrs[n].filesz /\ s <= m
  BY <1>1, <1>3
<1>5. ref >= WINDOW /\ ref + m <= h
  BY <1>3 DEF Block
<1>6. \A x \in 1 .. m : ref + x - 1 \in WINDOW .. h - 1
  BY <1>2, <1>5
<1>7. \A x \in 1 .. s : x \in 1 .. m
  BY <1>4
<1>8. \A x \in s + 1 .. m : x \in 1 .. m
  BY <1>4
<1>9. ref + m <= h2
  BY <1>5
<1>10. \A x \in 1 .. s : ref + x - 1 \in DOMAIN words2
       /\ words2[ref + x - 1] = <<"file", n, x>>
  BY <1>4, <1>6, <1>7 DEF Block
<1>11. \A x \in s + 1 .. m : ref + x - 1 \notin DOMAIN words2
  BY <1>3, <1>4, <1>6, <1>8 DEF Block
<1> QED BY <1>3, <1>4, <1>5, <1>9, <1>10, <1>11 DEF Block

LEMMA FreshBlock ==
  ASSUME file \in Files, NEW n \in LoadsOf(file), NEW h \in Nat, NEW h2 \in Int,
         NEW words, DOMAIN words \subseteq WINDOW .. h - 1, h >= WINDOW,
         h + file.phdrs[n].memsz <= h2,
         NEW words2, words2 = L!Upon(L!Written(h, L!Content(n)), words)
  PROVE  /\ Block(file, h2, words2, n, h) /\ DOMAIN words2 \subseteq WINDOW .. h2 - 1
         /\ \A a \in WINDOW .. h - 1 :
              /\ a \in DOMAIN words2 <=> a \in DOMAIN words
              /\ a \in DOMAIN words => words2[a] = words[a]
<1>1. /\ file.phdrs[n].memsz \in Nat /\ file.phdrs[n].filesz \in Nat
      /\ file.phdrs[n].filesz <= file.phdrs[n].memsz
  BY FileTyped DEF LoadsOf
<1>2. WINDOW \in Nat
  BY LoaderConstants
<1>3. PICK m \in Nat : m = file.phdrs[n].memsz
  BY <1>1
<1>4. PICK s \in Nat : s = file.phdrs[n].filesz /\ s <= m
  BY <1>1, <1>3
<1> DEFINE c == L!Content(n)
           w == L!Written(h, c)
<1>5. Len(c) = s /\ \A x \in 1 .. s : c[x] = <<"file", n, x>>
  BY <1>4 DEF L!Content
<1>6. DOMAIN w = h .. h + s - 1 /\ \A a \in h .. h + s - 1 : w[a] = c[a - h + 1]
  <2> HIDE DEF c
  <2> QED BY <1>5 DEF L!Written
<1> HIDE DEF c, w
<1>7. /\ DOMAIN words2 = DOMAIN w \union DOMAIN words
      /\ \A a \in DOMAIN words2 : words2[a] = IF a \in DOMAIN w THEN w[a] ELSE words[a]
  BY DEF L!Upon, w, c
<1>8. \A x \in 1 .. s :
        h + x - 1 \in DOMAIN words2 /\ words2[h + x - 1] = <<"file", n, x>>
  <2> SUFFICES ASSUME NEW x \in 1 .. s
               PROVE  h + x - 1 \in DOMAIN words2 /\ words2[h + x - 1] = <<"file", n, x>>
    OBVIOUS
  <2> DEFINE a == h + x - 1
  <2>1. a \in h .. h + s - 1 /\ a - h + 1 = x
    OBVIOUS
  <2> HIDE DEF a
  <2>2. a \in DOMAIN words2 /\ words2[a] = <<"file", n, x>>
    BY <1>5, <1>6, <1>7, <2>1
  <2> QED BY <2>2 DEF a
<1>9. \A x \in s + 1 .. m : h + x - 1 \notin DOMAIN words2
  <2> SUFFICES ASSUME NEW x \in s + 1 .. m PROVE h + x - 1 \notin DOMAIN words2
    OBVIOUS
  <2> DEFINE a == h + x - 1
  <2>1. a \notin h .. h + s - 1 /\ a \notin WINDOW .. h - 1
    BY <1>2
  <2> HIDE DEF a
  <2>2. a \notin DOMAIN words2
    BY <1>6, <1>7, <2>1
  <2> QED BY <2>2 DEF a
<1>10. h + m <= h2
  BY <1>3
<1>11. Block(file, h2, words2, n, h)
  BY <1>3, <1>4, <1>8, <1>9, <1>10 DEF Block
<1>12. DOMAIN words2 \subseteq WINDOW .. h2 - 1
  <2>1. \A a \in h .. h + s - 1 : a \in WINDOW .. h2 - 1
    BY <1>2, <1>4, <1>10
  <2>2. \A a \in WINDOW .. h - 1 : a \in WINDOW .. h2 - 1
    BY <1>2, <1>10
  <2> QED BY <1>6, <1>7, <2>1, <2>2
<1>13. \A a \in WINDOW .. h - 1 : a \notin h .. h + s - 1
  BY <1>2
<1> QED BY <1>6, <1>7, <1>11, <1>12, <1>13

LEMMA RequestIs ==
  ASSUME head \in WINDOW .. WINDOW_END, NEW n, PAGE_SIZE * n \in Nat,
         NEW addr \in {L!NULL, head}, L!Request(n, addr)
  PROVE  /\ head' \in head .. WINDOW_END /\ head \in Nat /\ head >= WINDOW /\ head # L!NULL
         /\ addr # L!NULL => addr = head /\ head' = head + PAGE_SIZE * n
<1>1. head \in Nat /\ head >= WINDOW /\ head # 0 /\ WINDOW_END \in Nat /\ head <= WINDOW_END
  BY LoaderConstants
<1>2. CASE L!Fits(n)
  <2>1. head' = head + PAGE_SIZE * n /\ head + PAGE_SIZE * n <= WINDOW_END
    BY <1>2 DEF L!Request, L!Fits
  <2> QED BY <1>1, <2>1 DEF L!NULL
<1>3. CASE ~ L!Fits(n)
  <2>1. addr = L!NULL /\ head' = head
    BY <1>3 DEF L!Request
  <2> QED BY <1>1, <2>1 DEF L!NULL
<1> QED BY <1>2, <1>3

LEMMA NotPlaced ==
  ASSUME NEW f \in Files, NEW c \in 1 .. Len(f.phdrs), c \notin LoadsOf(f),
         NEW h, NEW words, NEW maps, AllPlaced(f, h, words, maps, c)
  PROVE  AllPlaced(f, h, words, maps, c + 1)
<1>1. CountTo(f, c) = CountTo(f, c - 1)
  <2>1. c \in 0 .. Len(f.phdrs) /\ c - 1 \in 0 .. Len(f.phdrs)
    BY FileTyped
  <2> QED BY <2>1, Counting
<1>2. /\ Len(f.phdrs) \in Nat /\ (c + 1) - 1 = c
      /\ \A n \in LoadsOf(f) : n \in 1 .. Len(f.phdrs)
  BY FileTyped DEF LoadsOf
<1>3. \A n \in LoadsOf(f) : n < c + 1 => n < c
  BY <1>2
<1> QED BY <1>1, <1>2, <1>3 DEF AllPlaced

LEMMA OnePlaced ==
  ASSUME NEW f \in Files, NEW c \in LoadsOf(f), NEW h \in Int, NEW h2 \in Int, h <= h2,
         NEW words, NEW words2, NEW maps \in Seq(Maps), NEW m \in Maps,
         AllPlaced(f, h, words, maps, c),
         \A a \in WINDOW .. h - 1 :
           /\ a \in DOMAIN words2 <=> a \in DOMAIN words
           /\ a \in DOMAIN words => words2[a] = words[a],
         DOMAIN words2 \subseteq WINDOW .. h2 - 1, Placed(f, h2, words2, c, m)
  PROVE  AllPlaced(f, h2, words2, Append(maps, m), c + 1)
<1>1. /\ Len(f.phdrs) \in Nat /\ (c + 1) - 1 = c /\ c \in 1 .. Len(f.phdrs)
      /\ \A n \in LoadsOf(f) : n \in 1 .. Len(f.phdrs)
  <2>1. \A n \in LoadsOf(f) : n \in DOMAIN f.phdrs
    BY DEF LoadsOf
  <2>2. c \in 1 .. Len(f.phdrs) /\ Len(f.phdrs) \in Nat
    BY <2>1, FileTyped
  <2> QED BY <2>1, <2>2, FileTyped
<1>2. c - 1 \in 0 .. Len(f.phdrs) /\ c \in 0 .. Len(f.phdrs)
  BY <1>1
<1>3. CountTo(f, c) = CountTo(f, c - 1) + 1 /\ CountTo(f, c - 1) \in Nat
  BY <1>1, <1>2, Counting
<1>4. Len(maps) = CountTo(f, c - 1)
  BY DEF AllPlaced
<1> DEFINE ms == Append(maps, m)
<1>5. /\ Len(ms) = Len(maps) + 1
      /\ \A j \in 1 .. Len(maps) + 1 : ms[j] = IF j = Len(maps) + 1 THEN m ELSE maps[j]
  BY Pushed
<1> HIDE DEF ms
<1>6. ASSUME NEW n \in LoadsOf(f), n < c
      PROVE  Placed(f, h2, words2, n, ms[CountTo(f, n)])
  <2>1. n \in 1 .. Len(f.phdrs) /\ n \in 0 .. c - 1 /\ n \in 0 .. Len(f.phdrs)
        /\ n - 1 \in 0 .. Len(f.phdrs)
    BY <1>1, <1>6
  <2>2. CountTo(f, n) <= CountTo(f, c - 1) /\ CountTo(f, n) = CountTo(f, n - 1) + 1
        /\ CountTo(f, n - 1) \in Nat
    BY <1>2, <2>1, Counting
  <2>3. /\ CountTo(f, n) \in 1 .. Len(maps) /\ Len(maps) \in Nat
        /\ CountTo(f, n) \in 1 .. Len(maps) + 1 /\ CountTo(f, n) # Len(maps) + 1
    BY <1>3, <1>4, <2>2
  <2>4. ms[CountTo(f, n)] = maps[CountTo(f, n)]
    BY <1>5, <2>3
  <2>5. Placed(f, h, words, n, maps[CountTo(f, n)])
    BY <1>6 DEF AllPlaced
  <2>6. maps[CountTo(f, n)].data_ref \in Int
    <3>1. maps[CountTo(f, n)] \in Maps
      BY <2>3
    <3> QED BY <3>1 DEF Maps
  <2>7. f.phdrs[n].filesz > 0 => Block(f, h2, words2, n, maps[CountTo(f, n)].data_ref)
    BY <2>5, <2>6, BlockStays DEF Placed
  <2> QED BY <2>4, <2>5, <2>7 DEF Placed
<1>7. ms[CountTo(f, c)] = m
  BY <1>3, <1>4, <1>5
<1>8. ASSUME NEW n \in LoadsOf(f), n < c + 1
      PROVE  Placed(f, h2, words2, n, ms[CountTo(f, n)])
  <2>1. n < c \/ n = c
    BY <1>1, <1>8
  <2> QED BY <1>6, <1>7, <2>1
<1>9. Len(ms) = CountTo(f, (c + 1) - 1)
  BY <1>1, <1>3, <1>4, <1>5
<1>10. AllPlaced(f, h2, words2, ms, c + 1)
  BY <1>8, <1>9 DEF AllPlaced
<1> QED BY <1>10 DEF ms

LEMMA LoadInit == Init => LoadInv
<1> SUFFICES ASSUME Init PROVE LoadInv
  OBVIOUS
<1>1. /\ stage = "header" /\ file \in Files /\ i = 1 /\ mappings = <<>>
      /\ base_vaddr = 0 /\ max_vaddr = 0 /\ base_addr = 0 /\ head = WINDOW /\ mem = <<>>
  BY DEF Init, L!Init, L!NULL
<1>2. head \in WINDOW .. WINDOW_END
  BY <1>1, LoaderConstants
<1>3. AllPlaced(file, head, mem, mappings, 1)
  <2>1. DOMAIN mem = {} /\ Len(mappings) = 0 /\ CountTo(file, 1 - 1) = 0
    BY <1>1, Counting
  <2>2. \A n \in LoadsOf(file) : ~ (n < 1)
    <3>1. \A n \in LoadsOf(file) : n \in DOMAIN file.phdrs
      BY DEF LoadsOf
    <3>2. DOMAIN file.phdrs = 1 .. Len(file.phdrs) /\ Len(file.phdrs) \in Nat
      BY <1>1, FileTyped
    <3> QED BY <3>1, <3>2
  <2> QED BY <2>1, <2>2 DEF AllPlaced
<1>4. mappings \in Seq(Maps)
  BY <1>1
<1> QED BY <1>1, <1>2, <1>3, <1>4 DEF LoadInv

LEMMA HeaderInv == LoadInv /\ (L!ReadHeader \/ L!Refused) => LoadInv'
<1> SUFFICES ASSUME LoadInv, L!ReadHeader \/ L!Refused PROVE LoadInv'
  OBVIOUS
<1>1. /\ stage = "header" /\ stage' \in {"phdrs", "refused"}
      /\ file' = file /\ i' = i /\ mappings' = mappings /\ base_vaddr' = base_vaddr
      /\ max_vaddr' = max_vaddr /\ base_addr' = base_addr /\ head' = head /\ mem' = mem
  BY DEF L!ReadHeader, L!Refused, L!Ends, L!image
<1>2. i = 1 /\ 1 \in 1 .. Len(file.phdrs) + 1
  BY <1>1, FileTyped DEF LoadInv
<1> QED BY <1>1, <1>2 DEF LoadInv

LEMMA NoLoadInv == LoadInv /\ (L!SkipPhdr \/ L!DynamicPhdr) => LoadInv'
<1> SUFFICES ASSUME LoadInv, L!SkipPhdr \/ L!DynamicPhdr PROVE LoadInv'
  OBVIOUS
<1>1. /\ stage = "phdrs" /\ stage' = "phdrs" /\ i <= Len(file.phdrs)
      /\ file.phdrs[i].type # "PT_LOAD" /\ i' = i + 1
      /\ file' = file /\ mappings' = mappings /\ base_vaddr' = base_vaddr
      /\ max_vaddr' = max_vaddr /\ base_addr' = base_addr /\ head' = head /\ mem' = mem
  BY DEF L!SkipPhdr, L!DynamicPhdr, L!InPhdrs, L!Phdr, L!image
<1>2. /\ file \in Files /\ i \in 1 .. Len(file.phdrs) + 1 /\ Len(file.phdrs) \in Nat
      /\ AllPlaced(file, head, mem, mappings, i)
  BY <1>1, FileTyped DEF LoadInv
<1>3. i \in 1 .. Len(file.phdrs) /\ i + 1 \in 1 .. Len(file.phdrs) + 1
      /\ i \notin LoadsOf(file)
  BY <1>1, <1>2 DEF LoadsOf
<1>4. AllPlaced(file, head, mem, mappings, i + 1)
  BY <1>2, <1>3, NotPlaced
<1> QED BY <1>1, <1>3, <1>4 DEF LoadInv

LEMMA LoadPhdrInv == LoadInv /\ L!LoadPhdr => LoadInv'
<1> SUFFICES ASSUME LoadInv, L!LoadPhdr PROVE LoadInv'
  OBVIOUS
<1>1. /\ stage = "phdrs" /\ i <= Len(file.phdrs) /\ file.phdrs[i].type = "PT_LOAD"
      /\ L!Extent /\ file' = file /\ base_addr' = base_addr
  BY DEF L!LoadPhdr, L!InPhdrs, L!Phdr
<1>2. /\ file \in Files /\ i \in 1 .. Len(file.phdrs) + 1 /\ mappings \in Seq(Maps)
      /\ head \in WINDOW .. WINDOW_END /\ base_vaddr \in Nat /\ max_vaddr \in Nat
      /\ base_addr \in Nat /\ AllPlaced(file, head, mem, mappings, i)
  BY <1>1 DEF LoadInv
<1>3. Len(file.phdrs) \in Nat /\ DOMAIN file.phdrs = 1 .. Len(file.phdrs)
  BY <1>2, FileTyped
<1>4. i \in 1 .. Len(file.phdrs) /\ i + 1 \in 1 .. Len(file.phdrs) + 1 /\ i \in LoadsOf(file)
  BY <1>1, <1>2, <1>3 DEF LoadsOf
<1>5. /\ file.phdrs[i].memsz \in Nat /\ file.phdrs[i].filesz \in Nat
      /\ file.phdrs[i].filesz <= file.phdrs[i].memsz
      /\ file.phdrs[i].vaddr \in Nat /\ file.phdrs[i].w \in BOOLEAN
  BY <1>2, <1>3, <1>4, FileTyped
<1>6. base_vaddr' \in Nat /\ max_vaddr' \in Nat
  BY <1>1, <1>2, <1>5 DEF L!Extent, L!Phdr
<1> DEFINE n == L!NPages(file.phdrs[i].memsz)
<1>7. PAGE_SIZE * n \in Nat /\ file.phdrs[i].memsz <= PAGE_SIZE * n
  BY <1>5, PagesEnough
<1> HIDE DEF n
<1>8. PICK addr \in {L!NULL, head} :
        /\ L!Request(n, addr)
        /\ \/ stage' \in {"refused", "panic"} /\ mappings' = mappings
           \/ /\ ~ (addr = L!NULL /\ file.phdrs[i].filesz > 0)
              /\ mem' = L!Upon(L!Written(addr, L!Content(i)), mem)
              /\ mappings' = Append(mappings, L!Mapping(addr))
              /\ i' = i + 1 /\ stage' = stage
  BY DEF L!LoadPhdr, L!Phdr, n
<1>9. /\ head' \in head .. WINDOW_END /\ head \in Nat /\ head >= WINDOW
      /\ addr # L!NULL => addr = head /\ head' = head + PAGE_SIZE * n
  BY <1>2, <1>7, <1>8, RequestIs
<1>10. head' \in WINDOW .. WINDOW_END /\ head' \in Int /\ head <= head'
       /\ WINDOW \in Nat /\ WINDOW_END \in Nat
  BY <1>9, LoaderConstants
<1>11. CASE stage' \in {"refused", "panic"} /\ mappings' = mappings
  BY <1>1, <1>2, <1>6, <1>10, <1>11 DEF LoadInv
<1>12. CASE /\ ~ (addr = L!NULL /\ file.phdrs[i].filesz > 0)
            /\ mem' = L!Upon(L!Written(addr, L!Content(i)), mem)
            /\ mappings' = Append(mappings, L!Mapping(addr))
            /\ i' = i + 1 /\ stage' = stage
  <2> DEFINE m == L!Mapping(addr)
  <2>1. /\ m \in Maps /\ m.begin = file.phdrs[i].vaddr /\ m.data_ref = addr
        /\ m.end = file.phdrs[i].vaddr + file.phdrs[i].memsz /\ m.w = file.phdrs[i].w
    <3>1. addr \in Int
      BY <1>9 DEF L!NULL
    <3> QED BY <1>5, <3>1 DEF L!Mapping, L!Phdr, L!Flag, Maps
  <2> HIDE DEF m
  <2>2. DOMAIN mem \subseteq WINDOW .. head - 1
    BY <1>2 DEF AllPlaced
  <2>3. /\ Placed(file, head', mem', i, m) /\ DOMAIN mem' \subseteq WINDOW .. head' - 1
        /\ \A a \in WINDOW .. head - 1 :
             /\ a \in DOMAIN mem' <=> a \in DOMAIN mem
             /\ a \in DOMAIN mem => mem'[a] = mem[a]
    <3>1. CASE addr # L!NULL
      <4>1. addr = head /\ head + file.phdrs[i].memsz <= head'
        <5>1. PICK k \in Nat : k = PAGE_SIZE * n
          BY <1>7
        <5>2. PICK s \in Nat : s = file.phdrs[i].memsz
          BY <1>5
        <5> QED BY <1>7, <1>9, <3>1, <5>1, <5>2
      <4>2. mem' = L!Upon(L!Written(head, L!Content(i)), mem)
        BY <1>12, <4>1
      <4>3. /\ Block(file, head', mem', i, head) /\ DOMAIN mem' \subseteq WINDOW .. head' - 1
            /\ \A a \in WINDOW .. head - 1 :
                 /\ a \in DOMAIN mem' <=> a \in DOMAIN mem
                 /\ a \in DOMAIN mem => mem'[a] = mem[a]
        <5>1. file \in Files /\ i \in LoadsOf(file) /\ head \in Nat /\ head' \in Int
              /\ head >= WINDOW /\ head + file.phdrs[i].memsz <= head'
          BY <1>2, <1>4, <1>9, <1>10, <4>1
        <5>2. PICK h \in Nat, h2 \in Int : h = head /\ h2 = head'
          BY <5>1
        <5>3. PICK w, w2 : w = mem /\ w2 = mem'
          OBVIOUS
        <5>4. /\ DOMAIN w \subseteq WINDOW .. h - 1 /\ h >= WINDOW
              /\ h + file.phdrs[i].memsz <= h2 /\ w2 = L!Upon(L!Written(h, L!Content(i)), w)
          BY <2>2, <4>2, <5>1, <5>2, <5>3
        <5>5. /\ Block(file, h2, w2, i, h) /\ DOMAIN w2 \subseteq WINDOW .. h2 - 1
              /\ \A a \in WINDOW .. h - 1 :
                   /\ a \in DOMAIN w2 <=> a \in DOMAIN w
                   /\ a \in DOMAIN w => w2[a] = w[a]
          <6>1. file \in Files /\ i \in LoadsOf(file)
            BY <5>1
          <6> QED BY <5>4, <6>1, FreshBlock
        <5> QED BY <5>2, <5>3, <5>5
      <4> QED BY <2>1, <4>1, <4>3 DEF Placed
    <3>2. CASE addr = L!NULL
      <4>1. file.phdrs[i].filesz = 0 /\ addr = 0
        BY <1>5, <1>12, <3>2 DEF L!NULL
      <4>2. DOMAIN L!Written(addr, L!Content(i)) = {}
        <5>1. Len(L!Content(i)) = 0
          BY <4>1 DEF L!Content
        <5> QED BY <4>1, <5>1 DEF L!Written
      <4>3. DOMAIN mem' = DOMAIN mem /\ \A a \in DOMAIN mem : mem'[a] = mem[a]
        BY <1>12, <4>2 DEF L!Upon
      <4>4. \A a \in WINDOW .. head - 1 : a \in WINDOW .. head' - 1
        <5>1. head \in Nat /\ head' \in Int /\ head <= head' /\ WINDOW \in Nat
          BY <1>9, <1>10
        <5>2. PICK h \in Nat, h2 \in Int : h = head /\ h2 = head'
          BY <5>1
        <5>3. h <= h2 /\ WINDOW \in Nat
          BY <5>1, <5>2
        <5>4. \A a \in WINDOW .. h - 1 : a \in WINDOW .. h2 - 1
          BY <5>3
        <5> QED BY <5>2, <5>4
      <4>5. Placed(file, head', mem', i, m)
        BY <2>1, <4>1 DEF Placed
      <4> QED BY <2>2, <4>3, <4>4, <4>5
    <3> QED BY <3>1, <3>2
  <2>4. head \in Int /\ head' \in Int /\ head <= head'
    BY <1>9, <1>10
  <2>5. AllPlaced(file, head', mem', Append(mappings, m), i + 1)
    BY <1>2, <1>4, <2>1, <2>3, <2>4, OnePlaced
  <2>6. mappings' = Append(mappings, m)
    BY <1>12 DEF m
  <2>7. mappings' \in Seq(Maps)
    BY <1>2, <2>1, <2>6
  <2> QED BY <1>1, <1>2, <1>4, <1>6, <1>10, <1>12, <2>5, <2>6, <2>7 DEF LoadInv
<1> QED BY <1>8, <1>11, <1>12

LEMMA EndsInv == LoadInv /\ (L!ExecProcess \/ L!NoDynamic) => LoadInv'
<1> SUFFICES ASSUME LoadInv, L!ExecProcess \/ L!NoDynamic PROVE LoadInv'
  OBVIOUS
<1>1. /\ stage = "phdrs" /\ i > Len(file.phdrs) /\ stage' \in {"exec_process", "refused"}
      /\ file' = file /\ i' = i /\ mappings' = mappings /\ base_vaddr' = base_vaddr
      /\ max_vaddr' = max_vaddr /\ base_addr' = base_addr /\ head' = head /\ mem' = mem
  BY DEF L!ExecProcess, L!NoDynamic, L!Ends, L!image
<1>2. i = Len(file.phdrs) + 1 /\ AllPlaced(file, head, mem, mappings, i)
  <2>1. file \in Files /\ i \in 1 .. Len(file.phdrs) + 1
        /\ AllPlaced(file, head, mem, mappings, i)
    BY <1>1 DEF LoadInv
  <2>2. Len(file.phdrs) \in Nat
    BY <2>1, FileTyped
  <2> QED BY <1>1, <2>1, <2>2
<1>3. AllPlaced(file, head, mem, mappings, Len(file.phdrs) + 1)
  BY <1>2
<1> QED BY <1>1, <1>3 DEF LoadInv

LEMMA FirstIs ==
  ASSUME NEW f \in Files, LoadsOf(f) # {}
  PROVE  /\ First(f) \in LoadsOf(f) /\ \A n \in LoadsOf(f) : First(f) <= n
         /\ First(f) \in 1 .. Len(f.phdrs) /\ CountTo(f, First(f)) = 1
         /\ Cardinality(LoadsOf(f)) \in Nat /\ Cardinality(LoadsOf(f)) >= 1
<1>1. Len(f.phdrs) \in Nat /\ LoadsOf(f) \subseteq 1 .. Len(f.phdrs)
  BY FileTyped DEF LoadsOf
<1>2. First(f) \in LoadsOf(f) /\ \A n \in LoadsOf(f) : First(f) <= n
  BY <1>1, MinOfPlaces DEF First
<1>3. PICK k \in 1 .. Len(f.phdrs) : k = First(f)
  BY <1>1, <1>2
<1>4. CountTo(f, k) = CountTo(f, k - 1) + 1
  BY <1>2, <1>3, Counting
<1>5. CountTo(f, k - 1) = 0
  <2>1. \A n \in LoadsOf(f) : ~ (n <= k - 1)
    BY <1>1, <1>2, <1>3
  <2>2. Upto(f, k - 1) = {}
    BY <2>1 DEF Upto
  <2> QED BY <2>2, FS_EmptySet DEF CountTo
<1>6. k \in 0 .. Len(f.phdrs) /\ Len(f.phdrs) \in 0 .. Len(f.phdrs) /\ k \in 0 .. Len(f.phdrs)
  BY <1>1
<1>7. CountTo(f, k) <= CountTo(f, Len(f.phdrs)) /\ CountTo(f, Len(f.phdrs)) \in Nat
      /\ CountTo(f, Len(f.phdrs)) = Cardinality(LoadsOf(f))
  BY <1>6, Counting
<1> QED BY <1>2, <1>3, <1>4, <1>5, <1>7

LEMMA PlaceInv == LoadInv /\ L!PlaceImage => LoadInv'
<1> SUFFICES ASSUME LoadInv, L!PlaceImage PROVE LoadInv'
  OBVIOUS
<1>1. /\ stage = "phdrs" /\ i > Len(file.phdrs) /\ file' = file /\ mappings' = mappings
      /\ base_vaddr' = base_vaddr /\ max_vaddr' = max_vaddr /\ mem' = mem
  BY DEF L!PlaceImage
<1>2. /\ file \in Files /\ i \in 1 .. Len(file.phdrs) + 1 /\ mappings \in Seq(Maps)
      /\ head \in WINDOW .. WINDOW_END /\ base_vaddr \in Nat /\ max_vaddr \in Nat
      /\ base_addr \in Nat /\ AllPlaced(file, head, mem, mappings, i)
  BY <1>1 DEF LoadInv
<1>3. Len(file.phdrs) \in Nat /\ DOMAIN file.phdrs = 1 .. Len(file.phdrs)
  BY <1>2, FileTyped
<1>4. i = Len(file.phdrs) + 1 /\ i - 1 = Len(file.phdrs)
  BY <1>1, <1>2, <1>3
<1>5. WINDOW \in Nat \ {0} /\ WINDOW_END \in Nat /\ head \in Nat
  BY <1>2, LoaderConstants
<1>6. PICK addr \in {L!NULL, head} :
        /\ IF L!memsize >= 0 THEN L!Request(L!NPages(L!memsize), addr)
           ELSE addr = L!NULL /\ head' = head
        /\ IF addr = L!NULL THEN stage' = "refused" /\ base_addr' = base_addr
           ELSE stage' = "place" /\ i' = 1 /\ base_addr' = addr + base_vaddr
  BY DEF L!PlaceImage
<1>7. head' \in head .. WINDOW_END /\ (addr # L!NULL => addr = head)
  <2>1. CASE L!memsize >= 0
    <3>1. L!memsize \in Nat
      BY <1>2, <2>1 DEF L!memsize
    <3>2. PAGE_SIZE * L!NPages(L!memsize) \in Nat
      BY <3>1, PagesEnough
    <3> QED BY <1>2, <1>6, <2>1, <3>2, RequestIs
  <2>2. CASE ~ (L!memsize >= 0)
    BY <1>2, <1>5, <1>6, <2>2
  <2> QED BY <2>1, <2>2
<1>8. head' \in WINDOW .. WINDOW_END /\ head' \in Int /\ head <= head'
  BY <1>2, <1>5, <1>7
<1>9. CASE addr = L!NULL
  <2>1. stage' = "refused" /\ base_addr' = base_addr
    BY <1>6, <1>9
  <2> QED BY <1>1, <1>2, <1>8, <2>1 DEF LoadInv
<1>10. CASE addr # L!NULL
  <2>1. stage' = "place" /\ i' = 1 /\ base_addr' = head + base_vaddr
    BY <1>6, <1>7, <1>10
  <2>2. base_addr' \in Nat /\ base_addr' >= WINDOW
    BY <1>2, <1>5, <2>1
  <2>3. Len(mappings) = Cardinality(LoadsOf(file))
    BY <1>2, <1>4, Counting DEF AllPlaced
  <2>4. ASSUME LoadsOf(file) # {}, file.phdrs[First(file)].filesz > 0
        PROVE  /\ mappings[1].end - mappings[1].begin = file.phdrs[First(file)].memsz
               /\ Placed(file, head', mem, First(file), mappings[1])
    <3>1. /\ First(file) \in LoadsOf(file) /\ First(file) \in 1 .. Len(file.phdrs)
          /\ CountTo(file, First(file)) = 1 /\ Len(mappings) >= 1
      BY <1>2, <2>3, <2>4, FirstIs
    <3>2. Placed(file, head, mem, First(file), mappings[1])
      <4>1. First(file) < i
        BY <1>3, <1>4, <3>1
      <4> QED BY <1>2, <3>1, <4>1 DEF AllPlaced
    <3>3. mappings[1] \in Maps
      BY <1>2, <3>1
    <3>4. mappings[1].data_ref \in Int
      BY <3>3 DEF Maps
    <3>5. Block(file, head, mem, First(file), mappings[1].data_ref)
      BY <2>4, <3>2 DEF Placed
    <3>6. Block(file, head', mem, First(file), mappings[1].data_ref)
      BY <1>2, <1>5, <1>8, <3>1, <3>4, <3>5, BlockStays
    <3>7. Placed(file, head', mem, First(file), mappings[1])
      BY <3>2, <3>6 DEF Placed
    <3>8. file.phdrs[First(file)].vaddr \in Nat /\ file.phdrs[First(file)].memsz \in Nat
      BY <1>2, <1>3, <3>1, FileTyped
    <3>9. mappings[1].end - mappings[1].begin = file.phdrs[First(file)].memsz
      BY <3>2, <3>8 DEF Placed
    <3> QED BY <3>7, <3>9
  <2>5. Placing(file, head', mem, mappings, base_addr', 1)
    BY <2>2, <2>3, <2>4 DEF Placing
  <2> QED BY <1>1, <1>2, <1>8, <2>1, <2>2, <2>5 DEF LoadInv
<1> QED BY <1>9, <1>10

LEMMA CopyWords ==
  ASSUME NEW s \in Nat, NEW m, m.end - m.begin = s, m.begin \in Int, m.data_ref \in Int
  PROVE  LET w == L!Upon(L!Written(m.begin, L!Copied(m)), mem)
         IN  \A x \in 1 .. s : /\ m.begin + x - 1 \in DOMAIN w
                               /\ w[m.begin + x - 1] = L!Word(m.data_ref + x - 1)
<1> DEFINE c == L!Copied(m)
           t == L!Written(m.begin, c)
           w == L!Upon(t, mem)
<1>1. PICK b \in Int : b = m.begin
  OBVIOUS
<1>2. Len(c) = s /\ \A x \in 1 .. s : c[x] = L!Word(m.data_ref + x - 1)
  BY DEF L!Copied
<1>3. DOMAIN t = b .. b + s - 1 /\ \A a \in b .. b + s - 1 : t[a] = c[a - b + 1]
  <2> HIDE DEF c
  <2> QED BY <1>1, <1>2 DEF L!Written
<1> HIDE DEF c, t
<1>4. \A a \in DOMAIN t : a \in DOMAIN w /\ w[a] = t[a]
  BY DEF L!Upon
<1> HIDE DEF w
<1>5. ASSUME NEW x \in 1 .. s
      PROVE  b + x - 1 \in DOMAIN w /\ w[b + x - 1] = L!Word(m.data_ref + x - 1)
  <2> DEFINE a == b + x - 1
  <2>1. a \in b .. b + s - 1 /\ a - b + 1 = x
    OBVIOUS
  <2> HIDE DEF a
  <2>2. a \in DOMAIN w /\ w[a] = c[x]
    BY <1>3, <1>4, <2>1
  <2> QED BY <1>2, <2>2 DEF a
<1> QED BY <1>1, <1>5 DEF w, t, c

LEMMA CopyInv == LoadInv /\ L!CopyMapping => LoadInv'
<1> SUFFICES ASSUME LoadInv, L!CopyMapping PROVE LoadInv'
  OBVIOUS
<1> DEFINE m == L!Moved
<1>1. /\ stage = "place" /\ i <= Len(mappings) /\ file' = file /\ head' = head
      /\ base_vaddr' = base_vaddr /\ max_vaddr' = max_vaddr /\ base_addr' = base_addr
      /\ \/ stage' = "panic" /\ mappings' = mappings
         \/ /\ L!Mapped(m.begin, m.end - m.begin)
            /\ mappings' = [mappings EXCEPT ![1] = m]
            /\ mem' = L!Upon(L!Written(m.begin, L!Copied(m)), mem)
            /\ i' = i + 1 /\ stage' = stage
  BY DEF L!CopyMapping, L!image, L!Which
<1>2. /\ file \in Files /\ mappings \in Seq(Maps)
      /\ head \in WINDOW .. WINDOW_END /\ base_vaddr \in Nat /\ max_vaddr \in Nat
      /\ base_addr \in Nat /\ Placing(file, head, mem, mappings, base_addr, i)
  BY <1>1 DEF LoadInv
<1>3. base_addr >= WINDOW /\ i \in Nat \ {0} /\ Len(mappings) = Cardinality(LoadsOf(file))
  BY <1>2 DEF Placing
<1>4. mappings[1] \in Maps /\ 1 \in 1 .. Len(mappings)
  BY <1>1, <1>2, <1>3
<1>5. /\ m.begin = mappings[1].begin + base_addr /\ m.end = mappings[1].end + base_addr
      /\ m.data_ref = mappings[1].data_ref /\ m \in Maps
  <2>1. PICK q \in Maps : q = mappings[1]
    BY <1>4
  <2>2. PICK b \in Nat : b = base_addr
    BY <1>2
  <2>3. m = [q EXCEPT !.begin = q.begin + b, !.end = q.end + b]
    BY <2>1, <2>2 DEF L!Moved, L!Which
  <2>4. q \in Maps /\ q.begin \in Int /\ q.end \in Int
    BY DEF Maps
  <2> HIDE DEF m
  <2>5. PICK q1 \in Int, q2 \in Int, q3 \in Int, q4 \in BOOLEAN :
          q = [begin |-> q1, end |-> q2, data_ref |-> q3, w |-> q4]
    BY <2>4 DEF Maps
  <2>6. m = [begin |-> q1 + b, end |-> q2 + b, data_ref |-> q3, w |-> q4]
    BY <2>3, <2>5
  <2>7. q1 + b \in Int /\ q2 + b \in Int
    OBVIOUS
  <2>8. m \in Maps
    BY <2>6, <2>7 DEF Maps
  <2> QED BY <2>1, <2>2, <2>5, <2>6, <2>8
<1> HIDE DEF m
<1>6. CASE stage' = "panic" /\ mappings' = mappings
  BY <1>1, <1>2, <1>6 DEF LoadInv
<1>7. CASE /\ L!Mapped(m.begin, m.end - m.begin)
           /\ mappings' = [mappings EXCEPT ![1] = m]
           /\ mem' = L!Upon(L!Written(m.begin, L!Copied(m)), mem)
           /\ i' = i + 1 /\ stage' = stage
  <2>1. mappings' \in Seq(Maps) /\ Len(mappings') = Len(mappings) /\ mappings'[1] = m
    BY <1>2, <1>4, <1>5, <1>7
  <2>2. i + 1 \in Nat \ {0} /\ i + 1 > 1
    BY <1>3
  <2>3. ASSUME LoadsOf(file) # {}, file.phdrs[First(file)].filesz > 0
        PROVE  /\ m.end - m.begin = file.phdrs[First(file)].memsz
               /\ m.begin >= WINDOW /\ Installed(file, base_addr, mem')
    <3>1. /\ mappings[1].end - mappings[1].begin = file.phdrs[First(file)].memsz
          /\ i = 1 => Placed(file, head, mem, First(file), mappings[1])
          /\ i > 1 => mappings[1].begin >= WINDOW /\ Installed(file, base_addr, mem)
      BY <1>2, <2>3 DEF Placing
    <3>2. First(file) \in LoadsOf(file) /\ First(file) \in 1 .. Len(file.phdrs)
      BY <1>2, <2>3, FirstIs
    <3>3. /\ file.phdrs[First(file)].memsz \in Nat /\ file.phdrs[First(file)].filesz \in Nat
          /\ file.phdrs[First(file)].filesz <= file.phdrs[First(file)].memsz
          /\ file.phdrs[First(file)].vaddr \in Nat
      BY <1>2, <3>2, FileTyped
    <3>4. PICK s \in Nat : s = file.phdrs[First(file)].memsz
      BY <3>3
    <3>5. PICK fs \in Nat : fs = file.phdrs[First(file)].filesz /\ fs <= s /\ fs > 0
      BY <2>3, <3>3, <3>4
    <3>6. PICK v \in Nat : v = file.phdrs[First(file)].vaddr
      BY <3>3
    <3>7. PICK b \in Int, e \in Int, d \in Int :
            b = mappings[1].begin /\ e = mappings[1].end /\ d = mappings[1].data_ref
      BY <1>4 DEF Maps
    <3>8. m.begin = b + base_addr /\ m.end = e + base_addr /\ m.data_ref = d /\ e - b = s
      BY <1>5, <3>1, <3>4, <3>7
    <3>9. m.end - m.begin = s
      BY <1>2, <3>8
    <3>10. WINDOW \in Nat /\ WINDOW_END \in Nat /\ WINDOW_END < 2 * WINDOW
      BY LoaderConstants
    <3>11. i = 1
      <4> SUFFICES ASSUME i # 1 PROVE FALSE
        OBVIOUS
      <4>1. i > 1
        BY <1>3
      <4>2. b >= WINDOW
        BY <3>1, <3>7, <4>1
      <4>3. m.begin + s <= head
        BY <1>7, <3>5, <3>9 DEF L!Mapped
      <4> QED BY <1>2, <1>3, <3>5, <3>8, <3>10, <4>2, <4>3
    <3>12. /\ Placed(file, head, mem, First(file), mappings[1]) /\ b = v
           /\ Block(file, head, mem, First(file), d)
      BY <2>3, <3>1, <3>6, <3>7, <3>11 DEF Placed
    <3>13. m.begin = base_addr + v /\ m.begin \in Int /\ m.begin >= WINDOW
      BY <1>2, <1>3, <3>8, <3>10, <3>12
    <3>14. \A x \in 1 .. s : /\ m.begin + x - 1 \in DOMAIN mem'
                             /\ mem'[m.begin + x - 1] = L!Word(d + x - 1)
      <4>1. m.end - m.begin = s /\ m.begin \in Int /\ m.data_ref \in Int
        BY <3>8, <3>9, <3>13
      <4> QED BY <1>7, <3>8, <4>1, CopyWords
    <3>15. ASSUME NEW x \in 1 .. fs
           PROVE  /\ base_addr + v + x - 1 \in DOMAIN mem'
                  /\ mem'[base_addr + v + x - 1] = <<"file", First(file), x>>
      <4>1. x \in 1 .. s
        BY <3>5
      <4>2. m.begin + x - 1 = base_addr + v + x - 1
        BY <1>2, <3>13
      <4>3. d + x - 1 \in DOMAIN mem /\ mem[d + x - 1] = <<"file", First(file), x>>
        BY <3>5, <3>12 DEF Block
      <4> QED BY <3>14, <4>1, <4>2, <4>3 DEF L!Word
    <3> QED BY <3>4, <3>5, <3>6, <3>9, <3>13, <3>15 DEF Installed
  <2>4. Placing(file, head, mem', mappings', base_addr, i + 1)
    BY <1>3, <2>1, <2>2, <2>3 DEF Placing
  <2> QED BY <1>1, <1>2, <1>7, <2>1, <2>4 DEF LoadInv
<1> QED BY <1>1, <1>6, <1>7

-----------------------------------------------------------------------------
(***************************************************************************)
(* What the loader reads of the dynamic section.                           *)
(***************************************************************************)
LEMMA LastOfTag ==
  ASSUME NEW f \in Files, NEW tag, HasIn(f, tag)
  PROVE  /\ Max(PlacesOf(f, tag)) \in PlacesOf(f, tag) /\ ValueIn(f, tag) \in Nat
<1>1. Len(f.dynamic) \in Nat /\ \A k \in 1 .. Len(f.dynamic) : f.dynamic[k] \in L!Dyn
  <2>1. f.dynamic \in Seq(L!Dyn)
    BY FileTyped
  <2> QED BY <2>1
<1>2. PlacesOf(f, tag) \subseteq 1 .. Len(f.dynamic) /\ PlacesOf(f, tag) # {}
  BY DEF HasIn, PlacesOf
<1>3. Max(PlacesOf(f, tag)) \in PlacesOf(f, tag)
  BY <1>1, <1>2, MaxOfPlaces
<1>4. f.dynamic[Max(PlacesOf(f, tag))] \in L!Dyn
  BY <1>1, <1>2, <1>3
<1> QED BY <1>3, <1>4 DEF ValueIn, L!Dyn

LEMMA HasIs ==
  ASSUME file \in Files, NEW tag
  PROVE  L!Has(tag) <=> HasIn(file, tag)
<1>1. DOMAIN file.dynamic = 1 .. Len(file.dynamic)
  BY FileTyped
<1> QED BY <1>1 DEF L!Has, L!ToSet, HasIn, PlacesOf

LEMMA ValueIs ==
  ASSUME file \in Files, NEW tag, HasIn(file, tag)
  PROVE  L!Value(tag) = ValueIn(file, tag)
<1>1. PlacesOf(file, tag) # {}
  BY DEF HasIn
<1>2. L!Max(PlacesOf(file, tag)) = Max(PlacesOf(file, tag))
  BY DEF L!Max, Max
<1>3. L!Value(tag) = file.dynamic[L!Max(PlacesOf(file, tag))].d_val
  BY <1>1 DEF L!Value, L!SelectLastInSeq, PlacesOf
<1> QED BY <1>2, <1>3 DEF ValueIn

LEMMA ReadsAre ==
  ASSUME file \in Files
  PROVE  /\ L!HasSymbols <=> Named(file)
         /\ L!HasRelocs <=> Relocated(file)
         /\ Relocated(file) => L!rela = RelaOf(file) /\ RelaOf(file) \in Nat
         /\ \A tag : L!Number(tag) = NumberIn(file, tag) /\ NumberIn(file, tag) \in Nat
<1>1. \A tag : L!Has(tag) <=> HasIn(file, tag)
  BY HasIs
<1>2. \A tag : HasIn(file, tag) => L!Value(tag) = ValueIn(file, tag)
      /\ ValueIn(file, tag) \in Nat
  BY ValueIs, LastOfTag
<1>3. (L!HasSymbols <=> Named(file)) /\ (L!HasRelocs <=> Relocated(file))
  BY <1>1 DEF L!HasSymbols, L!HasRelocs, Named, Relocated
<1>4. Relocated(file) => L!rela = RelaOf(file) /\ RelaOf(file) \in Nat
  BY <1>1, <1>2 DEF L!rela, RelaOf, Relocated
<1>5. \A tag : L!Number(tag) = NumberIn(file, tag) /\ NumberIn(file, tag) \in Nat
  BY <1>1, <1>2 DEF L!Number, NumberIn
<1> QED BY <1>3, <1>4, <1>5

LEMMA RelocIs ==
  ASSUME file \in Files, Relocated(file), i \in Nat \ {0}
  PROVE  /\ L!Reloc = RelocAt(file, RelaOf(file), i)
         /\ L!Resolves <=> Hits(file, RelaOf(file), i)
<1>1. L!rela = RelaOf(file)
  BY ReadsAre
<1>2. L!Reloc = RelocAt(file, RelaOf(file), i)
  BY <1>1 DEF L!Reloc, RelocAt
<1>3. L!Resolves <=> Hits(file, RelaOf(file), i)
  BY <1>2 DEF L!Resolves, Hits, L!SameName
<1> QED BY <1>2, <1>3

LEMMA SumOfParts ==
  ASSUME NEW list \in Seq(Nat)
  PROVE  /\ Sums(list)[Len(list)] \in Nat
         /\ \A p \in 1 .. Len(list) : list[p] \in Nat /\ list[p] <= Sums(list)[Len(list)]
         /\ \A p, q \in 1 .. Len(list) :
              p # q => list[p] + list[q] <= Sums(list)[Len(list)]
<1> DEFINE S == Sums(list)
           z == Len(list)
<1>1. SumsOf(list, S) /\ z \in Nat
  BY SumsExist
<1>2. \A n \in 0 .. z : \A m \in 0 .. n : S[m] <= S[n]
  BY SumsGrow
<1>3. \A p \in 1 .. z : list[p] \in Nat
  OBVIOUS
<1> HIDE DEF S, z
<1>4. \A n \in 0 .. z : S[n] \in Nat
  BY <1>1 DEF SumsOf, z
<1>5. \A p \in 1 .. z : S[p] = S[p - 1] + list[p]
  BY <1>1 DEF SumsOf, z
<1>6. ASSUME NEW p \in 1 .. z
      PROVE  /\ p \in 0 .. z /\ p - 1 \in 0 .. z /\ S[p] \in Nat /\ S[p - 1] \in Nat
             /\ S[z] \in Nat /\ S[p] <= S[z] /\ list[p] <= S[p]
  <2>1. p \in 0 .. z /\ p - 1 \in 0 .. z /\ z \in 0 .. z
    BY <1>1
  <2>2. S[p] \in Nat /\ S[p - 1] \in Nat /\ S[z] \in Nat
    BY <1>4, <2>1
  <2>3. S[p] <= S[z]
    BY <1>2, <2>1
  <2>4. list[p] \in Nat
    BY <1>3 DEF z
  <2> QED BY <1>5, <2>1, <2>2, <2>3, <2>4
<1>7. ASSUME NEW p \in 1 .. z, NEW q \in 1 .. z, p < q
      PROVE  list[p] + list[q] <= S[z]
  <2>1. q - 1 \in 0 .. z /\ p \in 0 .. q - 1
    BY <1>1, <1>7
  <2>2. S[p] <= S[q - 1]
    BY <1>2, <2>1
  <2>3. S[q] = S[q - 1] + list[q] /\ list[p] \in Nat /\ list[q] \in Nat
    BY <1>3, <1>5 DEF z
  <2>4. /\ S[p] \in Nat /\ S[q] \in Nat /\ S[q - 1] \in Nat /\ S[z] \in Nat
        /\ S[q] <= S[z] /\ list[p] <= S[p]
    BY <1>6
  <2>5. PICK u \in Nat, v \in Nat, w \in Nat, t \in Nat :
          u = S[p] /\ v = S[q] /\ w = S[q - 1] /\ t = S[z]
    BY <2>4
  <2>6. PICK x \in Nat, y \in Nat : x = list[p] /\ y = list[q]
    BY <2>3
  <2>7. u <= w /\ v = w + y /\ v <= t /\ x <= u
    BY <2>2, <2>3, <2>4, <2>5, <2>6
  <2>8. x + y <= t
    BY <2>7
  <2> QED BY <2>5, <2>6, <2>8
<1>8. ASSUME NEW p \in 1 .. z, NEW q \in 1 .. z, p # q
      PROVE  list[p] + list[q] <= S[z]
  <2>1. p < q \/ q < p
    BY <1>1, <1>8
  <2>2. CASE p < q
    BY <1>7, <2>2
  <2>3. CASE q < p
    <3>1. list[q] + list[p] <= S[z]
      BY <1>7, <2>3
    <3>2. list[p] \in Nat /\ list[q] \in Nat
      BY <1>3 DEF z
    <3> QED BY <3>1, <3>2
  <2> QED BY <2>1, <2>2, <2>3
<1>9. S[z] \in Nat
  <2>1. z \in 0 .. z
    BY <1>1
  <2> QED BY <1>4, <2>1
<1>10. \A p \in 1 .. z : list[p] \in Nat /\ list[p] <= S[z]
  <2> SUFFICES ASSUME NEW p \in 1 .. z PROVE list[p] \in Nat /\ list[p] <= S[z]
    OBVIOUS
  <2>1. list[p] \in Nat
    BY <1>3 DEF z
  <2> QED BY <1>6, <2>1
<1> QED BY <1>8, <1>9, <1>10 DEF S, z

LEMMA RelaLen ==
  ASSUME file \in Files
  PROVE  /\ L!relalen \in Nat
         /\ NumberIn(file, "DT_RELASZ") + NumberIn(file, "DT_PLTRELSZ") <= L!relalen
<1> DEFINE d == file.dynamic
           list == [k \in DOMAIN d |-> L!SizeIn(d[k])]
           z == Len(d)
<1>1. z \in Nat /\ DOMAIN d = 1 .. z /\ \A k \in 1 .. z : d[k] \in L!Dyn
  <2>1. d \in Seq(L!Dyn)
    BY FileTyped
  <2> QED BY <2>1
<1>2. L!relalen = Added(list)
  BY Zenon DEF L!relalen, Added, L!FoldLeft, L!MapThenFoldSet, L!Max, Max
<1> HIDE DEF d, z
<1>3. /\ list \in Seq(Nat) /\ Len(list) = z
      /\ \A k \in 1 .. z : list[k] = L!SizeIn(d[k])
  <2>1. \A e \in L!Dyn : L!SizeIn(e) \in Nat
    BY DEF L!Dyn, L!SizeIn
  <2> QED BY <1>1, <2>1
<1> HIDE DEF list
<1>4. L!relalen = Sums(list)[z]
  BY <1>2, <1>3, SumsExist
<1> DEFINE a == Max(PlacesOf(file, "DT_RELASZ"))
           b == Max(PlacesOf(file, "DT_PLTRELSZ"))
<1>5. HasIn(file, "DT_RELASZ") =>
        a \in 1 .. z /\ d[a].d_tag = "DT_RELASZ" /\ ValueIn(file, "DT_RELASZ") = d[a].d_val
  BY LastOfTag DEF PlacesOf, ValueIn, d, z
<1>6. HasIn(file, "DT_PLTRELSZ") =>
        b \in 1 .. z /\ d[b].d_tag = "DT_PLTRELSZ" /\ ValueIn(file, "DT_PLTRELSZ") = d[b].d_val
  BY LastOfTag DEF PlacesOf, ValueIn, d, z
<1> HIDE DEF a, b
<1>7. HasIn(file, "DT_RELASZ") => ValueIn(file, "DT_RELASZ") = list[a]
  BY <1>3, <1>5 DEF L!SizeIn, L!Sizes
<1>8. HasIn(file, "DT_PLTRELSZ") => ValueIn(file, "DT_PLTRELSZ") = list[b]
  BY <1>3, <1>6 DEF L!SizeIn, L!Sizes
<1>9. /\ Sums(list)[z] \in Nat
      /\ \A p \in 1 .. z : list[p] \in Nat /\ list[p] <= Sums(list)[z]
      /\ \A p, q \in 1 .. z : p # q => list[p] + list[q] <= Sums(list)[z]
  BY <1>3, SumOfParts
<1>10. CASE HasIn(file, "DT_RELASZ") /\ HasIn(file, "DT_PLTRELSZ")
  <2>1. a # b
    BY <1>5, <1>6, <1>10
  <2> QED BY <1>4, <1>5, <1>6, <1>7, <1>8, <1>9, <1>10, <2>1 DEF NumberIn
<1>11. CASE HasIn(file, "DT_RELASZ") /\ ~ HasIn(file, "DT_PLTRELSZ")
  BY <1>4, <1>5, <1>7, <1>9, <1>11 DEF NumberIn
<1>12. CASE ~ HasIn(file, "DT_RELASZ") /\ HasIn(file, "DT_PLTRELSZ")
  BY <1>4, <1>6, <1>8, <1>9, <1>12 DEF NumberIn
<1>13. CASE ~ HasIn(file, "DT_RELASZ") /\ ~ HasIn(file, "DT_PLTRELSZ")
  BY <1>4, <1>9, <1>13 DEF NumberIn
<1> QED BY <1>10, <1>11, <1>12, <1>13

-----------------------------------------------------------------------------
LEMMA ResolveInv == LoadInv /\ L!BeginResolve => LoadInv'
<1> SUFFICES ASSUME LoadInv, L!BeginResolve PROVE LoadInv'
  OBVIOUS
<1>1. /\ stage = "place" /\ i > Len(mappings) /\ i' = 1
      /\ stage' = IF L!HasSymbols /\ L!HasRelocs THEN "resolve" ELSE "lookup"
      /\ file' = file /\ mappings' = mappings /\ base_vaddr' = base_vaddr
      /\ max_vaddr' = max_vaddr /\ base_addr' = base_addr /\ head' = head /\ mem' = mem
  BY DEF L!BeginResolve, L!image
<1>2. file \in Files /\ Placing(file, head, mem, mappings, base_addr, i)
  BY <1>1 DEF LoadInv
<1>3. (L!HasSymbols <=> Named(file)) /\ (L!HasRelocs <=> Relocated(file))
  BY <1>2, ReadsAre
<1>4. ASSUME LoadsOf(file) # {}, NEW x \in 1 .. file.phdrs[First(file)].filesz, NEW r
      PROVE  Right(file, r, base_addr, mem, 1, x)
  <2>1. First(file) \in LoadsOf(file) /\ First(file) \in 1 .. Len(file.phdrs)
        /\ Cardinality(LoadsOf(file)) \in Nat /\ Cardinality(LoadsOf(file)) >= 1
    BY <1>2, <1>4, FirstIs
  <2>2. file.phdrs[First(file)].filesz \in Nat
    BY <1>2, <2>1, FileTyped
  <2>3. file.phdrs[First(file)].filesz > 0
    BY <2>2
  <2>4. i > 1
    BY <1>1, <1>2, <2>1 DEF Placing
  <2>5. Installed(file, base_addr, mem)
    BY <1>2, <1>4, <2>3, <2>4 DEF Placing
  <2>6. \A k \in 1 .. 1 - 1 : FALSE
    OBVIOUS
  <2> QED BY <2>5, <2>6 DEF Right, Installed
<1>5. \A r : Ready(file, r, base_addr, mem, 1)
  BY <1>4 DEF Ready
<1>6. ~ Relocated(file) => AllReady(file, base_addr, mem)
  BY <1>5 DEF AllReady
<1>7. CASE L!HasSymbols /\ L!HasRelocs
  BY <1>1, <1>3, <1>5, <1>7 DEF LoadInv
<1>8. CASE ~ (L!HasSymbols /\ L!HasRelocs)
  BY <1>1, <1>3, <1>6, <1>8 DEF LoadInv
<1> QED BY <1>7, <1>8

LEMMA NoHit ==
  ASSUME NEW f, NEW r, NEW base, NEW words, NEW c \in Nat \ {0},
         Ready(f, r, base, words, c), ~ Hits(f, r, c)
  PROVE  Ready(f, r, base, words, c + 1)
<1>1. \A k \in 1 .. (c + 1) - 1 : k = c \/ k \in 1 .. c - 1
  OBVIOUS
<1>2. \A k \in 1 .. c - 1 : k \in 1 .. (c + 1) - 1
  OBVIOUS
<1>3. ASSUME LoadsOf(f) # {}, NEW x \in 1 .. f.phdrs[First(f)].filesz
      PROVE  Right(f, r, base, words, c + 1, x)
  <2>1. Right(f, r, base, words, c, x)
    BY <1>3 DEF Ready
  <2> QED BY <1>1, <1>2, <2>1 DEF Right
<1> QED BY <1>3 DEF Ready

LEMMA OneHit ==
  ASSUME NEW f, NEW r, NEW base, NEW words, NEW words2, NEW c \in Nat \ {0}, NEW p,
         Ready(f, r, base, words, c), Hits(f, r, c), p = base + RelocAt(f, r, c).at,
         p \in DOMAIN words2,
         words2[p] = <<"export", f.syms[RelocAt(f, r, c).sym].name, 0>>,
         \A a \in DOMAIN words : /\ a \in DOMAIN words2
                                 /\ a # p => words2[a] = words[a]
  PROVE  Ready(f, r, base, words2, c + 1)
<1>1. \A k \in 1 .. (c + 1) - 1 : k = c \/ k \in 1 .. c - 1
  OBVIOUS
<1>2. (\A k \in 1 .. c - 1 : k \in 1 .. (c + 1) - 1) /\ c \in 1 .. (c + 1) - 1
  OBVIOUS
<1>3. ASSUME LoadsOf(f) # {}, NEW x \in 1 .. f.phdrs[First(f)].filesz
      PROVE  Right(f, r, base, words2, c + 1, x)
  <2> DEFINE a == base + f.phdrs[First(f)].vaddr + x - 1
  <2>1. Right(f, r, base, words, c, x)
    BY <1>3 DEF Ready
  <2>2. a \in DOMAIN words
    BY <2>1 DEF Right
  <2>3. CASE a = p
    BY <1>2, <2>3 DEF Right
  <2>4. CASE a # p
    <3>1. a \in DOMAIN words2 /\ words2[a] = words[a]
      BY <2>2, <2>4
    <3> QED BY <1>1, <1>2, <2>1, <2>4, <3>1 DEF Right
  <2> QED BY <2>3, <2>4
<1> QED BY <1>3 DEF Ready

LEMMA RelocateInv == LoadInv /\ L!Relocate => LoadInv'
<1> SUFFICES ASSUME LoadInv, L!Relocate PROVE LoadInv'
  OBVIOUS
<1>1. /\ stage = "resolve" /\ stage' = stage /\ i' = i + 1
      /\ file' = file /\ mappings' = mappings /\ base_vaddr' = base_vaddr
      /\ max_vaddr' = max_vaddr /\ base_addr' = base_addr /\ head' = head
      /\ IF ~ L!Resolves THEN mem' = mem
         ELSE mem' = L!Upon(L!Written(base_addr + L!Reloc.at,
                                << <<"export", file.syms[L!Reloc.sym].name, 0>> >>), mem)
  BY DEF L!Relocate, L!image
<1>2. /\ file \in Files /\ Relocated(file) /\ i \in Nat \ {0}
      /\ Ready(file, RelaOf(file), base_addr, mem, i) /\ base_addr \in Nat
  BY <1>1 DEF LoadInv
<1>3. /\ L!Reloc = RelocAt(file, RelaOf(file), i)
      /\ L!Resolves <=> Hits(file, RelaOf(file), i)
  BY <1>2, RelocIs
<1>4. Ready(file, RelaOf(file), base_addr, mem', i + 1)
  <2>1. CASE ~ L!Resolves
    BY <1>1, <1>2, <1>3, <2>1, NoHit
  <2>2. CASE L!Resolves
    <3> DEFINE r == RelocAt(file, RelaOf(file), i)
               v == <<"export", file.syms[r.sym].name, 0>>
               t == L!Written(base_addr + r.at, <<v>>)
    <3>1. r.at \in Nat
      <4>1. file.relocs \in Seq([at : Nat, sym : 0 .. Len(file.syms)])
            /\ RelaOf(file) \in Nat
        BY <1>2, FileTyped, ReadsAre
      <4>2. PICK j \in Nat \ {0} : j = RelaOf(file) + i
        BY <1>2, <4>1
      <4>3. j <= Len(file.relocs) =>
              file.relocs[j] \in [at : Nat, sym : 0 .. Len(file.syms)]
        <5>1. PICK q, R : /\ q = file.relocs /\ R = [at : Nat, sym : 0 .. Len(file.syms)]
                          /\ q \in Seq(R)
          BY <4>1
        <5>2. q \in Seq(R)
          BY <5>1
        <5>3. j <= Len(q) => q[j] \in R
          BY <5>2
        <5> QED BY <5>1, <5>3
      <4> QED BY <4>2, <4>3 DEF RelocAt
    <3>2. PICK p \in Nat : p = base_addr + r.at
      BY <1>2, <3>1
    <3>3. mem' = L!Upon(t, mem)
      BY <1>1, <1>3, <2>2
    <3>4. t = L!Written(p, <<v>>)
      BY <3>2
    <3> HIDE DEF v, t, r
    <3>5. DOMAIN t = {p} /\ t[p] = v
      <4>1. Len(<<v>>) = 1 /\ <<v>>[1] = v
        OBVIOUS
      <4>2. p .. p + 1 - 1 = {p} /\ p - p + 1 = 1
        OBVIOUS
      <4> QED BY <3>4, <4>1, <4>2 DEF L!Written
    <3>6. /\ p \in DOMAIN mem' /\ mem'[p] = v
          /\ \A a \in DOMAIN mem : a \in DOMAIN mem' /\ (a # p => mem'[a] = mem[a])
      BY <3>3, <3>5 DEF L!Upon
    <3>7. Hits(file, RelaOf(file), i)
      BY <1>3, <2>2
    <3> QED BY <1>2, <3>2, <3>6, <3>7, OneHit DEF v, r
  <2> QED BY <2>1, <2>2
<1>5. i + 1 \in Nat \ {0}
  BY <1>2
<1> QED BY <1>1, <1>2, <1>4, <1>5 DEF LoadInv

LEMMA LookupInv == LoadInv /\ (L!BeginLookup \/ L!Lookup) => LoadInv'
<1> SUFFICES ASSUME LoadInv, L!BeginLookup \/ L!Lookup PROVE LoadInv'
  OBVIOUS
<1>1. /\ file' = file /\ mappings' = mappings /\ base_vaddr' = base_vaddr
      /\ max_vaddr' = max_vaddr /\ base_addr' = base_addr /\ head' = head /\ mem' = mem
  BY DEF L!BeginLookup, L!Lookup, L!image
<1>2. file \in Files
  BY DEF LoadInv
<1>3. CASE L!BeginLookup
  <2>1. stage = "resolve" /\ stage' = "lookup" /\ i > L!relalen
    BY <1>3 DEF L!BeginLookup
  <2>2. /\ Relocated(file) /\ i \in Nat \ {0}
        /\ Ready(file, RelaOf(file), base_addr, mem, i)
    BY <2>1 DEF LoadInv
  <2>3. i > NumberIn(file, "DT_RELASZ") + NumberIn(file, "DT_PLTRELSZ")
    <3>1. /\ NumberIn(file, "DT_RELASZ") \in Nat /\ NumberIn(file, "DT_PLTRELSZ") \in Nat
          /\ L!relalen \in Nat
          /\ NumberIn(file, "DT_RELASZ") + NumberIn(file, "DT_PLTRELSZ") <= L!relalen
      BY <1>2, ReadsAre, RelaLen
    <3> QED BY <2>1, <2>2, <3>1
  <2>4. AllReady(file, base_addr, mem)
    BY <2>2, <2>3 DEF AllReady
  <2> QED BY <1>1, <2>1, <2>4 DEF LoadInv
<1>4. CASE L!Lookup
  <2> DEFINE T == {k \in 1 .. Len(file.syms) : file.syms[k].name = "init_module"}
             at == IF T # {} THEN L!Min(T) ELSE 0
  <2>1. at = L!SelectInSeq(file.syms, LAMBDA s : L!SameName(s.name, L!INIT))
    BY DEF L!SelectInSeq, L!SameName, L!INIT
  <2>2. /\ stage = "lookup"
        /\ \/ /\ L!HasSymbols /\ at # 0
              /\ stage' = "loaded" /\ i' = file.syms[at].value + base_addr
           \/ stage' = "refused"
    BY <1>4, <2>1 DEF L!Lookup
  <2>3. CASE stage' = "refused"
    BY <1>1, <2>3 DEF LoadInv
  <2>4. CASE L!HasSymbols /\ at # 0 /\ stage' = "loaded"
             /\ i' = file.syms[at].value + base_addr
    <3>1. AllReady(file, base_addr, mem)
      BY <1>2, <2>2, <2>4, ReadsAre DEF LoadInv
    <3>2. file.syms \in Seq(L!Sym)
      BY <1>2, FileTyped
    <3>3. at \in T
      <4>1. T # {} /\ at = L!Min(T) /\ T \subseteq 1 .. Len(file.syms)
            /\ Len(file.syms) \in Nat
        BY <2>4, <3>2
      <4>2. L!Min(T) = Min(T)
        BY DEF L!Min, Min
      <4> HIDE DEF T, at
      <4> QED BY <4>1, <4>2, MinOfPlaces
    <3> HIDE DEF at
    <3>4. PICK s \in L!Sym : s = file.syms[at] /\ s.name = "init_module"
                             /\ s \in ToSet(file.syms)
      BY <3>2, <3>3 DEF ToSet
    <3>5. i' = base_addr + s.value
      <4>1. s.value \in Nat
        BY DEF L!Sym
      <4>2. base_addr \in Nat
        BY DEF LoadInv
      <4> QED BY <2>4, <3>4, <4>1, <4>2
    <3>6. EntersInit(file, base_addr, i')
      BY <3>4, <3>5 DEF EntersInit
    <3> QED BY <1>1, <2>4, <3>1, <3>6 DEF LoadInv
  <2> QED BY <2>2, <2>3, <2>4
<1> QED BY <1>3, <1>4

LEMMA LoadStep == LoadInv /\ [Next]_vars => LoadInv'
<1> SUFFICES ASSUME LoadInv, [Next]_vars PROVE LoadInv'
  OBVIOUS
<1>1. CASE L!Next
  BY <1>1, HeaderInv, NoLoadInv, LoadPhdrInv, EndsInv, PlaceInv, CopyInv, ResolveInv,
     RelocateInv, LookupInv DEF L!Next
<1>2. CASE UNCHANGED lvars
  BY <1>2 DEF lvars, LoadInv
<1> QED BY <1>1, <1>2 DEF Next, LoadFile, StartProgram, vars

-----------------------------------------------------------------------------
(***************************************************************************)
(* What the invariant says of a program and of a module.                   *)
(***************************************************************************)
Blanks(len) == [w \in 1 .. len |-> <<"blank", 0, 0>>]

LEMMA FileThenBlank ==
  ASSUME NEW n, file.phdrs[n].filesz \in Nat, NEW t \in Nat,
         NEW m, m.end - m.begin = file.phdrs[n].filesz + t,
         \A x \in 1 .. file.phdrs[n].filesz :
           L!Word(m.data_ref + x - 1) = <<"file", n, x>>,
         \A x \in file.phdrs[n].filesz + 1 .. file.phdrs[n].filesz + t :
           L!Word(m.data_ref + x - 1) = <<"blank", 0, 0>>
  PROVE  L!Copied(m) = L!Content(n) \o Blanks(t)
<1>0. PICK fs \in Nat : fs = file.phdrs[n].filesz
  OBVIOUS
<1>1. PICK s \in Nat :
        /\ s = fs + t /\ m.end - m.begin = s
        /\ \A x \in 1 .. fs : L!Word(m.data_ref + x - 1) = <<"file", n, x>>
        /\ \A x \in fs + 1 .. s : L!Word(m.data_ref + x - 1) = <<"blank", 0, 0>>
  BY <1>0
<1> DEFINE A == L!Content(n)
           B == Blanks(t)
           C == L!Copied(m)
           S == {"file", "blank"} \X ({n, 0}) \X Nat
<1>2. \A x \in 1 .. fs : <<"file", n, x>> \in S
  OBVIOUS
<1>3. <<"blank", 0, 0>> \in S
  OBVIOUS
<1> HIDE DEF S
<1>4. A \in Seq(S) /\ Len(A) = fs /\ \A x \in 1 .. fs : A[x] = <<"file", n, x>>
  <2>1. A = [x \in 1 .. fs |-> <<"file", n, x>>]
    BY <1>0 DEF L!Content
  <2> HIDE DEF A
  <2> QED BY <1>2, <2>1
<1>5. B \in Seq(S) /\ Len(B) = t /\ \A x \in 1 .. t : B[x] = <<"blank", 0, 0>>
  BY <1>3 DEF Blanks
<1>6. C = [x \in 1 .. s |-> L!Word(m.data_ref + x - 1)]
  BY <1>1 DEF L!Copied
<1> HIDE DEF A, B, C
<1>7. \A x \in 1 .. s : C[x] = IF x <= fs THEN <<"file", n, x>> ELSE <<"blank", 0, 0>>
  <2> SUFFICES ASSUME NEW x \in 1 .. s
               PROVE  C[x] = IF x <= fs THEN <<"file", n, x>> ELSE <<"blank", 0, 0>>
    OBVIOUS
  <2>1. C[x] = L!Word(m.data_ref + x - 1)
    BY <1>6
  <2>2. CASE x <= fs
    <3>1. x \in 1 .. fs
      BY <2>2
    <3> QED BY <1>1, <2>1, <2>2, <3>1
  <2>3. CASE ~ (x <= fs)
    <3>1. x \in fs + 1 .. s
      BY <2>3
    <3> QED BY <1>1, <2>1, <2>3, <3>1
  <2> QED BY <2>2, <2>3
<1>8. C \in Seq(S) /\ Len(C) = s
  <2>1. \A x \in 1 .. s : C[x] \in S
    <3> SUFFICES ASSUME NEW x \in 1 .. s PROVE C[x] \in S
      OBVIOUS
    <3>1. x <= fs => x \in 1 .. fs
      OBVIOUS
    <3> QED BY <1>2, <1>3, <1>7, <3>1
  <2>2. C \in [1 .. s -> S] /\ s \in Nat
    BY <1>6, <2>1
  <2> QED BY <2>2
<1>9. /\ A \o B \in Seq(S) /\ Len(A \o B) = fs + t
      /\ \A x \in 1 .. fs + t : (A \o B)[x] = IF x <= fs THEN A[x] ELSE B[x - fs]
  <2>1. A \in Seq(S) /\ Len(A) = fs /\ B \in Seq(S) /\ Len(B) = t
    BY <1>4, <1>5
  <2> QED BY <2>1, ConcatProperties
<1>10. \A x \in 1 .. s : (A \o B)[x] = C[x]
  <2> SUFFICES ASSUME NEW x \in 1 .. s PROVE (A \o B)[x] = C[x]
    OBVIOUS
  <2>1. CASE x <= fs
    <3>1. x \in 1 .. fs
      BY <2>1
    <3> QED BY <1>1, <1>4, <1>7, <1>9, <2>1, <3>1
  <2>2. CASE ~ (x <= fs)
    <3>1. x - fs \in 1 .. t
      BY <1>1, <2>2
    <3>2. C[x] = <<"blank", 0, 0>> /\ B[x - fs] = <<"blank", 0, 0>>
      BY <1>5, <1>7, <2>2, <3>1
    <3> QED BY <1>1, <1>9, <2>2, <3>2
  <2> QED BY <2>1, <2>2
<1>11. A \o B = C
  <2>1. A \o B \in Seq(S) /\ Len(A \o B) = s
    BY <1>1, <1>9
  <2> QED BY <1>8, <1>10, <2>1, SeqEqual
<1> QED BY <1>11 DEF A, B, C

LEMMA InvPrepared == LoadInv => ProgramPrepared
<1> SUFFICES ASSUME LoadInv, stage = "exec_process"
             PROVE  /\ Len(mappings) = L!Cardinality(L!Loads)
                    /\ \A n \in L!Loads :
                         LET p == file.phdrs[n] m == mappings[L!LoadsTo(n)]
                         IN  /\ m.begin = p.vaddr /\ m.end - m.begin = p.memsz /\ m.w = p.w
                             /\ p.filesz > 0 => L!Mapped(m.data_ref, p.memsz)
                             /\ p.filesz > 0 => L!Copied(m) =
                                  L!Content(n) \o [w \in 1 .. p.memsz - p.filesz |->
                                                     <<"blank", 0, 0>>]
  BY DEF ProgramPrepared, L!ProgramPrepared
<1>1. /\ file \in Files /\ mappings \in Seq(Maps) /\ head \in WINDOW .. WINDOW_END
      /\ AllPlaced(file, head, mem, mappings, Len(file.phdrs) + 1)
  BY DEF LoadInv
<1>2. Len(file.phdrs) \in Nat /\ (Len(file.phdrs) + 1) - 1 = Len(file.phdrs)
  BY <1>1, FileTyped
<1>3. Len(mappings) = L!Cardinality(L!Loads)
  BY <1>1, <1>2, Counting, LoadsAre DEF AllPlaced
<1>4. ASSUME NEW n \in L!Loads
      PROVE  LET p == file.phdrs[n] m == mappings[L!LoadsTo(n)]
             IN  /\ m.begin = p.vaddr /\ m.end - m.begin = p.memsz /\ m.w = p.w
                 /\ p.filesz > 0 => L!Mapped(m.data_ref, p.memsz)
                 /\ p.filesz > 0 => L!Copied(m) =
                      L!Content(n) \o [w \in 1 .. p.memsz - p.filesz |->
                                         <<"blank", 0, 0>>]
  <2>1. n \in LoadsOf(file) /\ L!LoadsTo(n) = CountTo(file, n)
    BY LoadsAre
  <2>2. n \in 1 .. Len(file.phdrs)
    BY <1>1, <2>1, FileTyped DEF LoadsOf
  <2> DEFINE p == file.phdrs[n]
             m == mappings[CountTo(file, n)]
  <2>3. Placed(file, head, mem, n, m)
    BY <1>1, <1>2, <2>1, <2>2 DEF AllPlaced
  <2>4. /\ p.memsz \in Nat /\ p.filesz \in Nat /\ p.filesz <= p.memsz /\ p.vaddr \in Nat
    BY <1>1, <2>2, FileTyped
  <2>5. m.begin = p.vaddr /\ m.end - m.begin = p.memsz /\ m.w = p.w
    BY <2>3, <2>4 DEF Placed
  <2>6. ASSUME p.filesz > 0
        PROVE  /\ L!Mapped(m.data_ref, p.memsz)
               /\ L!Copied(m) = L!Content(n) \o Blanks(p.memsz - p.filesz)
    <3> DEFINE ref == m.data_ref
    <3>1. Block(file, head, mem, n, ref)
      BY <2>3, <2>6 DEF Placed
    <3> HIDE DEF m, ref
    <3>2. \A x \in 1 .. p.filesz : L!Word(ref + x - 1) = <<"file", n, x>>
      BY <3>1 DEF Block, L!Word
    <3>3. \A x \in p.filesz + 1 .. p.memsz : L!Word(ref + x - 1) = <<"blank", 0, 0>>
      BY <3>1 DEF Block, L!Word
    <3>4. L!Mapped(ref, p.memsz)
      BY <3>1 DEF Block, L!Mapped
    <3>5. PICK t \in Nat : t = p.memsz - p.filesz /\ p.memsz = p.filesz + t
      <4>1. p.memsz - p.filesz \in Nat /\ p.memsz = p.filesz + (p.memsz - p.filesz)
        BY <2>4
      <4> QED BY <4>1
    <3>6. m.end - m.begin = p.filesz + t /\ p.filesz \in Nat
      BY <2>4, <2>5, <3>5
    <3>7. /\ \A x \in 1 .. p.filesz : L!Word(m.data_ref + x - 1) = <<"file", n, x>>
          /\ \A x \in p.filesz + 1 .. p.filesz + t :
               L!Word(m.data_ref + x - 1) = <<"blank", 0, 0>>
      BY <3>2, <3>3, <3>5 DEF ref
    <3>8. L!Copied(m) = L!Content(n) \o Blanks(t)
      BY <3>6, <3>7, FileThenBlank
    <3> QED BY <3>4, <3>5, <3>8 DEF ref
  <2> QED BY <2>1, <2>5, <2>6 DEF Blanks
<1> QED BY <1>3, <1>4

LEMMA TablesCover ==
  ASSUME file \in Files, Relocated(file), L!TablesHold, NEW j \in DOMAIN file.relocs
  PROVE  \E k \in 1 .. NumberIn(file, "DT_RELASZ") + NumberIn(file, "DT_PLTRELSZ") :
           j = RelaOf(file) + k
<1>1. \A tag : L!Has(tag) <=> HasIn(file, tag)
  BY HasIs
<1>2. \A tag : HasIn(file, tag) => L!Value(tag) = ValueIn(file, tag)
      /\ ValueIn(file, tag) \in Nat
  BY ValueIs, LastOfTag
<1>3. \A tag : L!Number(tag) = NumberIn(file, tag) /\ NumberIn(file, tag) \in Nat
  BY ReadsAre
<1>4. PICK nr \in Nat, np \in Nat :
        nr = NumberIn(file, "DT_RELASZ") /\ np = NumberIn(file, "DT_PLTRELSZ")
  BY <1>3
<1>5. j \in L!Table("DT_RELA", "DT_RELASZ") \/ j \in L!Table("DT_JMPREL", "DT_PLTRELSZ")
  BY DEF L!TablesHold
<1>6. j \in L!Table("DT_RELA", "DT_RELASZ") =>
        /\ HasIn(file, "DT_RELA")
        /\ j \in ValueIn(file, "DT_RELA") + 1 .. ValueIn(file, "DT_RELA") + nr
  BY <1>1, <1>2, <1>3, <1>4 DEF L!Table
<1>7. j \in L!Table("DT_JMPREL", "DT_PLTRELSZ") =>
        /\ HasIn(file, "DT_JMPREL")
        /\ j \in ValueIn(file, "DT_JMPREL") + 1 .. ValueIn(file, "DT_JMPREL") + np
  BY <1>1, <1>2, <1>3, <1>4 DEF L!Table
<1>8. HasIn(file, "DT_RELA") /\ HasIn(file, "DT_JMPREL") =>
        ValueIn(file, "DT_JMPREL") - ValueIn(file, "DT_RELA") \in 0 .. nr
  BY <1>1, <1>2, <1>3, <1>4 DEF L!TablesHold
<1>9. CASE HasIn(file, "DT_RELA")
  <2>1. PICK r \in Nat : r = ValueIn(file, "DT_RELA") /\ r = RelaOf(file)
    BY <1>2, <1>9 DEF RelaOf
  <2>2. j \in Int /\ j - r \in 1 .. nr + np
    <3>1. CASE j \in L!Table("DT_RELA", "DT_RELASZ")
      <4>1. j \in r + 1 .. r + nr
        BY <1>6, <2>1, <3>1
      <4> QED BY <4>1
    <3>2. CASE j \in L!Table("DT_JMPREL", "DT_PLTRELSZ")
      <4>1. HasIn(file, "DT_JMPREL")
        BY <1>7, <3>2
      <4>2. PICK v \in Nat : v = ValueIn(file, "DT_JMPREL")
        BY <1>2, <4>1
      <4>3. j \in v + 1 .. v + np /\ v - r \in 0 .. nr
        BY <1>7, <1>8, <1>9, <2>1, <3>2, <4>1, <4>2
      <4> QED BY <4>3
    <3> QED BY <1>5, <3>1, <3>2
  <2>3. j = r + (j - r)
    BY <2>2
  <2> QED BY <1>4, <2>1, <2>2, <2>3
<1>10. CASE ~ HasIn(file, "DT_RELA")
  <2>1. HasIn(file, "DT_JMPREL")
    BY <1>10 DEF Relocated
  <2>2. PICK r \in Nat : r = ValueIn(file, "DT_JMPREL") /\ r = RelaOf(file)
    BY <1>2, <1>10, <2>1 DEF RelaOf
  <2>3. j \in r + 1 .. r + np
    BY <1>5, <1>6, <1>7, <1>10, <2>2
  <2>4. j - r \in 1 .. nr + np /\ j = r + (j - r)
    BY <2>3
  <2> QED BY <1>4, <2>2, <2>4
<1> QED BY <1>9, <1>10

LEMMA WordReady ==
  ASSUME LoadInv, stage = "loaded", LoadsOf(file) # {}, L!HasRelocs => L!TablesHold,
         NEW w \in 1 .. file.phdrs[First(file)].filesz,
         NEW a, a = base_addr + file.phdrs[First(file)].vaddr + w - 1,
         NEW rs, rs = {r \in L!InTables : base_addr + r.at = a}
  PROVE  \/ \E r \in rs : L!Word(a) = <<"export", file.syms[r.sym].name, 0>>
         \/ /\ \A r \in rs : file.syms[r.sym].name \notin Exports
            /\ L!Word(a) = <<"file", First(file), w>>
<1> DEFINE f == file
           v == RelaOf(f)
<1>1. f \in Files /\ AllReady(f, base_addr, mem)
  BY DEF LoadInv
<1>2. PICK c \in Nat :
        /\ IF Relocated(f) THEN c > NumberIn(f, "DT_RELASZ") + NumberIn(f, "DT_PLTRELSZ")
                           ELSE c = 1
        /\ Ready(f, v, base_addr, mem, c)
  BY <1>1 DEF AllReady
<1>3. Right(f, v, base_addr, mem, c, w)
  BY <1>2 DEF Ready
<1>4. /\ a \in DOMAIN mem
      /\ \/ \E k \in 1 .. c - 1 :
              /\ Hits(f, v, k) /\ base_addr + RelocAt(f, v, k).at = a
              /\ mem[a] = <<"export", f.syms[RelocAt(f, v, k).sym].name, 0>>
         \/ /\ \A k \in 1 .. c - 1 : ~ (Hits(f, v, k) /\ base_addr + RelocAt(f, v, k).at = a)
            /\ mem[a] = <<"file", First(f), w>>
  BY <1>3 DEF Right
<1>5. L!Word(a) = mem[a]
  BY <1>4 DEF L!Word
<1>6. L!HasRelocs <=> Relocated(f)
  BY <1>1, ReadsAre
<1>7. f.relocs \in Seq([at : Nat, sym : 0 .. Len(f.syms)]) /\ Len(f.relocs) \in Nat
      /\ DOMAIN f.relocs = 1 .. Len(f.relocs)
  <2>1. f.relocs \in Seq([at : Nat, sym : 0 .. Len(f.syms)])
    BY <1>1, FileTyped
  <2> QED BY <2>1
<1> HIDE DEF f
<1>8. CASE \E k \in 1 .. c - 1 :
             /\ Hits(f, v, k) /\ base_addr + RelocAt(f, v, k).at = a
             /\ mem[a] = <<"export", f.syms[RelocAt(f, v, k).sym].name, 0>>
  <2>1. PICK k \in 1 .. c - 1 :
             /\ Hits(f, v, k) /\ base_addr + RelocAt(f, v, k).at = a
             /\ mem[a] = <<"export", f.syms[RelocAt(f, v, k).sym].name, 0>>
    BY <1>8
  <2>2. Relocated(f)
    BY <1>2, <2>1
  <2>3. v \in Nat
    BY <1>1, <2>2, ReadsAre DEF f
  <2> HIDE DEF v
  <2>4. v + k <= Len(f.relocs) /\ RelocAt(f, v, k) = f.relocs[v + k]
        /\ RelocAt(f, v, k).sym # 0
    BY <2>1 DEF Hits, RelocAt
  <2>5. v + k \in DOMAIN f.relocs
    BY <1>2, <1>7, <2>3, <2>4
  <2>6. RelocAt(f, v, k) \in L!InTables
    BY <1>6, <2>2, <2>4, <2>5 DEF L!InTables, L!ToSet, f
  <2>7. RelocAt(f, v, k) \in rs
    BY <2>1, <2>6
  <2> QED BY <1>5, <2>1, <2>7 DEF f
<1>9. CASE /\ \A k \in 1 .. c - 1 : ~ (Hits(f, v, k) /\ base_addr + RelocAt(f, v, k).at = a)
           /\ mem[a] = <<"file", First(f), w>>
  <2>1. ASSUME NEW r \in rs PROVE f.syms[r.sym].name \notin Exports
    <3>1. PICK j \in DOMAIN f.relocs : r = f.relocs[j]
      BY DEF L!InTables, L!ToSet, f
    <3>2. r.sym # 0 /\ Relocated(f) /\ base_addr + r.at = a
      BY <1>6 DEF L!InTables
    <3>3. \E k \in 1 .. NumberIn(f, "DT_RELASZ") + NumberIn(f, "DT_PLTRELSZ") : j = v + k
      BY <1>1, <1>6, <3>2, TablesCover DEF f
    <3>4. NumberIn(f, "DT_RELASZ") \in Nat /\ NumberIn(f, "DT_PLTRELSZ") \in Nat /\ v \in Nat
      BY <1>1, <3>2, ReadsAre DEF f
    <3>5. PICK k \in 1 .. c - 1 : j = v + k
      BY <1>2, <3>2, <3>3, <3>4
    <3>6. RelocAt(f, v, k) = r
      BY <1>7, <3>1, <3>5 DEF RelocAt
    <3> QED BY <1>9, <3>2, <3>6 DEF Hits
  <2> QED BY <1>5, <1>9, <2>1 DEF f
<1> QED BY <1>4, <1>8, <1>9

LEMMA InvReady == LoadInv => ModuleReady
<1> SUFFICES ASSUME LoadInv, stage = "loaded", L!Loads # {}, L!HasRelocs => L!TablesHold
             PROVE  LET n == L!Min(L!Loads) p == file.phdrs[n]
                    IN  /\ \E s \in L!ToSet(file.syms) :
                             s.name = L!INIT /\ i = base_addr + s.value
                        /\ \A w \in 1 .. p.filesz :
                             LET a == base_addr + p.vaddr + w - 1
                                 rs == {r \in L!InTables : base_addr + r.at = a}
                             IN  \/ \E r \in rs : L!Word(a) =
                                      <<"export", file.syms[r.sym].name, 0>>
                                 \/ /\ \A r \in rs : file.syms[r.sym].name \notin Exports
                                    /\ L!Word(a) = <<"file", n, w>>
  BY DEF ModuleReady, L!ModuleReady
<1>1. L!Loads = LoadsOf(file)
  BY LoadsAre
<1>2. L!Min(L!Loads) = First(file) /\ LoadsOf(file) # {}
  BY <1>1 DEF L!Min, Min, First
<1>3. \E s \in L!ToSet(file.syms) : s.name = L!INIT /\ i = base_addr + s.value
  <2>1. EntersInit(file, base_addr, i)
    BY DEF LoadInv
  <2> QED BY <2>1 DEF EntersInit, L!ToSet, ToSet, L!INIT
<1>4. \A w \in 1 .. file.phdrs[First(file)].filesz :
        LET a == base_addr + file.phdrs[First(file)].vaddr + w - 1
            rs == {r \in L!InTables : base_addr + r.at = a}
        IN  \/ \E r \in rs : L!Word(a) = <<"export", file.syms[r.sym].name, 0>>
            \/ /\ \A r \in rs : file.syms[r.sym].name \notin Exports
               /\ L!Word(a) = <<"file", First(file), w>>
  BY <1>2, WordReady
<1> QED BY <1>2, <1>3, <1>4

(***************************************************************************)
(* exec_process is given the program's segments, with their addresses,     *)
(* their rights and the bytes of the file, then blank ones (exec_elf).     *)
(***************************************************************************)
THEOREM SegmentsArePrepared == Spec => []ProgramPrepared
<1>1. Init => LoadInv
  BY LoadInit
<1>2. LoadInv /\ [Next]_vars => LoadInv'
  BY LoadStep
<1>3. LoadInv => ProgramPrepared
  BY InvPrepared
<1> QED BY <1>1, <1>2, <1>3, PTL DEF Spec

(***************************************************************************)
(* A module that is run has its first segment where it runs, each word as  *)
(* in the file or with the address of the symbol a relocation names, also  *)
(* of the second table, and is entered at init_module (load_module).       *)
(***************************************************************************)
THEOREM ModulesAreReady == Spec => []ModuleReady
<1>1. Init => LoadInv
  BY LoadInit
<1>2. LoadInv /\ [Next]_vars => LoadInv'
  BY LoadStep
<1>3. LoadInv => ModuleReady
  BY InvReady
<1> QED BY <1>1, <1>2, <1>3, PTL DEF Spec

-----------------------------------------------------------------------------
(***************************************************************************)
(* kmalloc.  The inductive invariant adds to the disjointness of what was  *)
(* given out that the free rest of kmalloc's block, and everything past    *)
(* the head of request_pages, was given to nobody.                         *)
(***************************************************************************)
Live == allocs \union pages

\* Two allocations do not meet: one is empty, or it ends before the other.
Apart(a, n, b, m) == n = 0 \/ m = 0 \/ a + n <= b \/ b + m <= a

(***************************************************************************)
(* Everything given out lies below the head, the free rest of the block is *)
(* given to nobody, and nothing is given out twice.                        *)
(***************************************************************************)
BelowHead == \A x \in Live : VmBegin <= x.a /\ x.a + x.n <= vm_arena_head
RestFree ==
  current_base # NULL =>
    \A x \in Live : Apart(x.a, x.n, current_base + current_offset,
                          current_size - current_offset)
AllApart == \A x, y \in Live : x = y \/ Apart(x.a, x.n, y.a, y.n)

KmallocInv == TypeOK /\ BelowHead /\ RestFree /\ AllApart

-----------------------------------------------------------------------------
\* The bytes of allocations that are apart are disjoint.
LEMMA ApartDisjoint ==
  ASSUME NEW x \in [a : Nat, n : Nat], NEW y \in [a : Nat, n : Nat],
         Apart(x.a, x.n, y.a, y.n)
  PROVE  H!Bytes(x) \intersect H!Bytes(y) = {}
BY DEF Apart, H!Bytes

\* A block is longer than what it is made for.
LEMMA BlockFacts ==
  ASSUME NEW size \in Nat
  PROVE  /\ BlockPages(size) \in Nat
         /\ BlockPages(size) * PageSize \in Nat
         /\ size < BlockPages(size) * PageSize
<1>1. PageSize \in Nat /\ PageSize > 0
  BY KmallocAssumption
<1>2. size \div PageSize \in Nat
  BY <1>1
<1>3. size < (size \div PageSize + 1) * PageSize
  BY <1>1
<1>4. QED
  BY <1>1, <1>2, <1>3 DEF BlockPages

LEMMA KmallocInitInv == KmallocInit => KmallocInv
BY KmallocAssumption
   DEF KmallocInit, KmallocInv, TypeOK, BelowHead, RestFree, AllApart, Live, NULL

(***************************************************************************)
(* What is given out in a step is apart from all that was given out.       *)
(***************************************************************************)
LEMMA FitsStep ==
  ASSUME KmallocInv, NEW size \in Sizes, KmallocFits(size)
  PROVE  KmallocInv' /\ H!HeapNext
<1> DEFINE x == [a |-> current_base + current_offset, n |-> size]
<1>1. size \in Nat /\ current_base # NULL
        /\ current_offset + size < current_size
  BY KmallocAssumption DEF KmallocInv, TypeOK, KmallocFits, Fits
<1>2. x \in [a : Nat, n : Nat]
  BY <1>1 DEF KmallocInv, TypeOK
<1>3. Live' = Live \union {x} /\ Live \subseteq [a : Nat, n : Nat]
  BY DEF KmallocFits, Live, KmallocInv, TypeOK
<1>4. VmBegin <= x.a /\ x.a + x.n <= vm_arena_head
  BY <1>1, KmallocAssumption DEF KmallocInv, TypeOK
<1>5. \A y \in Live : Apart(y.a, y.n, x.a, x.n)
  BY <1>1, <1>3 DEF KmallocInv, RestFree, Apart, TypeOK
<1>6. TypeOK'
  BY <1>1, <1>2 DEF KmallocInv, TypeOK, KmallocFits
<1>7. BelowHead'
  BY <1>3, <1>4 DEF KmallocInv, BelowHead, KmallocFits
<1>8. RestFree'
  <2>1. ASSUME NEW y \in Live
        PROVE  Apart(y.a, y.n, current_base + (current_offset + size),
                     current_size - (current_offset + size))
    BY <1>1, <1>3 DEF KmallocInv, RestFree, Apart, TypeOK
  <2>2. Apart(x.a, x.n, current_base + (current_offset + size),
              current_size - (current_offset + size))
    BY <1>1 DEF Apart, KmallocInv, TypeOK
  <2>3. QED
    BY <1>3, <2>1, <2>2 DEF RestFree, KmallocFits
<1>9. AllApart'
  BY <1>2, <1>3, <1>5 DEF KmallocInv, AllApart, Apart
<1>10. H!Give(x)
  <2>1. \A y \in Live : H!Bytes(x) \intersect H!Bytes(y) = {}
    BY <1>2, <1>3, <1>5, ApartDisjoint
  <2>2. H!Bytes(x) \subseteq VmBegin .. (VmEnd - 1)
    BY <1>2, <1>4, KmallocAssumption DEF H!Bytes, KmallocInv, TypeOK
  <2>3. QED
    BY <1>1, <1>3, <2>1, <2>2 DEF H!Give, Live
<1>11. QED
  BY <1>3, <1>6, <1>7, <1>8, <1>9, <1>10 DEF KmallocInv, H!HeapNext, Live

\* Pages from the head on: to kmalloc, of which it gives the first bytes,
\* or to another caller.
LEMMA FromHead ==
  ASSUME KmallocInv, NEW m \in Nat, NEW n \in Nat, n <= m,
         vm_arena_head + m <= VmEnd, vm_arena_head' = vm_arena_head + m,
         Live' = Live \union {[a |-> vm_arena_head, n |-> n]}
  PROVE  BelowHead' /\ AllApart' /\ H!HeapNext
<1> DEFINE x == [a |-> vm_arena_head, n |-> n]
<1>1. x \in [a : Nat, n : Nat] /\ Live \subseteq [a : Nat, n : Nat]
  BY KmallocAssumption DEF KmallocInv, TypeOK, Live
<1>2. \A y \in Live : Apart(y.a, y.n, x.a, x.n)
  BY DEF KmallocInv, BelowHead, Apart
<1>3. BelowHead'
  BY <1>1, KmallocAssumption DEF KmallocInv, BelowHead, TypeOK
<1>4. AllApart'
  BY <1>1, <1>2 DEF KmallocInv, AllApart, Apart
<1>5. H!Give(x)
  <2>1. \A y \in Live : H!Bytes(x) \intersect H!Bytes(y) = {}
    BY <1>1, <1>2, ApartDisjoint
  <2>2. H!Bytes(x) \subseteq VmBegin .. (VmEnd - 1)
    BY KmallocAssumption DEF H!Bytes, KmallocInv, TypeOK
  <2>3. QED
    BY <2>1, <2>2 DEF H!Give, Live
<1>6. QED
  BY <1>3, <1>4, <1>5 DEF H!HeapNext, Live

LEMMA NewBlockStep ==
  ASSUME KmallocInv, NEW size \in Sizes, KmallocNewBlock(size)
  PROVE  KmallocInv' /\ H!HeapNext
<1> DEFINE m == BlockPages(size) * PageSize
<1>1. size \in Nat /\ m \in Nat /\ size < m
  BY KmallocAssumption, BlockFacts
<1>2. vm_arena_head + m <= VmEnd /\ vm_arena_head' = vm_arena_head + m
  BY DEF KmallocNewBlock, CanRequest, MoveHead
<1>3. Live' = Live \union {[a |-> vm_arena_head, n |-> size]}
  BY DEF KmallocNewBlock, Live
<1>4. current_base' = vm_arena_head /\ current_offset' = size
        /\ current_size' = m
  BY DEF KmallocNewBlock, NewBlock
<1> HIDE DEF m
<1>5. BelowHead' /\ AllApart' /\ H!HeapNext
  BY <1>1, <1>2, <1>3, FromHead
<1>6. vm_arena_head \in Nat /\ VmBegin <= vm_arena_head
        /\ vm_arena_head # NULL
  BY KmallocAssumption DEF KmallocInv, TypeOK, NULL
<1>7. TypeOK'
  <2>1. vm_arena_head' \in VmBegin .. VmEnd
    BY <1>1, <1>2, <1>6, KmallocAssumption
  <2>2. allocs' \subseteq [a : Nat, n : Nat] /\ pages' \subseteq [a : Nat, n : Nat]
    BY <1>1, <1>6 DEF KmallocNewBlock, KmallocInv, TypeOK
  <2>3. QED
    BY <1>1, <1>2, <1>4, <1>6, <2>1, <2>2 DEF TypeOK
<1>8. RestFree'
  <2>1. ASSUME NEW y \in Live'
        PROVE  Apart(y.a, y.n, vm_arena_head + size, m - size)
    <3>1. CASE y \in Live
      <4>1. y \in [a : Nat, n : Nat] /\ y.a + y.n <= vm_arena_head
        BY <3>1 DEF KmallocInv, BelowHead, TypeOK, Live
      <4>2. QED
        BY <1>1, <1>6, <4>1 DEF Apart
    <3>2. CASE y = [a |-> vm_arena_head, n |-> size]
      BY <1>1, <1>6, <3>2 DEF Apart
    <3>3. QED
      BY <1>3, <2>1, <3>1, <3>2
  <2>2. QED
    BY <1>4, <2>1 DEF RestFree
<1>9. QED
  BY <1>5, <1>7, <1>8 DEF KmallocInv

\* The head alone moves, or nothing does.
LEMMA HeadStep ==
  ASSUME KmallocInv, NEW m \in Nat, vm_arena_head' = vm_arena_head + m,
         vm_arena_head + m <= VmEnd,
         UNCHANGED <<current_base, current_offset, current_size,
                     allocs, pages>>
  PROVE  KmallocInv'
<1>1. TypeOK' /\ Live' = Live
  BY KmallocAssumption DEF KmallocInv, TypeOK, Live
<1>2. BelowHead'
  BY <1>1, KmallocAssumption DEF KmallocInv, BelowHead, TypeOK, Live
<1>3. RestFree' /\ AllApart'
  BY <1>1 DEF KmallocInv, RestFree, AllApart
<1>4. QED
  BY <1>1, <1>2, <1>3 DEF KmallocInv

LEMMA RequestStep ==
  ASSUME KmallocInv, NEW n \in PageCounts, RequestPages(n)
  PROVE  KmallocInv' /\ (H!HeapNext \/ UNCHANGED Live)
<1> DEFINE m == n * PageSize
<1>1. m \in Nat
  BY KmallocAssumption
<1>2. vm_arena_head + m <= VmEnd /\ vm_arena_head' = vm_arena_head + m
        /\ UNCHANGED <<current_base, current_offset, current_size, allocs>>
  BY DEF RequestPages, CanRequest, MoveHead
<1>3. CASE pages' = pages \union {[a |-> vm_arena_head, n |-> m]}
  <2>1. Live' = Live \union {[a |-> vm_arena_head, n |-> m]}
    BY <1>2, <1>3 DEF Live
  <2> HIDE DEF m
  <2>2. BelowHead' /\ AllApart' /\ H!HeapNext
    BY <1>1, <1>2, <2>1, FromHead
  <2>3. TypeOK'
    BY <1>1, <1>2, <1>3, KmallocAssumption DEF KmallocInv, TypeOK
  <2>4. RestFree'
    BY <1>1, <1>2, <2>1, KmallocAssumption
       DEF KmallocInv, RestFree, Apart, TypeOK
  <2>5. QED
    BY <2>2, <2>3, <2>4 DEF KmallocInv
<1>4. CASE UNCHANGED pages
  <2> HIDE DEF m
  <2>1. QED
    BY <1>1, <1>2, <1>4, HeadStep DEF Live
<1>5. QED
  BY <1>3, <1>4 DEF RequestPages

LEMMA FailsStep ==
  ASSUME KmallocInv, NEW size \in Sizes, KmallocFails(size)
  PROVE  KmallocInv' /\ UNCHANGED Live
<1> DEFINE m == BlockPages(size) * PageSize
<1>1. m \in Nat
  BY KmallocAssumption, BlockFacts
<1>2. UNCHANGED Live
  BY DEF KmallocFails, Live
<1>3. CASE CanRequest(BlockPages(size)) /\ MoveHead(BlockPages(size))
  <2>1. vm_arena_head + m <= VmEnd /\ vm_arena_head' = vm_arena_head + m
    BY <1>3 DEF CanRequest, MoveHead
  <2> HIDE DEF m
  <2>2. QED
    BY <1>1, <1>2, <2>1, HeadStep DEF KmallocFails
<1>4. CASE UNCHANGED vm_arena_head
  BY <1>2, <1>4
     DEF KmallocFails, KmallocInv, TypeOK, BelowHead, RestFree, AllApart, Live
<1>5. QED
  BY <1>3, <1>4 DEF KmallocFails

LEMMA KmallocStep ==
  KmallocInv /\ [KmallocNext]_kvars => KmallocInv' /\ [H!HeapNext]_Live
<1>1. ASSUME KmallocInv, KmallocNext
      PROVE  KmallocInv' /\ (H!HeapNext \/ UNCHANGED Live)
  BY <1>1, FitsStep, NewBlockStep, FailsStep, RequestStep DEF KmallocNext
<1>2. ASSUME KmallocInv, UNCHANGED kvars
      PROVE  KmallocInv' /\ UNCHANGED Live
  BY <1>2 DEF kvars, KmallocInv, TypeOK, BelowHead, RestFree, AllApart, Live
<1>3. QED
  BY <1>1, <1>2

(***************************************************************************)
(* The inductive invariant holds in every reachable state.                 *)
(***************************************************************************)
THEOREM KmallocInductive == KmallocSpec => []KmallocInv
BY KmallocInitInv, KmallocStep, PTL DEF KmallocSpec

(***************************************************************************)
(* Type correctness: kmalloc's block lies in what request_pages gave, and  *)
(* is never full to its last byte (kmalloc.c:12, 22-24).                   *)
(***************************************************************************)
THEOREM KmallocTypes == KmallocSpec => []TypeOK
<1>1. KmallocInv => TypeOK
  BY DEF KmallocInv
<1>2. QED
  BY <1>1, KmallocInductive, PTL

(***************************************************************************)
(* No byte is given out twice, by kmalloc or by request_pages, whatever    *)
(* the order of the calls and of their failures.                           *)
(***************************************************************************)
THEOREM NothingTwice == KmallocSpec => []Disjoint
<1>1. KmallocInv => Disjoint
  <2> SUFFICES ASSUME KmallocInv PROVE Disjoint
    OBVIOUS
  <2>1. Live \subseteq [a : Nat, n : Nat]
    BY DEF KmallocInv, TypeOK, Live
  <2>2. \A x \in Live : Bytes(x) \subseteq VmBegin .. (VmEnd - 1)
    BY <2>1, KmallocAssumption
       DEF KmallocInv, BelowHead, TypeOK, Bytes, H!Bytes
  <2>3. \A x, y \in Live : x = y \/ Bytes(x) \intersect Bytes(y) = {}
    BY <2>1, ApartDisjoint DEF KmallocInv, AllApart, Bytes
  <2>4. QED
    BY <2>2, <2>3 DEF Disjoint, Live
<1>2. QED
  BY <1>1, KmallocInductive, PTL

(***************************************************************************)
(* kmalloc over request_pages implements the abstract heap.                *)
(***************************************************************************)
THEOREM KmallocImplementsHeap == KmallocSpec => ImplementsHeap
<1>1. KmallocInit => H!HeapInit
  BY DEF KmallocInit, H!HeapInit
<1>2. KmallocInv /\ [KmallocNext]_kvars => [H!HeapNext]_(allocs \union pages)
  BY KmallocStep DEF Live
<1>3. QED
  BY <1>1, <1>2, KmallocInductive, PTL DEF KmallocSpec, ImplementsHeap, H!HeapSpec
=============================================================================
