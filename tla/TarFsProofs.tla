----------------------------- MODULE TarFsProofs -----------------------------
(***************************************************************************)
(* Theorems about TarFs, for every archive and every size of its blocks    *)
(* and arrays: the nodes of the tree are entries of the archive, and an    *)
(* access within the size of a file does not leave its bytes.              *)
(***************************************************************************)
EXTENDS TarFs, Inductions

-----------------------------------------------------------------------------
(***************************************************************************)
(* The layout of an archive.                                               *)
(***************************************************************************)
LEMMA HeaderTyped ==
  ASSUME NEW h \in Header
  PROVE  /\ h.format \in {"ustar", "gnu", "none"} /\ h.name \in Seq(STRING)
         /\ h.type \in tar_ftype /\ h.size \in Seq(0 .. 7)
         /\ h.link \in Seq(STRING)
  BY DEF Header

LEMMA ModuleTyped ==
  ASSUME NEW m \in BootModule
  PROVE  m.cmdline \in STRING /\ m.entries \in Seq(Header) /\ m.zeros \in Nat
  BY DEF BootModule

LEMMA ValueType == \A digits \in Seq(0 .. 7) : Value(digits) \in Nat
<1> SUFFICES ASSUME NEW digits \in Seq(0 .. 7) PROVE Value(digits) \in Nat
  OBVIOUS
<1> DEFINE n == Len(digits)
           E == [p \in Nat \X (1 .. n) |-> p[1] * 8 + digits[p[2]]]
           IsFold(h) == h = [t \in SUBSET (DOMAIN digits) |->
                               IF t = {} THEN 0
                               ELSE h[t \ {Max(t)}] * 8 + digits[Max(t)]]
           h == CHOOSE x : IsFold(x)
<1>1. /\ n \in Nat /\ DOMAIN digits = 1 .. n
      /\ \A j \in 1 .. n : digits[j] \in Nat
  OBVIOUS
<1>2. E \in [Nat \X (1 .. n) -> Nat] /\ 0 \in Nat
  BY <1>1
<1>3. PICK g \in [SUBSET (1 .. n) -> Nat] : FoldedBy(g, n, 0, E)
  <2> HIDE DEF E, n
  <2> QED BY <1>1, <1>2, FoldExists
<1>4. ASSUME NEW g1, NEW t \in SUBSET (1 .. n), t # {}, g1[t \ {Max(t)}] \in Nat
      PROVE  g1[t \ {Max(t)}] * 8 + digits[Max(t)]
               = E[<<g1[t \ {Max(t)}], Max(t)>>]
  <2>1. Max(t) \in 1 .. n
    <3> HIDE DEF n
    <3> QED BY <1>1, <1>4, MaxOfPlaces
  <2> QED BY <1>4, <2>1
<1>5. IsFold(g)
  <2>1. ASSUME NEW t \in SUBSET (1 .. n)
        PROVE  g[t] = IF t = {} THEN 0 ELSE g[t \ {Max(t)}] * 8 + digits[Max(t)]
    <3>1. CASE t = {}
      BY <1>3, <3>1 DEF FoldedBy
    <3>2. CASE t # {}
      <4> HIDE DEF E, n
      <4>1. t \ {Max(t)} \in SUBSET (1 .. n)
        OBVIOUS
      <4>2. g[t \ {Max(t)}] \in Nat
        BY <1>3, <4>1
      <4>3. g[t] = E[<<g[t \ {Max(t)}], Max(t)>>]
        BY <1>3, <3>2 DEF FoldedBy
      <4>4. g[t \ {Max(t)}] * 8 + digits[Max(t)]
              = E[<<g[t \ {Max(t)}], Max(t)>>]
        BY <1>4, <3>2, <4>2
      <4> QED BY <3>2, <4>3, <4>4
    <3> QED BY <3>1, <3>2
  <2> HIDE DEF n
  <2> QED BY <1>1, <1>3, <2>1
<1>6. IsFold(h)
  <2> HIDE DEF IsFold
  <2> QED BY <1>5
<1>7. Value(digits) = h[DOMAIN digits]
  BY Zenon DEF Value, FoldLeft, MapThenFoldSet, Max
<1>8. FoldsIn(Nat, h, n, 0, E)
  <2> HIDE DEF h, E, n
  <2>1. h[{}] = 0
    <3>1. {} \in SUBSET (DOMAIN digits)
      OBVIOUS
    <3> QED BY <1>6, <3>1
  <2>2. ASSUME NEW t \in SUBSET (1 .. n), t # {}, h[t \ {Max(t)}] \in Nat
        PROVE  h[t] = E[<<h[t \ {Max(t)}], Max(t)>>]
    <3>1. h[t] = h[t \ {Max(t)}] * 8 + digits[Max(t)]
      BY <1>1, <1>6, <2>2
    <3> QED BY <1>4, <2>2, <3>1
  <2> QED BY <2>1, <2>2 DEF FoldsIn
<1>9. PICK f \in [0 .. n -> Nat] : EndsTrace(f, h, n, 0, E)
  <2> HIDE DEF h, E, n
  <2>1. n \in Nat /\ 0 \in Nat
    BY <1>1
  <2> QED BY <2>1, <1>2, <1>8, FoldTrace
<1>10. n \in 0 .. n
  BY <1>1
<1> QED BY <1>1, <1>7, <1>9, <1>10 DEF EndsTrace

LEMMA SpanFacts ==
  ASSUME NEW h \in Header
  PROVE  /\ Value(h.size) \in Nat /\ Span(h) \in Nat
         /\ Span(h) >= BLOCK + Value(h.size)
<1> DEFINE v == Value(h.size)
           q == (v + BLOCK - 1) \div BLOCK
<1>1. v \in Nat /\ BLOCK \in Nat \ {0}
  BY HeaderTyped, ValueType, TarAssumption
<1> HIDE DEF v
<1>2. v + BLOCK - 1 \in Nat
  BY <1>1
<1>3. q \in Nat /\ BLOCK * q + ((v + BLOCK - 1) % BLOCK) = v + BLOCK - 1
  BY <1>1, <1>2
<1>4. (v + BLOCK - 1) % BLOCK <= BLOCK - 1 /\ (v + BLOCK - 1) % BLOCK \in Nat
  BY <1>1, <1>2
<1> HIDE DEF q
<1>5. BLOCK * q \in Nat
  BY <1>1, <1>3
<1>6. BLOCK * q >= v
  BY <1>1, <1>3, <1>4, <1>5
<1>7. BLOCK * (1 + q) = BLOCK + BLOCK * q
  BY <1>1, <1>3
<1>8. Span(h) = BLOCK * (1 + q)
  BY DEF Span, q, v
<1>9. v = Value(h.size)
  BY DEF v
<1> QED BY <1>1, <1>5, <1>6, <1>7, <1>8, <1>9

\* The headers add up, one by one.
SpansOf(es, f) ==
  /\ f \in [0 .. Len(es) -> Nat] /\ f[0] = 0
  /\ \A j \in 1 .. Len(es) : f[j] = f[j - 1] + Span(es[j])
Spans(es) == FoldLeft(LAMBDA n, h : n + Span(h), 0, es)

LEMMA SpanTrace ==
  ASSUME NEW es \in Seq(Header)
  PROVE  \E f : SpansOf(es, f) /\ Spans(es) = f[Len(es)]
<1> DEFINE n == Len(es)
           E == [p \in Nat \X (1 .. n) |-> p[1] + Span(es[p[2]])]
           IsFold(h) == h = [t \in SUBSET (DOMAIN es) |->
                               IF t = {} THEN 0
                               ELSE h[t \ {Max(t)}] + Span(es[Max(t)])]
           h == CHOOSE x : IsFold(x)
<1>1. n \in Nat /\ DOMAIN es = 1 .. n /\ \A j \in 1 .. n : Span(es[j]) \in Nat
  BY SpanFacts
<1>2. E \in [Nat \X (1 .. n) -> Nat] /\ 0 \in Nat
  BY <1>1
<1>3. PICK g \in [SUBSET (1 .. n) -> Nat] : FoldedBy(g, n, 0, E)
  <2> HIDE DEF E, n
  <2> QED BY <1>1, <1>2, FoldExists
<1>4. ASSUME NEW g1, NEW t \in SUBSET (1 .. n), t # {}, g1[t \ {Max(t)}] \in Nat
      PROVE  g1[t \ {Max(t)}] + Span(es[Max(t)])
               = E[<<g1[t \ {Max(t)}], Max(t)>>]
  <2>1. Max(t) \in 1 .. n
    <3> HIDE DEF n
    <3> QED BY <1>1, <1>4, MaxOfPlaces
  <2> QED BY <1>4, <2>1
<1>5. IsFold(g)
  <2>1. ASSUME NEW t \in SUBSET (1 .. n)
        PROVE  g[t] = IF t = {} THEN 0 ELSE g[t \ {Max(t)}] + Span(es[Max(t)])
    <3>1. CASE t = {}
      BY <1>3, <3>1 DEF FoldedBy
    <3>2. CASE t # {}
      <4> HIDE DEF E, n
      <4>1. t \ {Max(t)} \in SUBSET (1 .. n)
        OBVIOUS
      <4>2. g[t \ {Max(t)}] \in Nat
        BY <1>3, <4>1
      <4>3. g[t] = E[<<g[t \ {Max(t)}], Max(t)>>]
        BY <1>3, <3>2 DEF FoldedBy
      <4>4. g[t \ {Max(t)}] + Span(es[Max(t)]) = E[<<g[t \ {Max(t)}], Max(t)>>]
        BY <1>4, <3>2, <4>2
      <4> QED BY <3>2, <4>3, <4>4
    <3> QED BY <3>1, <3>2
  <2> HIDE DEF n
  <2> QED BY <1>1, <1>3, <2>1
<1>6. IsFold(h)
  <2> HIDE DEF IsFold
  <2> QED BY <1>5
<1>7. Spans(es) = h[DOMAIN es]
  BY Zenon DEF Spans, FoldLeft, MapThenFoldSet, Max
<1>8. FoldsIn(Nat, h, n, 0, E)
  <2> HIDE DEF h, E, n
  <2>1. h[{}] = 0
    <3>1. {} \in SUBSET (DOMAIN es)
      OBVIOUS
    <3> QED BY <1>6, <3>1
  <2>2. ASSUME NEW t \in SUBSET (1 .. n), t # {}, h[t \ {Max(t)}] \in Nat
        PROVE  h[t] = E[<<h[t \ {Max(t)}], Max(t)>>]
    <3>1. h[t] = h[t \ {Max(t)}] + Span(es[Max(t)])
      BY <1>1, <1>6, <2>2
    <3> QED BY <1>4, <2>2, <3>1
  <2> QED BY <2>1, <2>2 DEF FoldsIn
<1>9. PICK f \in [0 .. n -> Nat] : EndsTrace(f, h, n, 0, E)
  <2> HIDE DEF h, E, n
  <2>1. n \in Nat /\ 0 \in Nat
    BY <1>1
  <2> QED BY <2>1, <1>2, <1>8, FoldTrace
<1>10. SpansOf(es, f)
  <2>1. ASSUME NEW j \in 1 .. n PROVE f[j] = f[j - 1] + Span(es[j])
    <3> HIDE DEF n, E, h
    <3>1. j - 1 \in 0 .. n /\ f[j - 1] \in Nat
      BY <1>1, <1>9
    <3> USE DEF E
    <3>2. f[j] = E[<<f[j - 1], j>>]
      BY <1>9 DEF EndsTrace, Trace
    <3> QED BY <3>1, <3>2
  <2> QED BY <1>9, <2>1 DEF EndsTrace, Trace, SpansOf
<1> QED BY <1>1, <1>7, <1>9, <1>10 DEF EndsTrace

(***************************************************************************)
(* A header lies where the ones before it end, and what follows the last   *)
(* one are the zero blocks.                                                *)
(***************************************************************************)
LEMMA StartFacts ==
  ASSUME NEW m \in BootModule
  PROVE  /\ DiskSize(m) \in Nat
         /\ \A i \in DOMAIN m.entries :
              /\ Start(m, i) \in Nat
              /\ Start(m, i) + Span(m.entries[i]) + m.zeros * BLOCK
                   <= DiskSize(m)
<1> DEFINE es == m.entries
           n == Len(es)
<1>1. es \in Seq(Header) /\ n \in Nat /\ DOMAIN es = 1 .. n /\ m.zeros \in Nat
  BY ModuleTyped
<1>2. PICK f : SpansOf(es, f) /\ Spans(es) = f[n]
  <2> HIDE DEF es
  <2> QED BY <1>1, SpanTrace
<1>3. \A i \in 1 .. n : Span(es[i]) \in Nat /\ Span(es[i]) >= 0
  <2>1. \A i \in 1 .. n : es[i] \in Header
    BY <1>1
  <2> QED BY <2>1, SpanFacts
<1>4. ASSUME NEW i \in 0 .. n PROVE Spans(SubSeq(es, 1, i)) = f[i]
  <2> DEFINE ss == SubSeq(es, 1, i)
  <2>1. /\ ss \in Seq(Header) /\ Len(ss) = i
        /\ \A j \in 1 .. i : ss[j] = es[j]
    <3>1. i \in Nat /\ i <= Len(es)
      BY <1>1
    <3> HIDE DEF es
    <3> QED BY <1>1, <3>1, StartOf
  <2> HIDE DEF ss
  <2>2. PICK g : SpansOf(ss, g) /\ Spans(ss) = g[i]
    BY <2>1, SpanTrace
  <2> DEFINE Same == {j \in 0 .. i : g[j] = f[j]}
  <2>3. 0 \in Same
    BY <1>2, <2>2 DEF SpansOf
  <2>4. ASSUME NEW j \in 0 .. i - 1, j \in Same PROVE j + 1 \in Same
    <3>1. /\ j + 1 \in 1 .. i /\ j + 1 \in 1 .. n /\ j + 1 \in 0 .. i
          /\ (j + 1) - 1 = j
      BY <1>1
    <3>2. g[j + 1] = g[j] + Span(ss[j + 1])
      BY <2>1, <2>2, <3>1 DEF SpansOf
    <3>3. f[j + 1] = f[j] + Span(es[j + 1])
      BY <1>2, <3>1 DEF SpansOf
    <3> QED BY <2>1, <2>4, <3>1, <3>2, <3>3
  <2>5. i \in Nat /\ i \in 0 .. i
    BY <1>1
  <2>6. i \in Same
    <3> HIDE DEF Same
    <3> QED BY <2>3, <2>4, <2>5, InductUpTo
  <2> QED BY <2>2, <2>6 DEF ss
<1>5. \A i \in 1 .. n + 1 : Start(m, i) = f[i - 1]
  <2>1. \A i \in 1 .. n + 1 : i - 1 \in 0 .. n
    BY <1>1
  <2> QED BY <1>4, <2>1 DEF Start, Spans
<1>6. \A i \in 0 .. n : f[i] \in Nat
  BY <1>1, <1>2 DEF SpansOf
<1>7. ASSUME NEW i \in 1 .. n PROVE f[i - 1] + Span(es[i]) <= f[n]
  <2>1. i \in 0 .. n /\ i - 1 \in 0 .. n /\ n \in 0 .. n
    BY <1>1
  <2>2. f[i] = f[i - 1] + Span(es[i])
    BY <1>2 DEF SpansOf
  <2> DEFINE Less == {d \in 0 .. n - i : f[i] <= f[i + d]}
  <2>3. 0 \in Less
    <3>1. 0 \in 0 .. n - i /\ i + 0 = i
      BY <1>1
    <3> QED BY <1>6, <2>1, <3>1
  <2>4. ASSUME NEW d \in 0 .. (n - i) - 1, d \in Less PROVE d + 1 \in Less
    <3>1. /\ i + d + 1 \in 1 .. n /\ i + d \in 0 .. n
          /\ (i + d + 1) - 1 = i + d /\ d + 1 \in 0 .. n - i
          /\ i + (d + 1) = i + d + 1
      BY <1>1
    <3>2. f[i + d + 1] = f[i + d] + Span(es[i + d + 1])
      BY <1>2, <3>1 DEF SpansOf
    <3>3. f[i] <= f[i + d]
      BY <2>4
    <3>4. Span(es[i + d + 1]) \in Nat
      BY <1>3, <3>1
    <3> HIDE DEF es
    <3> QED BY <1>6, <2>1, <3>1, <3>2, <3>3, <3>4
  <2>5. n - i \in Nat /\ n - i \in 0 .. n - i /\ i + (n - i) = n
    BY <1>1
  <2>6. n - i \in Less
    <3> HIDE DEF Less
    <3> QED BY <2>3, <2>4, <2>5, InductUpTo
  <2> QED BY <2>2, <2>5, <2>6
<1>8. m.zeros * BLOCK \in Nat
  BY <1>1, TarAssumption
<1>9. DiskSize(m) = f[n] + m.zeros * BLOCK
  <2>1. n + 1 \in 1 .. n + 1 /\ (n + 1) - 1 = n
    BY <1>1
  <2> QED BY <1>5, <2>1 DEF DiskSize
<1>10. ASSUME NEW i \in 1 .. n
       PROVE  /\ Start(m, i) \in Nat
              /\ Start(m, i) + Span(es[i]) + m.zeros * BLOCK <= DiskSize(m)
  <2>1. i \in 1 .. n + 1 /\ i - 1 \in 0 .. n /\ n \in 0 .. n
    BY <1>1
  <2>2. Start(m, i) = f[i - 1] /\ f[i - 1] \in Nat /\ f[n] \in Nat
    BY <1>5, <1>6, <2>1
  <2> HIDE DEF es
  <2> QED BY <1>3, <1>7, <1>8, <1>9, <2>2
<1>11. n \in 0 .. n
  BY <1>1
<1> QED BY <1>1, <1>6, <1>8, <1>9, <1>10, <1>11

\* What is found at an offset is a header that lies there, or nothing.
LEMMA HeaderFound ==
  ASSUME NEW m \in BootModule, NEW at
  PROVE  /\ HeaderAt(m, at) \in Header
         /\ HeaderAt(m, at).format # "none" =>
              \E i \in DOMAIN m.entries :
                /\ Start(m, i) = at /\ HeaderAt(m, at) = m.entries[i]
<1> DEFINE es == m.entries
           s == [k \in DOMAIN es |-> Start(m, k)]
           T == {k \in 1 .. Len(s) : s[k] = at}
           i == IF T # {} THEN Min(T) ELSE 0
<1>1. es \in Seq(Header) /\ DOMAIN es = 1 .. Len(es) /\ Len(es) \in Nat
  BY ModuleTyped
<1>2. Len(s) = Len(es)
  <2> HIDE DEF es
  <2> QED BY <1>1
<1>3. i # 0 => i \in DOMAIN es /\ Start(m, i) = at
  <2>1. T # {} => Min(T) \in T
    <3>1. T \subseteq 1 .. Len(es)
      BY <1>2
    <3> HIDE DEF T, es
    <3> QED BY <1>1, <3>1, MinOfPlaces
  <2>2. \A k \in T : k \in DOMAIN es /\ Start(m, k) = at
    BY <1>1, <1>2
  <2> HIDE DEF T
  <2> QED BY <2>1, <2>2
<1>4. HeaderAt(m, at) = IF i = 0 THEN NoHeader ELSE es[i]
  BY Zenon DEF HeaderAt, SelectInSeq
<1>5. NoHeader \in Header /\ NoHeader.format = "none"
  <2>1. \A S : <<>> \in Seq(S)
    BY EmptySeq
  <2>2. NoHeader.format = "none"
    BY DEF NoHeader
  <2>3. ASSUME NEW e, e \in Seq(STRING), e \in Seq(0 .. 7)
        PROVE  [format |-> "none", name |-> e, type |-> "", size |-> e,
                link |-> e] \in Header
    BY <2>3 DEF Header, tar_ftype
  <2> QED BY <2>1, <2>2, <2>3 DEF NoHeader
<1> HIDE DEF i, es
<1>6. i # 0 => es[i] \in Header
  BY <1>1, <1>3
<1>7. CASE i = 0
  BY <1>4, <1>5, <1>7
<1>8. CASE i # 0
  BY <1>3, <1>4, <1>6, <1>8 DEF es
<1> QED BY <1>7, <1>8

LEMMA NameParts ==
  ASSUME NEW S, NEW s \in Seq(S), s # <<>>
  PROVE  /\ Front(s) \in Seq(S) /\ Last(s) \in S
         /\ Append(Front(s), Last(s)) = s
<1>1. Len(s) \in Nat \ {0}
  BY EmptySeq
<1>2. Len(s) - 1 \in Nat /\ Len(s) - 1 <= Len(s)
  BY <1>1
<1> DEFINE q == SubSeq(s, 1, Len(s) - 1)
<1>3. /\ q \in Seq(S) /\ Len(q) = Len(s) - 1
      /\ \A i \in 1 .. Len(s) - 1 : q[i] = s[i]
  BY <1>2, StartOf
<1>4. q = Front(s)
  BY DEF Front
<1> HIDE DEF q
<1>5. s[Len(s)] \in S
  BY <1>1
<1> DEFINE r == Append(q, s[Len(s)])
<1>6. /\ r \in Seq(S) /\ Len(r) = Len(s)
      /\ \A i \in 1 .. Len(s) : r[i] = s[i]
  BY <1>1, <1>3, <1>5
<1>7. r = s
  <2> HIDE DEF r
  <2> QED BY <1>6, SeqEqual
<1> QED BY <1>3, <1>4, <1>5, <1>7 DEF Last

LEMMA WithoutLast ==
  ASSUME NEW S, NEW s \in Seq(S), NEW e \in S
  PROVE  Front(Append(s, e)) = s
<1> DEFINE r == Append(s, e)
<1>1. /\ r \in Seq(S) /\ Len(r) = Len(s) + 1 /\ Len(s) \in Nat
      /\ \A i \in 1 .. Len(s) : r[i] = s[i]
  OBVIOUS
<1> HIDE DEF r
<1> DEFINE q == SubSeq(r, 1, Len(s))
<1>2. /\ q \in Seq(S) /\ Len(q) = Len(s)
      /\ \A i \in 1 .. Len(s) : q[i] = r[i]
  <2>1. Len(s) <= Len(r)
    BY <1>1
  <2> QED BY <1>1, <2>1, StartOf
<1>3. Len(r) - 1 = Len(s)
  BY <1>1
<1>4. q = Front(r)
  BY <1>3 DEF Front
<1> HIDE DEF q
<1>5. q = s
  BY <1>1, <1>2, SeqEqual
<1> QED BY <1>4, <1>5 DEF r

-----------------------------------------------------------------------------
(***************************************************************************)
(* The tree.  A node was made after its parent, which is a directory and   *)
(* has it among its children; the name in its header is that of the parent *)
(* and its own.  The parse stands in a directory, whose name it holds, and *)
(* at a header; where the disk ends too early it holds an old one.         *)
(***************************************************************************)
TarNode ==
  [name : STRING \union {"/"}, type : {"VFS_DIR", "VFS_SYM", "VFS_FILE"},
   parent : Nat, offset : Nat, symlink : Seq(STRING), children : Seq(Nat)]

NameIn(d, t, n) == IF n = Root THEN <<>> ELSE HeaderAt(d, t[n].offset).name
NodeSound(d, t, n) ==
  IF n = Root THEN t[n].type = "VFS_DIR"
  ELSE /\ t[n].parent \in 1 .. n - 1
       /\ HeaderAt(d, t[n].offset).format # "none"
       /\ t[n].name \in STRING
       /\ NameIn(d, t, n) = Append(NameIn(d, t, t[n].parent), t[n].name)
       /\ t[t[n].parent].type = "VFS_DIR"
       /\ n \in ToSet(t[t[n].parent].children)
NodesSound(d, t) == t \in Seq(TarNode) /\ \A n \in DOMAIN t : NodeSound(d, t, n)
StandsIn(d, t, dir, name) ==
  /\ dir \in DOMAIN t /\ t[dir].type = "VFS_DIR" /\ name = NameIn(d, t, dir)

DiskSound ==
  /\ boot \in Seq(BootModule)
  /\ stage \in {"boot", "panic"} \/ disk \in DOMAIN boot
Untouched == tree = <<>> /\ io = NoIo
TarInv ==
  /\ DiskSound
  /\ stage \in {"boot", "initrd", "panic", "noroot"} =>
       Untouched /\ ident = <<>> /\ offset = 0
  /\ NodesSound(Disk, tree)
  /\ stage \in {"parse", "mounted"} => StandsIn(Disk, tree, cur, ident)
  /\ stage = "parse" =>
       /\ hdr \in Header /\ offset \in Nat
       /\ hdr.format # "none" => hdr = HeaderAt(Disk, offset)
  /\ io.node # NULL => stage = "mounted"
  /\ AccessesStayInFile

LEMMA EmptyTree == \A d : NodesSound(d, <<>>)
<1>1. <<>> \in Seq(TarNode)
  BY EmptySeq
<1>2. DOMAIN <<>> = {}
  OBVIOUS
<1> QED BY <1>1, <1>2 DEF NodesSound

LEMMA DiskTyped ==
  ASSUME DiskSound, stage \notin {"boot", "panic"}
  PROVE  Disk \in BootModule
BY DEF DiskSound, Disk

LEMMA NodesTyped ==
  ASSUME NEW d, NEW t, NodesSound(d, t)
  PROVE  /\ DOMAIN t = 1 .. Len(t) /\ Len(t) \in Nat
         /\ \A n \in DOMAIN t : t[n] \in TarNode /\ NodeSound(d, t, n)
BY DEF NodesSound

LEMMA NodeTyped ==
  ASSUME NEW node \in TarNode
  PROVE  /\ node.name \in STRING \union {"/"}
         /\ node.type \in {"VFS_DIR", "VFS_SYM", "VFS_FILE"}
         /\ node.parent \in Nat /\ node.offset \in Nat
         /\ node.symlink \in Seq(STRING) /\ node.children \in Seq(Nat)
BY DEF TarNode

LEMMA TarInit == Init => TarInv
<1> SUFFICES ASSUME Init PROVE TarInv
  OBVIOUS
<1>1. /\ stage = "boot" /\ boot \in Boots /\ tree = <<>> /\ ident = <<>>
      /\ offset = 0 /\ io = NoIo
  BY DEF Init
<1>2. DiskSound
  BY <1>1, TarAssumption DEF DiskSound
<1>3. io.node = NULL
  BY <1>1 DEF NoIo
<1> QED BY <1>1, <1>2, <1>3, EmptyTree DEF TarInv, Untouched, AccessesStayInFile

-----------------------------------------------------------------------------
(***************************************************************************)
(* Each step keeps it.                                                     *)
(***************************************************************************)
\* Steps that only tell how the parse ended.
LEMMA EndsKeep ==
  ASSUME TarInv, UNCHANGED <<boot, disk, parsing, bytes, io, calls>>,
         \/ stage = "boot" /\ stage' = "panic"
         \/ stage = "parse" /\ stage' \in {"wild", "mounted"}
  PROVE  TarInv'
<1>1. /\ boot' = boot /\ disk' = disk /\ tree' = tree /\ cur' = cur
      /\ ident' = ident /\ offset' = offset /\ hdr' = hdr /\ io' = io
  BY DEF parsing
<1>2. Disk' = Disk
  BY <1>1 DEF Disk
<1>3. DiskSound'
  BY <1>1 DEF TarInv, DiskSound
<1>4. io.node = NULL
  BY DEF TarInv
<1>5. NodesSound(Disk, tree)' /\ StandsIn(Disk, tree, cur, ident)'
         = StandsIn(Disk, tree, cur, ident)
  BY <1>1, <1>2 DEF TarInv, NodesSound, StandsIn
<1>6. AccessesStayInFile'
  BY <1>1, <1>4 DEF AccessesStayInFile
<1>7. CASE stage = "boot" /\ stage' = "panic"
  BY <1>1, <1>3, <1>4, <1>5, <1>6, <1>7 DEF TarInv, Untouched
<1>8. CASE stage = "parse" /\ stage' \in {"wild", "mounted"}
  BY <1>1, <1>3, <1>4, <1>5, <1>6, <1>8 DEF TarInv
<1> QED BY <1>7, <1>8

LEMMA CreateInitrdKeeps == ASSUME TarInv, CreateInitrd PROVE TarInv'
<1>1. /\ stage = "boot" /\ stage' = "initrd"
      /\ Usable /\ disk' = LastOf(Initrds)
      /\ boot' = boot /\ tree' = tree /\ ident' = ident /\ offset' = offset
      /\ io' = io
  BY DEF CreateInitrd, parsing
<1>2. boot \in Seq(BootModule) /\ Untouched /\ ident = <<>> /\ offset = 0
  BY <1>1 DEF TarInv, DiskSound
<1>3. LastOf(Initrds) \in DOMAIN boot
  <2>1. Initrds \subseteq 1 .. Len(boot) /\ Initrds # {} /\ Len(boot) \in Nat
    BY <1>1, <1>2 DEF Usable, Initrds
  <2>2. \E i \in Initrds : \A j \in Initrds : i >= j
    BY <2>1, MaxOfPlaces
  <2>3. LastOf(Initrds) \in Initrds
    BY <2>2 DEF LastOf
  <2> QED BY <2>3 DEF Initrds
<1>4. DiskSound'
  BY <1>1, <1>2, <1>3 DEF DiskSound
<1>5. Untouched' /\ ident' = <<>> /\ offset' = 0
  BY <1>1, <1>2 DEF Untouched
<1>6. NodesSound(Disk, tree)'
  <2>1. tree' = <<>>
    BY <1>5 DEF Untouched
  <2> QED BY <2>1, EmptyTree
<1>7. io'.node = NULL
  BY <1>5 DEF Untouched, NoIo
<1>8. AccessesStayInFile'
  BY <1>7 DEF AccessesStayInFile
<1> QED BY <1>1, <1>4, <1>5, <1>6, <1>7, <1>8 DEF TarInv

LEMMA OpenArchiveKeeps == ASSUME TarInv, OpenArchive PROVE TarInv'
<1>1. /\ stage = "initrd" /\ hdr' = FirstHeader /\ boot' = boot /\ disk' = disk
      /\ ident' = ident /\ offset' = offset /\ io' = io
  BY DEF OpenArchive
<1>2. /\ DiskSound /\ Untouched /\ ident = <<>> /\ offset = 0
  BY <1>1 DEF TarInv
<1>3. DiskSound' /\ Disk' = Disk /\ Disk \in BootModule
  <2>1. disk \in DOMAIN boot
    BY <1>1, <1>2 DEF DiskSound
  <2> QED BY <1>1, <1>2, <2>1, DiskTyped DEF DiskSound, Disk
<1>4. io'.node = NULL
  BY <1>1, <1>2 DEF Untouched, NoIo
<1>5. AccessesStayInFile'
  BY <1>4 DEF AccessesStayInFile
<1>6. CASE FirstHeader.format = "ustar"
  <2>1. /\ stage' = "parse" /\ cur' = Root
        /\ tree' = <<Node("/", "VFS_DIR", NULL, 0, <<>>)>>
    BY <1>6 DEF OpenArchive
  <2> DEFINE root == Node("/", "VFS_DIR", NULL, 0, <<>>)
  <2>2. FirstHeader = HeaderAt(Disk, 0)
    BY <1>6 DEF FirstHeader, NoHeader
  <2>3. hdr' \in Header /\ hdr' = HeaderAt(Disk, offset)'
    BY <1>1, <1>2, <1>3, <2>2, HeaderFound
  <2>4. root \in TarNode /\ root.type = "VFS_DIR"
    <3>1. <<>> \in Seq(STRING) /\ <<>> \in Seq(Nat)
      BY EmptySeq
    <3>2. ASSUME NEW e, e \in Seq(STRING), NEW c, c \in Seq(Nat)
          PROVE  [name |-> "/", type |-> "VFS_DIR", parent |-> 0, offset |-> 0,
                  symlink |-> e, children |-> c] \in TarNode
      BY <3>2 DEF TarNode
    <3> QED BY <3>1, <3>2 DEF Node, NULL
  <2> HIDE DEF root
  <2>5. /\ <<root>> \in Seq(TarNode) /\ DOMAIN <<root>> = {1}
        /\ <<root>>[1] = root
    BY <2>4
  <2>6. NodesSound(Disk, tree)'
    <3>1. tree' = <<root>>
      BY <2>1 DEF root
    <3>2. NodeSound(Disk', <<root>>, 1)
      BY <2>4, <2>5 DEF NodeSound, Root
    <3> QED BY <2>5, <3>1, <3>2 DEF NodesSound
  <2>7. StandsIn(Disk, tree, cur, ident)'
    <3>1. tree' = <<root>>
      BY <2>1 DEF root
    <3>2. NameIn(Disk', tree', 1) = <<>>
      BY DEF NameIn, Root
    <3> QED BY <1>1, <1>2, <2>1, <2>4, <2>5, <3>1, <3>2 DEF StandsIn, Root
  <2>8. offset' \in Nat
    BY <1>1, <1>2
  <2> QED BY <1>3, <1>4, <1>5, <2>1, <2>3, <2>6, <2>7, <2>8 DEF TarInv
<1>7. CASE FirstHeader.format # "ustar"
  <2>1. stage' = "noroot" /\ tree' = tree
    BY <1>7 DEF OpenArchive
  <2>2. Untouched'
    BY <1>1, <1>2, <2>1 DEF Untouched
  <2>3. NodesSound(Disk, tree)'
    BY <2>2, EmptyTree DEF Untouched
  <2> QED BY <1>1, <1>2, <1>3, <1>4, <1>5, <2>1, <2>2, <2>3 DEF TarInv
<1> QED BY <1>6, <1>7

LEMMA NameTyped ==
  ASSUME NEW d \in BootModule, NEW t, NEW n
  PROVE  NameIn(d, t, n) \in Seq(STRING)
<1>1. HeaderAt(d, t[n].offset).name \in Seq(STRING)
  BY HeaderFound, HeaderTyped
<1>2. <<>> \in Seq(STRING)
  BY EmptySeq
<1> QED BY <1>1, <1>2 DEF NameIn

LEMMA ClimbKeeps == ASSUME TarInv, Climb PROVE TarInv'
<1>1. /\ stage = "parse" /\ hdr.format # "none" /\ cur # Root
      /\ cur' = tree[cur].parent /\ ident' = Front(ident)
      /\ stage' = stage /\ boot' = boot /\ disk' = disk /\ tree' = tree
      /\ offset' = offset /\ hdr' = hdr /\ io' = io
  BY DEF Climb, Turn, Dirname
<1>2. /\ DiskSound /\ NodesSound(Disk, tree) /\ StandsIn(Disk, tree, cur, ident)
      /\ hdr \in Header /\ offset \in Nat
      /\ hdr.format # "none" => hdr = HeaderAt(Disk, offset)
      /\ io.node = NULL
  BY <1>1 DEF TarInv
<1>3. Disk' = Disk /\ Disk \in BootModule /\ DiskSound'
  BY <1>1, <1>2, DiskTyped DEF DiskSound, Disk
<1>4. /\ cur \in DOMAIN tree /\ tree[cur].type = "VFS_DIR"
      /\ ident = NameIn(Disk, tree, cur)
  BY <1>2 DEF StandsIn
<1> DEFINE p == tree[cur].parent
<1>5. /\ p \in 1 .. cur - 1 /\ tree[cur].name \in STRING
      /\ NameIn(Disk, tree, cur) = Append(NameIn(Disk, tree, p), tree[cur].name)
      /\ tree[p].type = "VFS_DIR"
  BY <1>1, <1>2, <1>4, NodesTyped DEF NodeSound
<1>6. p \in DOMAIN tree
  BY <1>2, <1>4, <1>5, NodesTyped
<1>7. ident' = NameIn(Disk, tree, p)
  <2>1. NameIn(Disk, tree, p) \in Seq(STRING)
    BY <1>3, NameTyped
  <2> HIDE DEF p
  <2> QED BY <1>1, <1>4, <1>5, <2>1, WithoutLast
<1>8. StandsIn(Disk, tree, cur, ident)'
  BY <1>1, <1>3, <1>5, <1>6, <1>7 DEF StandsIn
<1>9. AccessesStayInFile'
  BY <1>1, <1>2 DEF AccessesStayInFile
<1>10. NodesSound(Disk, tree)'
  BY <1>1, <1>2, <1>3
<1> QED BY <1>1, <1>2, <1>3, <1>8, <1>9, <1>10 DEF TarInv

\* What the new node is, and where it is put.
LEMMA NewNode ==
  ASSUME NEW h \in Header, h.name # <<>>, cur \in Nat, offset \in Nat
  PROVE  /\ NodeOf(h) \in TarNode /\ NodeOf(h).name = Last(h.name)
         /\ NodeOf(h).parent = cur /\ NodeOf(h).offset = offset
         /\ Enters(h) => NodeOf(h).type = "VFS_DIR"
<1>1. Last(h.name) \in STRING /\ h.link \in Seq(STRING)
  BY HeaderTyped, NameParts
<1>2. <<>> \in Seq(STRING) /\ <<>> \in Seq(Nat)
  BY EmptySeq
<1>3. ASSUME NEW e, e \in Seq(STRING), NEW c, c \in Seq(Nat),
             NEW ty \in {"VFS_DIR", "VFS_SYM", "VFS_FILE"}, NEW nm \in STRING
      PROVE  [name |-> nm, type |-> ty, parent |-> cur, offset |-> offset,
              symlink |-> e, children |-> c] \in TarNode
  BY <1>3 DEF TarNode
<1>4. ASSUME NEW e \in Seq(STRING),
             NEW ty \in {"VFS_DIR", "VFS_SYM", "VFS_FILE"},
             NodeOf(h) = Node(Last(h.name), ty, cur, offset, e)
      PROVE  /\ NodeOf(h) \in TarNode /\ NodeOf(h).name = Last(h.name)
             /\ NodeOf(h).parent = cur /\ NodeOf(h).offset = offset
             /\ NodeOf(h).type = ty
  <2>1. NodeOf(h) = [name |-> Last(h.name), type |-> ty, parent |-> cur,
                     offset |-> offset, symlink |-> e, children |-> <<>>]
    BY <1>4 DEF Node
  <2>2. NodeOf(h) \in TarNode
    BY <1>1, <1>2, <1>3, <2>1
  <2> QED BY <2>1, <2>2
<1>5. CASE h.type = TAR_DIR
  <2>1. NodeOf(h) = Node(Last(h.name), "VFS_DIR", cur, offset, <<>>)
    BY <1>5 DEF NodeOf, TAR_SYMLINK, TAR_DIR
  <2> QED BY <1>2, <1>4, <2>1
<1>6. CASE h.type = TAR_SYMLINK
  <2>1. NodeOf(h) = Node(Last(h.name), "VFS_SYM", cur, offset, h.link)
    BY <1>6 DEF NodeOf, TAR_SYMLINK, TAR_DIR
  <2>2. ~Enters(h)
    BY <1>6 DEF Enters, TAR_SYMLINK, TAR_DIR
  <2> QED BY <1>1, <1>4, <2>1, <2>2
<1>7. CASE h.type # TAR_DIR /\ h.type # TAR_SYMLINK
  <2>1. NodeOf(h) = Node(Last(h.name), "VFS_FILE", cur, offset, <<>>)
    BY <1>7 DEF NodeOf
  <2>2. ~Enters(h)
    BY <1>7 DEF Enters
  <2> QED BY <1>2, <1>4, <2>1, <2>2
<1> QED BY <1>5, <1>6, <1>7

LEMMA OneMore ==
  ASSUME NEW S, NEW s \in Seq(S), NEW e \in S
  PROVE  /\ Append(s, e) \in Seq(S) /\ ToSet(s) \subseteq ToSet(Append(s, e))
         /\ e \in ToSet(Append(s, e))
<1> DEFINE r == Append(s, e)
<1>1. /\ r \in Seq(S) /\ Len(r) = Len(s) + 1
      /\ \A i \in 1 .. Len(s) + 1 : r[i] = IF i = Len(s) + 1 THEN e ELSE s[i]
  BY Pushed
<1>2. Len(s) \in Nat /\ DOMAIN s = 1 .. Len(s)
  OBVIOUS
<1> HIDE DEF r
<1>3. DOMAIN r = 1 .. Len(s) + 1
  BY <1>1
<1>4. ToSet(s) \subseteq ToSet(r) /\ e \in ToSet(r)
  BY <1>1, <1>2, <1>3 DEF ToSet
<1> QED BY <1>1, <1>4 DEF r

\* The tree with one node more, in the directory c.
Grown(t, c, node) ==
  Append([t EXCEPT ![c].children = Append(@, Len(t) + 1)], node)

LEMMA TreeGrows ==
  ASSUME NEW t \in Seq(TarNode), NEW c \in DOMAIN t, NEW node \in TarNode
  PROVE  LET new == Len(t) + 1
             u == Grown(t, c, node)
         IN  /\ u \in Seq(TarNode) /\ DOMAIN u = 1 .. new /\ u[new] = node
             /\ \A n \in DOMAIN t :
                  /\ n \in DOMAIN u /\ u[n].name = t[n].name
                  /\ u[n].type = t[n].type /\ u[n].parent = t[n].parent
                  /\ u[n].offset = t[n].offset
                  /\ ToSet(t[n].children) \subseteq ToSet(u[n].children)
             /\ new \in ToSet(u[c].children)
<1> DEFINE new == Len(t) + 1
           cs == Append(t[c].children, new)
           r == [t[c] EXCEPT !.children = cs]
           v == [t EXCEPT ![c] = r]
           u == Append(v, node)
<1>1. /\ Len(t) \in Nat /\ DOMAIN t = 1 .. Len(t)
      /\ t[c] \in TarNode /\ new \in Nat
  BY ElementOfSeq
<1>2. t[c].children \in Seq(Nat)
  BY <1>1, NodeTyped
<1>3. /\ cs \in Seq(Nat) /\ ToSet(t[c].children) \subseteq ToSet(cs)
      /\ new \in ToSet(cs)
  <2> HIDE DEF new
  <2> QED BY <1>1, <1>2, OneMore
<1> HIDE DEF cs
<1>4. /\ r \in TarNode /\ r.name = t[c].name /\ r.type = t[c].type
      /\ r.parent = t[c].parent /\ r.offset = t[c].offset /\ r.children = cs
  BY <1>1, <1>3 DEF TarNode
<1> HIDE DEF r
<1>5. /\ v \in Seq(TarNode) /\ Len(v) = Len(t)
      /\ \A n \in DOMAIN t : v[n] = IF n = c THEN r ELSE t[n]
  BY <1>1, <1>4, ExceptSeq
<1> HIDE DEF v
<1>6. /\ u \in Seq(TarNode) /\ Len(u) = Len(t) + 1
      /\ \A n \in 1 .. Len(t) + 1 :
           u[n] = IF n = Len(t) + 1 THEN node ELSE v[n]
  BY <1>5, Pushed
<1> HIDE DEF u
<1>7. DOMAIN u = 1 .. new /\ u[new] = node
  BY <1>1, <1>6
<1>8. ASSUME NEW n \in DOMAIN t
      PROVE  n \in DOMAIN u /\ u[n] = IF n = c THEN r ELSE t[n]
  BY <1>1, <1>5, <1>6, <1>7
<1>9. new \in ToSet(u[c].children)
  BY <1>3, <1>4, <1>8
<1>10. ASSUME NEW n \in DOMAIN t
       PROVE  /\ u[n].name = t[n].name
              /\ u[n].type = t[n].type /\ u[n].parent = t[n].parent
              /\ u[n].offset = t[n].offset
              /\ ToSet(t[n].children) \subseteq ToSet(u[n].children)
  BY <1>3, <1>4, <1>8
<1>11. u = Append([t EXCEPT ![c].children = Append(@, new)], node)
  BY DEF u, v, r, cs
<1> QED BY <1>6, <1>7, <1>8, <1>9, <1>10, <1>11 DEF Grown

\* The tree is sound with a new node in the directory whose name it has.
LEMMA GrownSound ==
  ASSUME NEW d \in BootModule, NEW t, NodesSound(d, t), NEW c \in DOMAIN t,
         NEW node \in TarNode, t[c].type = "VFS_DIR", node.parent = c,
         HeaderAt(d, node.offset).format # "none", node.name \in STRING,
         HeaderAt(d, node.offset).name = Append(NameIn(d, t, c), node.name)
  PROVE  LET new == Len(t) + 1
             u == Grown(t, c, node)
         IN  /\ NodesSound(d, u)
             /\ new \in DOMAIN u /\ u[new] = node
             /\ NameIn(d, u, new) = HeaderAt(d, node.offset).name
             /\ \A n \in DOMAIN t : /\ n \in DOMAIN u /\ u[n].type = t[n].type
                                    /\ NameIn(d, u, n) = NameIn(d, t, n)
<1> DEFINE new == Len(t) + 1
           u == Grown(t, c, node)
<1>1. t \in Seq(TarNode)
  BY DEF NodesSound
<1>2. /\ u \in Seq(TarNode) /\ DOMAIN u = 1 .. new /\ u[new] = node
      /\ \A n \in DOMAIN t :
           /\ n \in DOMAIN u /\ u[n].name = t[n].name
           /\ u[n].type = t[n].type /\ u[n].parent = t[n].parent
           /\ u[n].offset = t[n].offset
           /\ ToSet(t[n].children) \subseteq ToSet(u[n].children)
      /\ new \in ToSet(u[c].children)
  BY <1>1, TreeGrows
<1> HIDE DEF u
<1>3. /\ DOMAIN t = 1 .. Len(t) /\ Len(t) \in Nat
      /\ \A n \in DOMAIN t : t[n] \in TarNode /\ NodeSound(d, t, n)
  BY NodesTyped
<1>4. c \in 1 .. Len(t) /\ new \in Nat /\ c \in 1 .. new - 1 /\ new # Root
      /\ new \in DOMAIN u
  BY <1>2, <1>3 DEF Root
<1>5. \A n \in DOMAIN t : NameIn(d, u, n) = NameIn(d, t, n)
  BY <1>2 DEF NameIn
<1>6. NameIn(d, u, new) = HeaderAt(d, node.offset).name
  BY <1>2, <1>4 DEF NameIn
<1>7. NodeSound(d, u, new)
  BY <1>2, <1>4, <1>5, <1>6 DEF NodeSound
<1>8. ASSUME NEW n \in DOMAIN t PROVE NodeSound(d, u, n)
  <2>1. CASE n = Root
    BY <1>2, <1>3, <2>1 DEF NodeSound
  <2>2. CASE n # Root
    <3>1. /\ t[n].parent \in 1 .. n - 1
          /\ HeaderAt(d, t[n].offset).format # "none"
          /\ t[n].name \in STRING
          /\ NameIn(d, t, n) = Append(NameIn(d, t, t[n].parent), t[n].name)
          /\ t[t[n].parent].type = "VFS_DIR"
          /\ n \in ToSet(t[t[n].parent].children)
      BY <1>3, <2>2 DEF NodeSound
    <3>2. t[n].parent \in DOMAIN t
      BY <1>3, <3>1
    <3> QED BY <1>2, <1>5, <2>2, <3>1, <3>2 DEF NodeSound
  <2> QED BY <2>1, <2>2
<1>9. \A n \in DOMAIN u : n \in DOMAIN t \/ n = new
  BY <1>2, <1>3
<1>10. NodesSound(d, u)
  BY <1>2, <1>7, <1>8, <1>9 DEF NodesSound
<1> QED BY <1>2, <1>4, <1>5, <1>6, <1>10 DEF u

LEMMA AddKeeps == ASSUME TarInv, Add PROVE TarInv'
<1> DEFINE new == Len(tree) + 1
           next == NextOffset(hdr)
           node == NodeOf(hdr)
           u == Grown(tree, cur, node)
<1>1. /\ stage = "parse" /\ hdr.format # "none" /\ hdr.name # <<>>
      /\ ident = Front(hdr.name)
      /\ tree' = u
      /\ IF Enters(hdr) THEN cur' = new /\ ident' = hdr.name
         ELSE cur' = cur /\ ident' = ident
      /\ offset' = next
      /\ IF OnDisk(BLOCK, next)
         THEN hdr' = HeaderAt(Disk, next) /\ stage' = stage
         ELSE stage' = "mounted" /\ hdr' = hdr
      /\ boot' = boot /\ disk' = disk /\ io' = io
  BY DEF Add, Turn, Climbs, Dirname, Grown
<1>2. /\ DiskSound /\ NodesSound(Disk, tree) /\ StandsIn(Disk, tree, cur, ident)
      /\ hdr \in Header /\ offset \in Nat /\ hdr = HeaderAt(Disk, offset)
      /\ io.node = NULL
  BY <1>1 DEF TarInv
<1>3. Disk' = Disk /\ Disk \in BootModule /\ DiskSound'
  <2>1. stage' \notin {"boot", "panic"}
    BY <1>1
  <2> QED BY <1>1, <1>2, <2>1, DiskTyped DEF DiskSound, Disk
<1>4. /\ cur \in DOMAIN tree /\ tree[cur].type = "VFS_DIR"
      /\ ident = NameIn(Disk, tree, cur) /\ cur \in Nat
  BY <1>2, NodesTyped DEF StandsIn
<1>5. /\ NodeOf(hdr) \in TarNode /\ NodeOf(hdr).name = Last(hdr.name)
      /\ NodeOf(hdr).parent = cur /\ NodeOf(hdr).offset = offset
      /\ Enters(hdr) => NodeOf(hdr).type = "VFS_DIR"
  BY <1>1, <1>2, <1>4, NewNode
<1>6. /\ Last(hdr.name) \in STRING
      /\ Append(Front(hdr.name), Last(hdr.name)) = hdr.name
  BY <1>1, <1>2, HeaderTyped, NameParts
<1>7. /\ HeaderAt(Disk, node.offset) = hdr
      /\ hdr.name = Append(NameIn(Disk, tree, cur), node.name)
  BY <1>1, <1>2, <1>4, <1>5, <1>6
<1>8. /\ NodesSound(Disk, u)
      /\ new \in DOMAIN u /\ u[new] = node
      /\ NameIn(Disk, u, new) = HeaderAt(Disk, node.offset).name
      /\ \A n \in DOMAIN tree : /\ n \in DOMAIN u /\ u[n].type = tree[n].type
                                /\ NameIn(Disk, u, n) = NameIn(Disk, tree, n)
  <2>1. node \in TarNode /\ node.parent = cur /\ node.name \in STRING
    BY <1>5, <1>6
  <2>2. /\ HeaderAt(Disk, node.offset).format # "none"
        /\ HeaderAt(Disk, node.offset).name
             = Append(NameIn(Disk, tree, cur), node.name)
    BY <1>1, <1>7
  <2> HIDE DEF node
  <2> QED BY <1>2, <1>3, <1>4, <2>1, <2>2, GrownSound
<1> HIDE DEF u, new, next
<1>9. NodesSound(Disk, tree)'
  BY <1>1, <1>3, <1>8
<1>10. StandsIn(Disk, tree, cur, ident)'
  <2>1. CASE Enters(hdr)
    <3>1. cur' = new /\ ident' = hdr.name /\ u[new].type = "VFS_DIR"
      BY <1>1, <1>5, <1>8, <2>1
    <3>2. ident' = NameIn(Disk, u, new)
      BY <1>7, <1>8, <3>1
    <3> HIDE DEF node
    <3> QED BY <1>1, <1>3, <1>8, <3>1, <3>2 DEF StandsIn
  <2>2. CASE ~Enters(hdr)
    <3>1. cur' = cur /\ ident' = ident
      BY <1>1, <2>2
    <3> HIDE DEF node
    <3> QED BY <1>1, <1>3, <1>4, <1>8, <3>1 DEF StandsIn
  <2> QED BY <2>1, <2>2
<1>11. offset' \in Nat
  <2>1. Span(hdr) \in Nat
    BY <1>2, SpanFacts
  <2> QED BY <1>1, <1>2, <2>1 DEF NextOffset, next
<1>12. stage' = "parse" => hdr' \in Header /\ hdr' = HeaderAt(Disk, offset)'
  BY <1>1, <1>3, HeaderFound
<1>13. AccessesStayInFile'
  BY <1>1, <1>2 DEF AccessesStayInFile
<1>14. stage' \in {"parse", "mounted"}
  BY <1>1
<1> HIDE DEF node
<1> QED BY <1>1, <1>2, <1>3, <1>9, <1>10, <1>11, <1>12, <1>13, <1>14 DEF TarInv

(***************************************************************************)
(* The bytes of a file are on the disk, with what follows them, and so is  *)
(* what is read of them.                                                   *)
(***************************************************************************)
LEMMA FileOnDisk ==
  ASSUME Disk \in BootModule, NodesSound(Disk, tree), NEW n \in DOMAIN tree,
         n # Root, Disk.zeros > 0
  PROVE  /\ tree[n].offset \in Nat /\ SizeOf(n) \in Nat
         /\ tree[n].offset + BLOCK + SizeOf(n) < DiskSize(Disk)
<1> DEFINE at == tree[n].offset
           h == HeaderAt(Disk, at)
<1>1. at \in Nat /\ h.format # "none"
  BY NodesTyped, NodeTyped DEF NodeSound
<1>2. PICK i \in DOMAIN Disk.entries :
             Start(Disk, i) = at /\ h = Disk.entries[i]
  <2> HIDE DEF at
  <2> QED BY <1>1, HeaderFound
<1>3. h \in Header
  BY HeaderFound
<1>4. SizeOf(n) = Value(h.size)
  BY DEF SizeOf
<1> HIDE DEF at, h
<1>5. /\ DiskSize(Disk) \in Nat
      /\ at + Span(h) + Disk.zeros * BLOCK <= DiskSize(Disk)
  BY <1>2, StartFacts
<1>6. SizeOf(n) \in Nat /\ Span(h) \in Nat /\ Span(h) >= BLOCK + SizeOf(n)
  BY <1>3, <1>4, SpanFacts
<1>7. Disk.zeros * BLOCK >= 1 /\ Disk.zeros * BLOCK \in Nat /\ BLOCK \in Nat
  <2>1. Disk.zeros \in Nat \ {0}
    BY ModuleTyped
  <2> HIDE DEF Disk
  <2>2. ASSUME NEW a \in Nat \ {0}, NEW b \in Nat \ {0}
        PROVE  a * b \in Nat /\ a * b >= 1
    BY <2>2
  <2> QED BY <2>1, <2>2, TarAssumption
<1>8. at + BLOCK + SizeOf(n) < DiskSize(Disk)
  BY <1>1, <1>5, <1>6, <1>7
<1> QED BY <1>1, <1>6, <1>8 DEF at

LEMMA AccessInFile ==
  ASSUME Disk \in BootModule, NodesSound(Disk, tree), NEW n \in DOMAIN tree,
         n # Root, Disk.zeros > 0, NEW len \in Nat, NEW at \in Nat,
         at + len <= SizeOf(n)
  PROVE  /\ OnDisk(len, Global(n, at))
         /\ \A k \in 1 .. len : Global(n, at) + k - 1 \in Owned(n)
<1>1. /\ tree[n].offset \in Nat /\ SizeOf(n) \in Nat /\ BLOCK \in Nat
      /\ tree[n].offset + BLOCK + SizeOf(n) < DiskSize(Disk)
      /\ DiskSize(Disk) \in Nat
  BY FileOnDisk, StartFacts, TarAssumption
<1>2. OnDisk(len, Global(n, at))
  BY <1>1 DEF OnDisk, Global
<1>3. ASSUME NEW k \in 1 .. len PROVE Global(n, at) + k - 1 \in Owned(n)
  BY <1>1 DEF Global, Owned
<1> QED BY <1>2, <1>3

LEMMA AccessKeeps ==
  ASSUME TarInv, stage = "mounted",
         UNCHANGED <<stage, boot, disk, parsing>>,
         NEW n \in DOMAIN tree, tree[n].type = "VFS_FILE",
         NEW len \in Nat, NEW at \in Nat,
         io'.node = n, io'.len = len, io'.at = at,
         OnDisk(len, Global(n, at)) =>
           /\ io'.result \in Seq(Int) /\ Len(io'.result) = len
           /\ \A k \in 1 .. len :
                io'.result[k] \in {Global(n, at) + k - 1, Written}
  PROVE  TarInv'
<1>1. /\ stage' = stage /\ boot' = boot /\ disk' = disk /\ tree' = tree
      /\ cur' = cur /\ ident' = ident /\ offset' = offset /\ hdr' = hdr
  BY DEF parsing
<1>2. DiskSound /\ NodesSound(Disk, tree) /\ StandsIn(Disk, tree, cur, ident)
  BY DEF TarInv
<1>3. Disk' = Disk /\ Disk \in BootModule /\ DiskSound'
  BY <1>1, <1>2, DiskTyped DEF DiskSound, Disk
<1>4. NodesSound(Disk, tree)' /\ StandsIn(Disk, tree, cur, ident)'
  BY <1>1, <1>2, <1>3
<1>5. n # Root
  BY <1>2, NodesTyped DEF NodeSound
<1>6. SizeOf(n)' = SizeOf(n) /\ Owned(n)' = Owned(n)
  BY <1>1, <1>3 DEF SizeOf, Owned
<1>7. AccessesStayInFile'
  <2>1. SUFFICES ASSUME Disk.zeros > 0, at + len <= SizeOf(n)
                 PROVE  /\ Len(io'.result) = len
                        /\ ToSet(io'.result) \subseteq Owned(n) \union {Written}
    BY <1>3, <1>6 DEF AccessesStayInFile
  <2>2. /\ OnDisk(len, Global(n, at))
        /\ \A k \in 1 .. len : Global(n, at) + k - 1 \in Owned(n)
    BY <1>2, <1>3, <1>5, <2>1, AccessInFile
  <2>3. /\ Len(io'.result) = len /\ DOMAIN io'.result = 1 .. len
        /\ \A k \in 1 .. len :
             io'.result[k] \in {Global(n, at) + k - 1, Written}
    BY <2>2
  <2>4. ToSet(io'.result) \subseteq Owned(n) \union {Written}
    BY <2>2, <2>3 DEF ToSet
  <2> QED BY <2>3, <2>4
<1> QED BY <1>1, <1>3, <1>4, <1>7 DEF TarInv

LEMMA GlobalTyped ==
  ASSUME NodesSound(Disk, tree), NEW n \in DOMAIN tree, NEW at \in Nat
  PROVE  Global(n, at) \in Nat
<1>1. tree[n].offset \in Nat
  BY NodesTyped, NodeTyped
<1> QED BY <1>1, TarAssumption DEF Global

LEMMA TarReadKeeps ==
  ASSUME TarInv, NEW n \in DOMAIN tree, NEW len \in Nat, NEW at \in Nat,
         TarRead(n, len, at)
  PROVE  TarInv'
<1> DEFINE s == [k \in 1 .. len |-> Byte(Global(n, at) + k - 1)]
<1>1. /\ stage = "mounted" /\ tree[n].type = "VFS_FILE"
      /\ UNCHANGED <<stage, boot, disk, parsing>>
      /\ io' = [op |-> "read", node |-> n, len |-> len, at |-> at,
                result |-> IF OnDisk(len, Global(n, at)) THEN s ELSE <<Failed>>]
  BY DEF TarRead, MayCall
<1>2. Global(n, at) \in Int
  BY GlobalTyped DEF TarInv
<1>3. s \in Seq(Int) /\ Len(s) = len
      /\ \A k \in 1 .. len : s[k] \in {Global(n, at) + k - 1, Written}
  <2>1. \A b \in Int : Byte(b) \in Int /\ Byte(b) \in {b, Written}
    BY DEF Byte, Written
  <2> DEFINE first == Global(n, at)
  <2>2. first \in Int
    BY <1>2
  <2> HIDE DEF first
  <2>3. \A k \in 1 .. len : first + k - 1 \in Int
    BY <2>2
  <2>4. \A k \in 1 .. len : /\ Byte(first + k - 1) \in Int
                            /\ Byte(first + k - 1) \in {first + k - 1, Written}
    BY <2>1, <2>3
  <2> DEFINE r == [k \in 1 .. len |-> Byte(first + k - 1)]
  <2>5. r \in Seq(Int) /\ Len(r) = len
        /\ \A k \in 1 .. len : r[k] = Byte(first + k - 1)
    <3>1. \A k \in 1 .. len : Byte(first + k - 1) \in Int
      BY <2>4
    <3> QED BY <3>1
  <2>6. r = s
    BY DEF first
  <2> HIDE DEF r, s
  <2> QED BY <2>4, <2>5, <2>6 DEF first
<1> HIDE DEF s
<1>4. /\ io'.node = n /\ io'.len = len /\ io'.at = at
      /\ OnDisk(len, Global(n, at)) => io'.result = s
  BY <1>1
<1> QED BY <1>1, <1>3, <1>4, AccessKeeps

LEMMA TarWriteKeeps ==
  ASSUME TarInv, NEW n \in DOMAIN tree, NEW len \in Nat, NEW at \in Nat,
         TarWrite(n, len, at)
  PROVE  TarInv'
<1> DEFINE first == Global(n, at)
           s == [k \in 1 .. len |-> first + k - 1]
<1>1. /\ stage = "mounted" /\ tree[n].type = "VFS_FILE"
      /\ UNCHANGED <<stage, boot, disk, parsing>>
      /\ io' = [op |-> "write", node |-> n, len |-> len, at |-> at,
                result |-> IF OnDisk(len, first) THEN s ELSE <<Failed>>]
  BY DEF TarWrite, MayCall
<1>2. first \in Int
  BY GlobalTyped DEF TarInv
<1>3. s \in Seq(Int) /\ Len(s) = len
      /\ \A k \in 1 .. len : s[k] = first + k - 1
  <2> HIDE DEF first
  <2>1. \A k \in 1 .. len : first + k - 1 \in Int
    BY <1>2
  <2> QED BY <2>1
<1> HIDE DEF s
<1>4. /\ io'.node = n /\ io'.len = len /\ io'.at = at
      /\ OnDisk(len, first) => io'.result = s
  <2> HIDE DEF first
  <2> QED BY <1>1
<1> QED BY <1>1, <1>3, <1>4, AccessKeeps

LEMMA TarStep == TarInv /\ [Next]_vars => TarInv'
<1> SUFFICES ASSUME TarInv, [Next]_vars PROVE TarInv'
  OBVIOUS
<1>1. CASE CreateInitrd
  BY <1>1, CreateInitrdKeeps
<1>2. CASE NoInitrd
  BY <1>2, EndsKeep DEF NoInitrd
<1>3. CASE OpenArchive
  BY <1>3, OpenArchiveKeeps
<1>4. CASE Climb
  BY <1>4, ClimbKeeps
<1>5. CASE ClimbPastRoot
  BY <1>5, EndsKeep DEF ClimbPastRoot, Turn
<1>6. CASE NoName
  BY <1>6, EndsKeep DEF NoName
<1>7. CASE Add
  BY <1>7, AddKeeps
<1>8. CASE Overrun
  BY <1>8, EndsKeep DEF Overrun, Turn
<1>9. CASE ArchiveEnds
  BY <1>9, EndsKeep DEF ArchiveEnds
<1>10. CASE \E n \in DOMAIN tree, r \in Ranges :
              TarRead(n, r[1], r[2]) \/ TarWrite(n, r[1], r[2])
  <2>1. PICK n \in DOMAIN tree, r \in Ranges :
               TarRead(n, r[1], r[2]) \/ TarWrite(n, r[1], r[2])
    BY <1>10
  <2>2. r[1] \in Nat /\ r[2] \in Nat
    BY TarAssumption
  <2> QED BY <2>1, <2>2, TarReadKeeps, TarWriteKeeps
<1>11. CASE UNCHANGED vars
  <2>1. /\ boot' = boot /\ disk' = disk /\ tree' = tree /\ cur' = cur
        /\ ident' = ident /\ offset' = offset /\ hdr' = hdr /\ io' = io
        /\ stage' = stage
    BY <1>11 DEF vars, parsing
  <2>2. Disk' = Disk
    BY <2>1 DEF Disk
  <2>3. AccessesStayInFile' = AccessesStayInFile
    BY <2>1, <2>2 DEF AccessesStayInFile, SizeOf, Owned
  <2> QED BY <2>1, <2>2, <2>3 DEF TarInv, DiskSound, Untouched
<1> QED BY <1>1, <1>2, <1>3, <1>4, <1>5, <1>6, <1>7, <1>8, <1>9, <1>10, <1>11
        DEF Next

(***************************************************************************)
(* The tree is made of the archive's headers as they lie on the disk, in   *)
(* every state of the parse and of the reads and writes after it           *)
(* (create_vfs_tar, tar_read, tar_write).                                  *)
(***************************************************************************)
THEOREM TarInductive == Spec => []TarInv
<1> QED BY TarInit, TarStep, PTL DEF Spec

(***************************************************************************)
(* No access within the size of a file leaves its bytes, whatever archive  *)
(* is on the disk, if it has an end (tar_read, tar_write, rdisk_read).     *)
(***************************************************************************)
THEOREM AccessesStay == Spec => []AccessesStayInFile
<1>1. TarInv => AccessesStayInFile
  BY DEF TarInv
<1> QED BY <1>1, TarInductive, PTL

-----------------------------------------------------------------------------
(***************************************************************************)
(* The names on the way from the root to a node: a node was made after its *)
(* parent, so that the way ends.                                           *)
(***************************************************************************)
LEMMA PathIsName ==
  ASSUME NodesSound(Disk, tree), NEW n \in DOMAIN tree
  PROVE  PathOf[n] = NameIn(Disk, tree, n)
<1> DEFINE Ns == DOMAIN tree \union {NULL}
           Is(f) == f = [m \in Ns |-> IF m \in {NULL, Root} THEN <<>>
                                      ELSE Append(f[tree[m].parent],
                                                  tree[m].name)]
           g == [m \in Ns |-> IF m = NULL THEN <<>>
                              ELSE NameIn(Disk, tree, m)]
           f == CHOOSE h : Is(h)
<1>1. /\ DOMAIN tree = 1 .. Len(tree) /\ Len(tree) \in Nat
      /\ \A m \in DOMAIN tree : tree[m] \in TarNode /\ NodeSound(Disk, tree, m)
  BY NodesTyped
<1>2. \A m \in Ns : m \in Nat
  BY <1>1 DEF NULL
<1>3. ASSUME NEW m \in Ns, m \notin {NULL, Root}
      PROVE  /\ m \in DOMAIN tree /\ tree[m].parent \in DOMAIN tree
             /\ tree[m].parent \in Nat /\ m \in Nat /\ tree[m].parent < m
             /\ NameIn(Disk, tree, m)
                  = Append(NameIn(Disk, tree, tree[m].parent), tree[m].name)
  <2>1. m \in DOMAIN tree
    BY <1>3
  <2>2. /\ tree[m].parent \in 1 .. m - 1
        /\ NameIn(Disk, tree, m)
             = Append(NameIn(Disk, tree, tree[m].parent), tree[m].name)
    BY <1>1, <1>3, <2>1 DEF NodeSound
  <2> QED BY <1>1, <2>1, <2>2
<1>4. ASSUME NEW m \in Ns
      PROVE  g[m] = IF m \in {NULL, Root} THEN <<>>
                    ELSE Append(g[tree[m].parent], tree[m].name)
  <2>1. CASE m \in {NULL, Root}
    BY <2>1 DEF NameIn
  <2>2. CASE m \notin {NULL, Root}
    <3>1. /\ tree[m].parent \in DOMAIN tree /\ tree[m].parent # NULL
          /\ NameIn(Disk, tree, m)
               = Append(NameIn(Disk, tree, tree[m].parent), tree[m].name)
      BY <1>1, <1>3, <2>2 DEF NULL
    <3>2. g[m] = NameIn(Disk, tree, m)
      BY <2>2
    <3>3. g[tree[m].parent] = NameIn(Disk, tree, tree[m].parent)
      BY <3>1
    <3> HIDE DEF g
    <3> QED BY <2>2, <3>1, <3>2, <3>3
  <2> QED BY <2>1, <2>2
<1>5. Is(g)
  BY <1>4, Zenon
<1>6. Is(f)
  BY <1>5
<1>7. PathOf[n] = f[n]
  BY Zenon DEF PathOf
<1>8. \A m \in Ns : f[m] = IF m \in {NULL, Root} THEN <<>>
                           ELSE Append(f[tree[m].parent], tree[m].name)
  <2> HIDE DEF f
  <2> QED BY <1>6, Zenon
<1>9. n \in Ns /\ g[n] = NameIn(Disk, tree, n)
  BY <1>1 DEF NULL
<1> HIDE DEF f, g
<1> DEFINE T == {m \in Ns : f[m] # g[m]}
<1>10. T = {}
  <2> SUFFICES ASSUME T # {} PROVE FALSE
    OBVIOUS
  <2>1. T \subseteq Nat
    BY <1>2
  <2>2. PICK k \in T : \A m \in T : k <= m
    BY <2>1, LeastNat
  <2>3. k \in Ns /\ f[k] # g[k]
    BY <2>2
  <2>4. CASE k \in {NULL, Root}
    BY <1>4, <1>8, <2>3, <2>4
  <2>5. CASE k \notin {NULL, Root}
    <3> DEFINE p == tree[k].parent
    <3>1. p \in Ns /\ p < k /\ p \in Nat /\ k \in Nat
      BY <1>3, <2>3, <2>5
    <3> HIDE DEF p
    <3>2. ~ (k <= p)
      BY <3>1
    <3>3. f[p] = g[p]
      BY <2>2, <3>1, <3>2
    <3> QED BY <1>4, <1>8, <2>3, <2>5, <3>3 DEF p
  <2> QED BY <2>4, <2>5
<1> QED BY <1>7, <1>9, <1>10

(***************************************************************************)
(* Every node is an entry of the archive under the path it has in the      *)
(* tree, whatever archive is on the disk, whole or cut off, in whatever    *)
(* order its entries come (create_vfs.c:59-103).                           *)
(***************************************************************************)
THEOREM TreeIsArchive == Spec => []NodesAreEntries
<1>1. TarInv => NodesAreEntries
  <2> SUFFICES ASSUME TarInv PROVE NodesAreEntries
    OBVIOUS
  <2>1. NodesSound(Disk, tree)
    BY DEF TarInv
  <2>2. ASSUME stage \in {"parse", "mounted"} PROVE ident = PathOf[cur]
    BY <2>1, <2>2, PathIsName DEF TarInv, StandsIn
  <2>3. ASSUME NEW n \in DOMAIN tree \ {Root}
        PROVE  /\ PathOf[n] = HeaderAt(Disk, tree[n].offset).name
               /\ tree[tree[n].parent].type = "VFS_DIR"
               /\ n \in ToSet(tree[tree[n].parent].children)
    <3>1. NodeSound(Disk, tree, n)
      BY <2>1, NodesTyped
    <3>2. PathOf[n] = HeaderAt(Disk, tree[n].offset).name
      BY <2>1, PathIsName DEF NameIn
    <3> QED BY <3>1, <3>2 DEF NodeSound
  <2> QED BY <2>2, <2>3 DEF NodesAreEntries
<1> QED BY <1>1, TarInductive, PTL
=============================================================================
