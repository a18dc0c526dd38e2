----------------------------- MODULE FilesProofs -----------------------------
(***************************************************************************)
(* Theorems about WalkPath and Files, for every set of trees, paths and    *)
(* limits that their assumptions admit: a walk stays in the tree and finds *)
(* what a path names, the tables of descriptors are filled in step, a      *)
(* descriptor keeps its file, only what mkdir made is cut off from the     *)
(* root, and every panic has one of the reasons that the program can       *)
(* avoid.                                                                  *)
(***************************************************************************)
EXTENDS Files, Inductions

-----------------------------------------------------------------------------
\* A stack with another top.
LEMMA TopSet ==
  ASSUME NEW S, NEW s \in Seq(S), s # <<>>, NEW w \in S
  PROVE  /\ Append(Front(s), w) \in Seq(S)
         /\ Len(Append(Front(s), w)) = Len(s)
         /\ \A i \in 1 .. Len(s) :
              Append(Front(s), w)[i] = IF i = Len(s) THEN w ELSE s[i]
<1>1. Len(s) \in Nat /\ Len(s) >= 1
  BY EmptySeq, LenProperties
<1>3. /\ Front(s) \in Seq(S) /\ Len(Front(s)) = Len(s) - 1
      /\ \A i \in 1 .. Len(s) - 1 : Front(s)[i] = s[i]
  <2>1. Len(s) - 1 \in Nat /\ Len(s) - 1 <= Len(s)
    BY <1>1
  <2> QED BY <2>1, StartOf DEF Front
<1> DEFINE q == Front(s)
<1> HIDE DEF q
<1>4. /\ q \in Seq(S) /\ Len(q) + 1 = Len(s)
      /\ \A i \in 1 .. Len(s) : i # Len(s) => q[i] = s[i]
  BY <1>1, <1>3 DEF q
<1>5. /\ Append(q, w) \in Seq(S) /\ Len(Append(q, w)) = Len(s)
      /\ \A i \in 1 .. Len(s) :
           Append(q, w)[i] = IF i = Len(s) THEN w ELSE s[i]
  <2>1. /\ Append(q, w) \in Seq(S) /\ Len(Append(q, w)) = Len(q) + 1
        /\ \A i \in 1 .. Len(q) + 1 :
             Append(q, w)[i] = IF i = Len(q) + 1 THEN w ELSE q[i]
    BY <1>4, Pushed
  <2> QED BY <1>4, <2>1
<1> QED BY <1>5 DEF q

\* A stack without its top and with another one below.
LEMMA CallerSet ==
  ASSUME NEW S, NEW s \in Seq(S), Len(s) > 1, NEW w \in S
  PROVE  LET r == Append(SubSeq(s, 1, Len(s) - 2), w)
         IN  /\ r \in Seq(S) /\ Len(r) = Len(s) - 1
             /\ \A i \in 1 .. Len(s) - 1 :
                  r[i] = IF i = Len(s) - 1 THEN w ELSE s[i]
<1>1. Len(s) \in Nat
  OBVIOUS
<1> DEFINE q == SubSeq(s, 1, Len(s) - 2)
<1>3. /\ q \in Seq(S) /\ Len(q) = Len(s) - 2
      /\ \A i \in 1 .. Len(s) - 2 : q[i] = s[i]
  <2>1. Len(s) - 2 \in Nat /\ Len(s) - 2 <= Len(s)
    BY <1>1
  <2> QED BY <2>1, StartOf
<1> HIDE DEF q
<1>4. Len(q) + 1 = Len(s) - 1
  BY <1>1, <1>3
<1>5. \A i \in 1 .. Len(s) - 1 : i # Len(s) - 1 => q[i] = s[i]
  BY <1>1, <1>3
<1>6. /\ Append(q, w) \in Seq(S) /\ Len(Append(q, w)) = Len(q) + 1
      /\ \A i \in 1 .. Len(q) + 1 :
           Append(q, w)[i] = IF i = Len(q) + 1 THEN w ELSE q[i]
  BY <1>3, Pushed
<1>7. /\ Append(q, w) \in Seq(S) /\ Len(Append(q, w)) = Len(s) - 1
      /\ \A i \in 1 .. Len(s) - 1 :
           Append(q, w)[i] = IF i = Len(s) - 1 THEN w ELSE s[i]
  BY <1>4, <1>5, <1>6
<1> QED BY <1>7 DEF q

-----------------------------------------------------------------------------
\* The parts of a path.
LEMMA PartOfPath ==
  ASSUME NEW p \in Strings, NEW m \in Nat \ {0}, NEW n \in Nat, n <= Len(p)
  PROVE  SubSeq(p, m, n) \in Strings
<1>1. \A i \in m .. n : p[i] \in Chars \union {Slash}
  BY DEF Strings
<1> HIDE DEF Slash
<1> QED BY <1>1, SubSeqProperties DEF Strings

LEMMA ElemLenType == \A p \in Strings : ElemLen(p) \in 0 .. Len(p)
<1> SUFFICES ASSUME NEW p \in Strings PROVE ElemLen(p) \in 0 .. Len(p)
  OBVIOUS
<1> DEFINE T == {i \in 1 .. Len(p) : p[i] = Slash}
<1>1. Len(p) \in Nat
  BY DEF Strings
<1>2. T # {} => Min(T) \in 1 .. Len(p)
  BY <1>1, MinOfPlaces
<1>3. ElemLen(p) = LET i == IF T # {} THEN Min(T) ELSE 0
                   IN  IF i = 0 THEN Len(p) ELSE i - 1
  BY DEF ElemLen, SelectInSeq
<1> HIDE DEF T
<1> QED BY <1>1, <1>2, <1>3

LEMMA AfterType == \A p \in Strings : After(p) \in Strings
<1> SUFFICES ASSUME NEW p \in Strings PROVE After(p) \in Strings
  OBVIOUS
<1>1. ElemLen(p) + 2 \in Nat \ {0} /\ Len(p) \in Nat
  BY ElemLenType DEF Strings
<1> QED BY <1>1, PartOfPath DEF After

LEMMA NoSlashesType == \A p \in Strings : NoSlashes(p) \in Strings
<1> SUFFICES ASSUME NEW p \in Strings PROVE NoSlashes(p) \in Strings
  OBVIOUS
<1> DEFINE T == {i \in 1 .. Len(p) : p[i] # Slash}
           i == IF T # {} THEN Min(T) ELSE 0
<1>1. Len(p) \in Nat
  BY DEF Strings
<1>2. T # {} => Min(T) \in 1 .. Len(p)
  BY <1>1, MinOfPlaces
<1>3. NoSlashes(p) = IF i = 0 THEN <<>> ELSE SubSeq(p, i, Len(p))
  BY DEF NoSlashes, SelectInSeq
<1>4. i = 0 \/ i \in 1 .. Len(p)
  BY <1>2
<1> HIDE DEF i
<1>5. CASE i = 0
  BY <1>3, <1>5 DEF Strings
<1>6. CASE i # 0
  BY <1>1, <1>3, <1>4, <1>6, PartOfPath
<1> QED BY <1>5, <1>6

-----------------------------------------------------------------------------
(***************************************************************************)
(* A walk on the stack, and what walk_path needs of the tree: its children *)
(* and the directory of a link are nodes.                                  *)
(***************************************************************************)
Walk == [node : Nat, more : BOOLEAN, elem : Strings, len : Nat,
         at : {"loop", "link", "rest"}]

TreeSound ==
  /\ Root \in DOMAIN tree /\ DOMAIN tree \subseteq Nat \ {NULL}
  /\ \A n \in DOMAIN tree :
       /\ tree[n].children \in Seq(DOMAIN tree)
       /\ tree[n].symlink \in Strings
       /\ tree[n].type = "VFS_SYM" => tree[n].parent \in DOMAIN tree

(***************************************************************************)
(* The walks but the last one stand on links and wait; all are in the      *)
(* tree, as is what the last call found.                                   *)
(***************************************************************************)
StackFor(ws) ==
  /\ ws \in Seq(Walk) /\ Len(ws) <= MaxDepth
  /\ \A i \in 1 .. Len(ws) :
       /\ ws[i].node \in DOMAIN tree
       /\ IF i = Len(ws) THEN ws[i].at \in {"loop", "rest"}
          ELSE /\ ws[i].at \in {"link", "rest"} /\ ws[i].more
               /\ tree[ws[i].node].type = "VFS_SYM"

StackSound ==
  StackFor(walks) /\ result \in DOMAIN tree \union {NULL, Wild}

LEMMA EnterType ==
  ASSUME NEW dir \in Nat, NEW p \in Strings
  PROVE  /\ Enter(dir, p) \in Walk
         /\ Enter(dir, p).node \in {Root, dir} /\ Enter(dir, p).at = "loop"
<1>1. NoSlashes(p) \in Strings /\ ElemLen(NoSlashes(p)) \in Nat
  <2>1. NoSlashes(p) \in Strings
    BY NoSlashesType
  <2>2. Len(NoSlashes(p)) \in Nat
    BY <2>1 DEF Strings
  <2> QED BY <2>1, <2>2, ElemLenType
<1> DEFINE n == IF p # <<>> /\ p[1] = Slash THEN Root ELSE dir
<1>2. n \in Nat /\ n \in {Root, dir}
  BY DEF Root
<1>3. Enter(dir, p) =
        [node |-> n, more |-> p # <<>>, elem |-> NoSlashes(p),
         len |-> ElemLen(NoSlashes(p)), at |-> "loop"]
  BY DEF Enter
<1>4. (p # <<>>) \in BOOLEAN
  OBVIOUS
<1> HIDE DEF n
<1> QED BY <1>1, <1>2, <1>3, <1>4 DEF Walk

LEMMA ChildType ==
  ASSUME TreeSound, NEW n \in DOMAIN tree, NEW p, NEW len
  PROVE  Child(n, p, len) \in DOMAIN tree \union {NULL}
<1> DEFINE cs == tree[n].children
           T == {i \in 1 .. Len(cs) : SameStart(tree[cs[i]].name, p, len)}
           i == IF T # {} THEN Min(T) ELSE 0
<1>1. cs \in Seq(DOMAIN tree)
  BY DEF TreeSound
<1>2. Len(cs) \in Nat
  BY <1>1
<1>3. T # {} => Min(T) \in 1 .. Len(cs)
  BY <1>2, MinOfPlaces
<1>4. Child(n, p, len) = IF i = 0 THEN NULL ELSE cs[i]
  BY DEF Child, SelectInSeq
<1>5. i # 0 => i \in 1 .. Len(cs)
  BY <1>3
<1> HIDE DEF i, cs
<1>6. i # 0 => cs[i] \in DOMAIN tree
  BY <1>1, <1>5, ElementOfSeq
<1> QED BY <1>4, <1>6

-----------------------------------------------------------------------------
\* What the steps of a walk do to the stack.
LEMMA StackEmpty == StackFor(<<>>)
BY WalkAssumption DEF StackFor

LEMMA StackTop ==
  ASSUME StackFor(walks), walks # <<>>
  PROVE  /\ Len(walks) \in 1 .. MaxDepth /\ Len(walks) \in Nat
         /\ Top \in Walk /\ Top.node \in DOMAIN tree
         /\ Top.at \in {"loop", "rest"}
<1>1. walks \in Seq(Walk) /\ Len(walks) <= MaxDepth
  BY DEF StackFor
<1>2. Len(walks) \in Nat /\ Len(walks) >= 1
  BY <1>1, EmptySeq
<1>3. Len(walks) \in 1 .. Len(walks)
  BY <1>2
<1>4. walks[Len(walks)] \in Walk
  BY <1>1, <1>3, ElementOfSeq
<1> QED BY <1>1, <1>2, <1>3, <1>4, WalkAssumption DEF StackFor, Top

LEMMA StackSetTop ==
  ASSUME StackFor(walks), walks # <<>>,
         NEW w \in Walk, w.node \in DOMAIN tree, w.at \in {"loop", "rest"}
  PROVE  StackFor(SetTop(w))
<1> DEFINE ws == SetTop(w)
<1>1. /\ ws \in Seq(Walk) /\ Len(ws) = Len(walks)
      /\ \A i \in 1 .. Len(walks) :
           ws[i] = IF i = Len(walks) THEN w ELSE walks[i]
  BY TopSet DEF StackFor, SetTop
<1> HIDE DEF ws
<1>2. StackFor(ws)
  BY <1>1 DEF StackFor
<1> QED BY <1>2 DEF ws

LEMMA StackPush ==
  ASSUME StackFor(walks), walks # <<>>, Len(walks) < MaxDepth,
         NEW v \in Walk, v.node \in DOMAIN tree, v.at = "link", v.more,
         tree[v.node].type = "VFS_SYM",
         NEW w \in Walk, w.node \in DOMAIN tree, w.at \in {"loop", "rest"}
  PROVE  StackFor(Append(SetTop(v), w))
<1> DEFINE vs == SetTop(v)
           ws == Append(vs, w)
<1>1. /\ vs \in Seq(Walk) /\ Len(vs) = Len(walks)
      /\ \A i \in 1 .. Len(walks) :
           vs[i] = IF i = Len(walks) THEN v ELSE walks[i]
  BY TopSet DEF StackFor, SetTop
<1> HIDE DEF vs
<1>2. /\ ws \in Seq(Walk) /\ Len(ws) = Len(vs) + 1
      /\ \A i \in 1 .. Len(vs) + 1 :
           ws[i] = IF i = Len(vs) + 1 THEN w ELSE vs[i]
  BY <1>1, Pushed
<1> HIDE DEF ws
<1>3. Len(walks) \in Nat
  BY StackTop
<1>4. Len(ws) <= MaxDepth
  BY <1>1, <1>2, <1>3, WalkAssumption
<1>5. ASSUME NEW i \in 1 .. Len(ws)
      PROVE  /\ ws[i].node \in DOMAIN tree
             /\ IF i = Len(ws) THEN ws[i].at \in {"loop", "rest"}
                ELSE /\ ws[i].at \in {"link", "rest"} /\ ws[i].more
                     /\ tree[ws[i].node].type = "VFS_SYM"
  <2>1. CASE i = Len(walks) + 1
    BY <1>1, <1>2, <1>3, <2>1
  <2>2. CASE i = Len(walks)
    <3>1. ws[i] = v /\ i # Len(ws)
      BY <1>1, <1>2, <1>3, <2>2
    <3> QED BY <3>1
  <2>3. CASE i < Len(walks)
    <3>1. ws[i] = walks[i] /\ i # Len(ws) /\ i \in 1 .. Len(walks)
      BY <1>1, <1>2, <1>3, <2>3
    <3> QED BY <3>1, <2>3, <1>3 DEF StackFor
  <2> QED BY <1>1, <1>2, <1>3, <2>1, <2>2, <2>3
<1>6. StackFor(ws)
  BY <1>2, <1>4, <1>5 DEF StackFor
<1> QED BY <1>6 DEF ws, vs

LEMMA StackCaller ==
  ASSUME StackFor(walks), Len(walks) > 1
  PROVE  /\ Caller \in Walk /\ Caller.node \in DOMAIN tree /\ Caller.more
         /\ Caller.at \in {"link", "rest"}
         /\ tree[Caller.node].type = "VFS_SYM" /\ Len(walks) \in Nat
<1>1. walks \in Seq(Walk) /\ Len(walks) \in Nat
  BY DEF StackFor
<1>2. Len(walks) - 1 \in 1 .. Len(walks) /\ Len(walks) - 1 # Len(walks)
  BY <1>1
<1>3. walks[Len(walks) - 1] \in Walk
  BY <1>1, <1>2, ElementOfSeq
<1> QED BY <1>1, <1>2, <1>3 DEF StackFor, Caller

LEMMA StackSetCaller ==
  ASSUME StackFor(walks), Len(walks) > 1,
         NEW w \in Walk, w.node \in DOMAIN tree, w.at \in {"loop", "rest"}
  PROVE  StackFor(SetCaller(w))
<1> DEFINE ws == SetCaller(w)
<1>1. /\ ws \in Seq(Walk) /\ Len(ws) = Len(walks) - 1
      /\ \A i \in 1 .. Len(walks) - 1 :
           ws[i] = IF i = Len(walks) - 1 THEN w ELSE walks[i]
  BY CallerSet DEF StackFor, SetCaller
<1> HIDE DEF ws
<1>2. Len(walks) \in Nat /\ Len(walks) <= MaxDepth
  BY StackCaller DEF StackFor
<1>3. StackFor(ws)
  BY <1>1, <1>2, WalkAssumption DEF StackFor
<1> QED BY <1>3 DEF ws

LEMMA StackReplace ==
  ASSUME StackFor(walks), Len(walks) > 1,
         NEW v \in Walk, v.node \in DOMAIN tree, v.at = "rest", v.more,
         tree[v.node].type = "VFS_SYM",
         NEW w \in Walk, w.node \in DOMAIN tree, w.at \in {"loop", "rest"}
  PROVE  StackFor(Append(SetCaller(v), w))
<1> DEFINE vs == SetCaller(v)
           ws == Append(vs, w)
<1>1. /\ vs \in Seq(Walk) /\ Len(vs) = Len(walks) - 1
      /\ \A i \in 1 .. Len(walks) - 1 :
           vs[i] = IF i = Len(walks) - 1 THEN v ELSE walks[i]
  BY CallerSet DEF StackFor, SetCaller
<1> HIDE DEF vs
<1>2. /\ ws \in Seq(Walk) /\ Len(ws) = Len(vs) + 1
      /\ \A i \in 1 .. Len(vs) + 1 :
           ws[i] = IF i = Len(vs) + 1 THEN w ELSE vs[i]
  BY <1>1, Pushed
<1> HIDE DEF ws
<1>3. Len(walks) \in Nat /\ Len(walks) <= MaxDepth
  BY StackCaller DEF StackFor
<1>4. Len(ws) = Len(walks) /\ Len(ws) <= MaxDepth
  BY <1>1, <1>2, <1>3, WalkAssumption
<1>5. ASSUME NEW i \in 1 .. Len(ws)
      PROVE  /\ ws[i].node \in DOMAIN tree
             /\ IF i = Len(ws) THEN ws[i].at \in {"loop", "rest"}
                ELSE /\ ws[i].at \in {"link", "rest"} /\ ws[i].more
                     /\ tree[ws[i].node].type = "VFS_SYM"
  <2>1. CASE i = Len(walks)
    BY <1>1, <1>2, <1>3, <2>1
  <2>2. CASE i = Len(walks) - 1
    <3>1. ws[i] = v /\ i # Len(ws)
      BY <1>1, <1>2, <1>3, <2>2
    <3> QED BY <3>1
  <2>3. CASE i < Len(walks) - 1
    <3>1. ws[i] = walks[i] /\ i # Len(ws) /\ i \in 1 .. Len(walks)
      BY SMTT(30), <1>1, <1>2, <1>3, <2>3
    <3> QED BY <3>1, <2>3, <1>3 DEF StackFor
  <2> QED BY <1>1, <1>2, <1>3, <2>1, <2>2, <2>3
<1>6. StackFor(ws)
  BY <1>2, <1>4, <1>5 DEF StackFor
<1> QED BY <1>6 DEF ws, vs

(***************************************************************************)
(* A step of a walk leaves the tree alone and keeps its stack in it.       *)
(***************************************************************************)
LEMMA TopLooping ==
  ASSUME StackFor(walks), TreeSound, NEW ts, Looping(ts)
  PROVE  /\ walks # <<>> /\ Top \in Walk /\ Top.more
         /\ tree[Top.node].type \in ts /\ Top.node \in DOMAIN tree
         /\ Top.node \in Nat /\ Top.at \in {"loop", "rest"}
BY StackTop DEF Looping, TreeSound

LEMMA DescendKeeps ==
  ASSUME TreeSound, StackSound, Descend
  PROVE  StackFor(walks') /\ result' = result /\ tree' = tree
<1> DEFINE c == Child(Top.node, Top.elem, Top.len)
<1>1. /\ walks # <<>> /\ Top \in Walk /\ Top.node \in DOMAIN tree
      /\ Top.at \in {"loop", "rest"} /\ StackFor(walks)
  BY TopLooping DEF Descend, StackSound
<1>2. c # NULL /\ walks' = SetTop(Descended(c))
  BY DEF Descend
<1>3. c \in DOMAIN tree /\ c \in Nat
  BY <1>1, <1>2, ChildType DEF TreeSound
<1> HIDE DEF c
<1>4. Top.elem \in Strings
  BY <1>1 DEF Walk
<1>5. After(Top.elem) \in Strings /\ ElemLen(Top.elem) \in Nat
      /\ HasNext(Top.elem) \in BOOLEAN
  <2>1. Len(Top.elem) \in Nat
    BY <1>4 DEF Strings
  <2> QED BY <1>4, <2>1, AfterType, ElemLenType DEF HasNext
<1>6. /\ Descended(c) \in Walk
      /\ Descended(c).node = c /\ Descended(c).at = Top.at
  BY <1>1, <1>3, <1>5 DEF Descended, Walk
<1>7. StackFor(SetTop(Descended(c)))
  <2> DEFINE w == Descended(c)
  <2>1. w \in Walk /\ w.node \in DOMAIN tree /\ w.at \in {"loop", "rest"}
    BY <1>1, <1>3, <1>6
  <2> HIDE DEF w
  <2>2. StackFor(SetTop(w))
    BY <1>1, <2>1, StackSetTop
  <2> QED BY <2>2 DEF w
<1> QED BY <1>2, <1>7 DEF Descend

LEMMA FollowLinkKeeps ==
  ASSUME TreeSound, StackSound, FollowLink
  PROVE  StackFor(walks') /\ result' = result /\ tree' = tree
<1> DEFINE n == tree[Top.node]
           v == [Top EXCEPT !.at = "link"]
           w == Enter(n.parent, n.symlink)
<1>1. /\ walks # <<>> /\ Top \in Walk /\ Top.node \in DOMAIN tree
      /\ Top.more /\ n.type = "VFS_SYM" /\ StackFor(walks)
      /\ Len(walks) < MaxDepth
  BY TopLooping DEF FollowLink, StackSound
<1>2. n.parent \in DOMAIN tree /\ n.parent \in Nat /\ n.symlink \in Strings
  BY <1>1 DEF TreeSound
<1>3. w \in Walk /\ w.node \in DOMAIN tree /\ w.at = "loop"
  BY <1>2, EnterType DEF TreeSound
<1>4. v \in Walk /\ v.node = Top.node /\ v.at = "link" /\ v.more = Top.more
  BY <1>1 DEF Walk
<1>5. walks' = Append(SetTop(v), w)
  BY DEF FollowLink
<1>6. tree[v.node].type = "VFS_SYM"
  BY <1>1, <1>4
<1> HIDE DEF v, w, n
<1>7. StackFor(Append(SetTop(v), w))
  BY <1>1, <1>3, <1>4, <1>6, StackPush
<1> QED BY <1>5, <1>7 DEF FollowLink

LEMMA WalkRestKeeps ==
  ASSUME TreeSound, StackSound, WalkRest
  PROVE  StackFor(walks') /\ result' = result /\ tree' = tree
<1>1. /\ walks # <<>> /\ Len(walks) > 1 /\ StackFor(walks)
      /\ Caller.at = "link"
  BY DEF WalkRest, Found, StackSound
<1>2. PICK junk \in Junk :
        walks' = Append(SetCaller([Caller EXCEPT !.at = "rest"]),
                        Enter(Top.node, Caller.elem \o junk))
  BY DEF WalkRest
<1> DEFINE v == [Caller EXCEPT !.at = "rest"]
           p == Caller.elem \o junk
           w == Enter(Top.node, p)
<1>3. /\ Caller \in Walk /\ Caller.node \in DOMAIN tree /\ Caller.more
      /\ tree[Caller.node].type = "VFS_SYM"
  BY <1>1, StackCaller
<1>4. Top.node \in DOMAIN tree /\ Top.node \in Nat
  BY <1>1, StackTop DEF TreeSound
<1>5. p \in Strings
  BY <1>3, WalkAssumption DEF Walk, Strings
<1>6. w \in Walk /\ w.node \in DOMAIN tree /\ w.at = "loop"
  BY <1>4, <1>5, EnterType DEF TreeSound
<1>7. v \in Walk /\ v.node = Caller.node /\ v.at = "rest"
      /\ v.more = Caller.more
  BY <1>3 DEF Walk
<1>8. walks' = Append(SetCaller(v), w)
  BY <1>2
<1>9. tree[v.node].type = "VFS_SYM"
  BY <1>3, <1>7
<1> HIDE DEF v, w, p
<1>10. StackFor(Append(SetCaller(v), w))
  BY <1>1, <1>3, <1>6, <1>7, <1>9, StackReplace
<1> QED BY <1>8, <1>10 DEF WalkRest

LEMMA RestFoundKeeps ==
  ASSUME TreeSound, StackSound, RestFound
  PROVE  StackFor(walks') /\ result' = result /\ tree' = tree
<1> DEFINE w == [Caller EXCEPT !.node = Top.node, !.more = FALSE]
<1>1. /\ walks # <<>> /\ Len(walks) > 1 /\ StackFor(walks)
      /\ Caller.at = "rest" /\ walks' = SetCaller(w)
  BY DEF RestFound, Found, StackSound
<1>2. Caller \in Walk
  BY <1>1, StackCaller
<1>3. Top.node \in DOMAIN tree /\ Top.node \in Nat
  BY <1>1, StackTop DEF TreeSound
<1>4. w \in Walk /\ w.node = Top.node /\ w.at = "rest"
  BY <1>1, <1>2, <1>3 DEF Walk
<1> HIDE DEF w
<1>5. StackFor(SetCaller(w))
  BY <1>1, <1>3, <1>4, StackSetCaller
<1> QED BY <1>1, <1>5 DEF RestFound

LEMMA WalkStepKeeps ==
  ASSUME TreeSound, StackSound, WalkStep
  PROVE  /\ tree' = tree /\ StackFor(walks')
         /\ result' \in DOMAIN tree \union {NULL, Wild}
<1>1. CASE Descend
  BY <1>1, DescendKeeps DEF StackSound
<1>2. CASE NotThere
  BY <1>2, StackEmpty DEF NotThere
<1>3. CASE FollowLink
  BY <1>3, FollowLinkKeeps DEF StackSound
<1>4. CASE LeaveStack
  BY <1>4, StackEmpty DEF LeaveStack
<1>5. CASE ReturnFound
  <2>1. Top.node \in DOMAIN tree
    BY <1>5, StackTop DEF ReturnFound, Found, StackSound
  <2> QED BY <1>5, <2>1, StackEmpty DEF ReturnFound
<1>6. CASE WalkRest
  BY <1>6, WalkRestKeeps DEF StackSound
<1>7. CASE RestFound
  BY <1>7, RestFoundKeeps DEF StackSound
<1> QED BY <1>1, <1>2, <1>3, <1>4, <1>5, <1>6, <1>7 DEF WalkStep

LEMMA WalkPathStarts ==
  ASSUME TreeSound, NEW dir \in DOMAIN tree, NEW p \in Strings,
         WalkPath(dir, p)
  PROVE  tree' = tree /\ StackFor(walks') /\ result' = NULL
<1> DEFINE w == Enter(dir, p)
<1>1. dir \in Nat
  BY DEF TreeSound
<1>2. w \in Walk /\ w.node \in DOMAIN tree /\ w.at = "loop"
  BY <1>1, EnterType DEF TreeSound
<1>3. walks' = <<w>>
  BY DEF WalkPath
<1> HIDE DEF w
<1>4. <<w>> \in Seq(Walk) /\ Len(<<w>>) = 1 /\ <<w>>[1] = w
  BY <1>2
<1>5. StackFor(<<w>>)
  BY <1>2, <1>4, WalkAssumption DEF StackFor
<1> QED BY <1>3, <1>5 DEF WalkPath

LEMMA TreesSound == ASSUME tree \in Trees PROVE TreeSound
<1>1. IsTree(tree)
  BY WalkAssumption
<1>2. ASSUME NEW n \in DOMAIN tree
      PROVE  /\ tree[n].children \in Seq(DOMAIN tree)
             /\ tree[n].symlink \in Strings
             /\ tree[n].type = "VFS_SYM" => tree[n].parent \in DOMAIN tree
  BY <1>1 DEF IsTree
<1> QED BY <1>1, <1>2 DEF IsTree, TreeSound

WalkInv ==
  /\ tree \in Trees
  /\ call.dir \in DOMAIN tree \union {NULL} /\ call.path \in Strings
  /\ StackSound

LEMMA NoCallType == NoCall.dir = NULL /\ NoCall.path \in Strings
BY DEF NoCall, Strings

LEMMA WalkStarts == WalkInit => WalkInv
<1> SUFFICES ASSUME WalkInit PROVE WalkInv
  OBVIOUS
<1>1. tree \in Trees /\ call = NoCall /\ walks = <<>> /\ result = NULL
  BY DEF WalkInit
<1> QED BY <1>1, StackEmpty, NoCallType DEF WalkInv, StackSound

LEMMA WalkKeeps == WalkInv /\ [WalkNext]_vars => WalkInv'
<1> SUFFICES ASSUME WalkInv, [WalkNext]_vars PROVE WalkInv'
  OBVIOUS
<1>0. TreeSound /\ StackSound
  BY TreesSound DEF WalkInv
<1>1. CASE WalkStep
  <2>1. call' = call
    BY <1>1 DEF WalkStep, Descend, NotThere, FollowLink, LeaveStack,
                ReturnFound, WalkRest, RestFound
  <2>2. /\ tree' = tree /\ StackFor(walks')
        /\ result' \in DOMAIN tree \union {NULL, Wild}
    BY <1>0, <1>1, WalkStepKeeps
  <2> QED BY <2>1, <2>2 DEF WalkInv, StackSound, StackFor
<1>2. ASSUME NEW dir \in DOMAIN tree, NEW p \in Paths, WalkPath(dir, p)
      PROVE  WalkInv'
  <2>1. p \in Strings
    BY WalkAssumption
  <2>2. tree' = tree /\ StackFor(walks') /\ result' = NULL
    BY <1>0, <1>2, <2>1, WalkPathStarts
  <2>3. call'.dir = dir /\ call'.path = p
    BY <1>2 DEF WalkPath
  <2> QED BY <2>1, <2>2, <2>3 DEF WalkInv, StackSound, StackFor
<1>3. CASE UNCHANGED vars
  BY <1>3 DEF WalkInv, StackSound, StackFor, vars
<1> QED BY <1>1, <1>2, <1>3 DEF WalkNext

(***************************************************************************)
(* A walk stays in the tree and in the bytes of its path, and the calls    *)
(* that wait stand on links (walk_path.c:20-97): WalkInv is inductive and  *)
(* says no less than WalkTypeOK.                                           *)
(***************************************************************************)
THEOREM WalkTypeCorrect == WalkSpec => []WalkTypeOK
<1>3. WalkInv => WalkTypeOK
  <2> SUFFICES ASSUME WalkInv PROVE WalkTypeOK
    OBVIOUS
  <2>1. ASSUME NEW i \in 1 .. Len(walks)
        PROVE  /\ walks[i].node \in DOMAIN tree
               /\ walks[i].more \in BOOLEAN
               /\ walks[i].elem \in Strings
               /\ walks[i].len \in Nat
               /\ IF i = Len(walks) THEN walks[i].at \in {"loop", "rest"}
                  ELSE walks[i].at \in {"link", "rest"} /\ walks[i].more
                         /\ tree[walks[i].node].type = "VFS_SYM"
    <3>1. walks[i] \in Walk
      BY ElementOfSeq DEF WalkInv, StackSound, StackFor
    <3> QED BY <3>1 DEF WalkInv, StackSound, StackFor, Walk
  <2> QED BY <2>1 DEF WalkInv, StackSound, StackFor, WalkTypeOK
<1> QED BY <1>3, WalkStarts, WalkKeeps, PTL DEF WalkSpec

-----------------------------------------------------------------------------
(***************************************************************************)
(* The inductive invariant of Files.  The nodes: each but the root was     *)
(* made after its parent; what mkdir made has no parent, no operations and *)
(* no children, and it alone.                                              *)
(***************************************************************************)
NodeSound(t, n) ==
  /\ n = Root => t[n].type = "VFS_DIR" /\ t[n].fops # "NULL"
  /\ n # Root => t[n].parent < n
  /\ IF n = Root \/ t[n].fops = "NULL" THEN t[n].parent = NULL
     ELSE t[n].parent # NULL /\ t[t[n].parent].fops # "NULL"
  /\ t[n].fops = "NULL" => t[n].children = <<>> /\ t[n].type = "VFS_DIR"
  /\ \A i \in 1 .. Len(t[n].children) : t[n].children[i] \in DOMAIN t
  /\ Len(t[n].children) <= Room(n)
  /\ t[n].module \in Majors \union {NULL}

NodesSound ==
  /\ tree \in Seq(VfsNode) /\ Root \in DOMAIN tree
  /\ \A n \in DOMAIN tree : NodeSound(tree, n)

\* The call in progress; what its walk found has operations.
CallSound ==
  /\ sys \in [op : Walkers \union {"user", "read", "unmapped"},
              path : Strings, fd : Nat, major : Nat]
  /\ sys.op = "open" => sys.fd = n_fds
  /\ sys.op = "read" => sys.fd \in 0 .. n_fds - 1
  /\ sys.op \notin Walkers => walks = <<>>
  /\ result \in DOMAIN tree => tree[result].fops # "NULL"

\* The tables are filled in step, with nodes that have operations.
TablesSound ==
  /\ n_fds \in 0 .. FD_MAX /\ n_gfids = n_fds + 1 /\ n_gfids <= GFID_MAX
  /\ DOMAIN fdtable = 0 .. FD_MAX - 1 /\ DOMAIN gfids = 0 .. GFID_MAX - 1
  /\ \A fd \in 0 .. FD_MAX - 1 :
       fdtable[fd] = IF fd < n_fds THEN fd + 1 ELSE 0
  /\ \A g \in 0 .. GFID_MAX - 1 :
       IF g \in 1 .. n_fds
       THEN gfids[g] \in DOMAIN tree /\ tree[gfids[g]].fops # "NULL"
       ELSE gfids[g] = NULL

FilesInv ==
  /\ NodesSound /\ StackSound /\ CallSound /\ TablesSound
  /\ chrdev_handlers \subseteq Majors
  /\ mode \in {"run", "panic", "wild"}
  /\ PanicsExplained

LEMMA NodesTyped ==
  ASSUME NodesSound
  PROVE  /\ DOMAIN tree = 1 .. Len(tree) /\ Len(tree) \in Nat
         /\ \A n \in DOMAIN tree : tree[n] \in VfsNode
BY ElementOfSeq, LenProperties DEF NodesSound

LEMMA NodesAreTree == ASSUME NodesSound PROVE TreeSound
<1>1. /\ DOMAIN tree = 1 .. Len(tree) /\ Len(tree) \in Nat
      /\ \A n \in DOMAIN tree : tree[n] \in VfsNode
  BY NodesTyped
<1>2. ASSUME NEW n \in DOMAIN tree
      PROVE  /\ tree[n].children \in Seq(DOMAIN tree)
             /\ tree[n].symlink \in Strings
             /\ tree[n].type = "VFS_SYM" => tree[n].parent \in DOMAIN tree
  <2> DEFINE cs == tree[n].children
  <2>1. tree[n] \in VfsNode /\ NodeSound(tree, n) /\ n \in Nat
    BY <1>1 DEF NodesSound
  <2>2. cs \in Seq(Nat) /\ tree[n].parent \in Nat
    BY <2>1 DEF VfsNode
  <2>3. \A i \in 1 .. Len(cs) : cs[i] \in DOMAIN tree
    BY <2>1 DEF NodeSound
  <2> HIDE DEF cs
  <2>4. cs \in Seq(DOMAIN tree)
    BY <2>2, <2>3, SeqDef, LenProperties
  <2>5. tree[n].type = "VFS_SYM" => tree[n].parent \in 1 .. n - 1
    BY <2>1, <2>2 DEF NodeSound, NULL
  <2>6. tree[n].symlink \in Strings
    BY <2>1 DEF VfsNode
  <2> QED BY <2>4, <2>5, <2>6, <1>1 DEF cs
<1>3. Root \in DOMAIN tree /\ DOMAIN tree \subseteq Nat \ {NULL}
  BY <1>1 DEF NodesSound, NULL
<1> QED BY <1>2, <1>3 DEF TreeSound

(***************************************************************************)
(* get_mount comes to the root from every node but those that mkdir made:  *)
(* the parents of a node were made before it, and none of them by mkdir.   *)
(***************************************************************************)
LEMMA MountIsOperations ==
  ASSUME NodesSound, NEW n \in DOMAIN tree
  PROVE  HasMount(n) <=> tree[n].fops # "NULL"
<1> DEFINE Ns == DOMAIN tree
           Is(f) == f = [m \in Ns |-> m = Root \/ (tree[m].parent # NULL
                                                    /\ f[tree[m].parent])]
           g == [m \in Ns |-> tree[m].fops # "NULL"]
           f == CHOOSE h : Is(h)
<1>1. /\ Ns = 1 .. Len(tree) /\ Len(tree) \in Nat
      /\ \A m \in Ns : tree[m] \in VfsNode
  BY NodesTyped
<1>2. \A m \in Ns : /\ NodeSound(tree, m) /\ m \in Nat
                    /\ tree[m].parent \in Nat
  <2>1. \A m \in Ns : NodeSound(tree, m)
    BY DEF NodesSound
  <2>2. \A m \in Ns : tree[m].parent \in Nat
    BY <1>1 DEF VfsNode
  <2>3. \A m \in Ns : m \in Nat
    BY <1>1
  <2> QED BY <2>1, <2>2, <2>3
<1>3. \A m \in Ns : tree[m].parent # NULL => tree[m].parent \in Ns
  BY <1>1, <1>2 DEF NodeSound, NULL
<1>4. ASSUME NEW m \in Ns
      PROVE  g[m] = (m = Root \/ (tree[m].parent # NULL
                                    /\ g[tree[m].parent]))
  <2>1. CASE m = Root
    BY <1>2, <2>1 DEF NodeSound
  <2>2. CASE m # Root /\ tree[m].fops = "NULL"
    BY <1>2, <2>2 DEF NodeSound
  <2>3. CASE m # Root /\ tree[m].fops # "NULL"
    <3>1. tree[m].parent # NULL /\ tree[tree[m].parent].fops # "NULL"
      BY <1>2, <2>3 DEF NodeSound
    <3> QED BY <1>3, <2>3, <3>1
  <2> QED BY <2>1, <2>2, <2>3
<1>5. Is(g)
  BY <1>4, Zenon
<1>6. Is(f)
  BY <1>5
<1>7. HasMount(n) = f[n]
  BY DEF HasMount
<1>8. \A m \in Ns : f[m] = (m = Root \/ (tree[m].parent # NULL
                                          /\ f[tree[m].parent]))
  <2> HIDE DEF f
  <2> QED BY <1>6, Zenon
<1> HIDE DEF f, g
<1> DEFINE T == {m \in Ns : f[m] # g[m]}
<1>9. T = {}
  <2> SUFFICES ASSUME T # {} PROVE FALSE
    OBVIOUS
  <2>1. T \subseteq Nat
    BY <1>2
  <2>2. PICK k \in T : \A m \in T : k <= m
    BY <2>1, LeastNat
  <2>3. k \in Ns /\ f[k] # g[k]
    BY <2>2
  <2>4. CASE k = Root
    BY <1>4, <1>8, <2>3, <2>4
  <2>5. CASE k # Root
    <3> DEFINE p == tree[k].parent
    <3>1. p < k /\ p \in Nat /\ k \in Nat
      BY <1>2, <2>3, <2>5 DEF NodeSound
    <3>2. p # NULL => f[p] = g[p]
      <4>1. p # NULL => p \in Ns
        BY <1>3, <2>3
      <4>2. ~ (k <= p)
        BY <3>1
      <4>3. p \notin T
        BY <2>2, <4>2
      <4> QED BY <4>1, <4>3
    <3> QED BY <1>4, <1>8, <2>3, <3>2, <2>5
  <2> QED BY <2>4, <2>5
<1>10. f[n] = g[n]
  BY <1>9
<1>11. g[n] = (tree[n].fops # "NULL")
  BY DEF g
<1> QED BY <1>7, <1>10, <1>11

-----------------------------------------------------------------------------
\* The parts of a path at its last slash.
LEMMA BaseAtType ==
  ASSUME NEW p \in Strings
  PROVE  BaseAt(p) \in Nat \ {0} /\ (p # <<>> => BaseAt(p) <= Len(p))
<1> DEFINE q == Front(p)
           T == {i \in 1 .. Len(q) : q[i] = Slash}
           i == IF T # {} THEN Max(T) ELSE 0
<1>1. Len(p) \in Nat /\ (p # <<>> => Len(p) >= 1)
  BY DEF Strings
<1>2. Len(q) \in Nat /\ (p # <<>> => Len(q) <= Len(p))
  <2>1. CASE p = <<>>
    <3>1. \A j \in 1 .. 0 - 1 : p[j] \in Chars \union {Slash}
      OBVIOUS
    <3>2. Len(SubSeq(p, 1, 0 - 1)) = 0
      <4>1. SubSeq(p, 1, 0 - 1) = <<>>
        BY SubSeqEmpty
      <4> QED BY <4>1
    <3>3. Len(p) = 0
      BY <2>1
    <3> QED BY <2>1, <3>2, <3>3 DEF Front
  <2>2. CASE p # <<>>
    <3>1. Len(p) - 1 \in Nat /\ Len(p) - 1 <= Len(p)
      BY <1>1, <2>2
    <3>2. Len(SubSeq(p, 1, Len(p) - 1)) = Len(p) - 1
      BY <3>1, StartOf DEF Strings
    <3> QED BY <3>1, <3>2 DEF Front
  <2> QED BY <2>1, <2>2
<1>3. T # {} => Max(T) \in 1 .. Len(q)
  BY <1>2, MaxOfPlaces
<1>4. BaseAt(p) = IF i = 0 THEN 1 ELSE i
  BY DEF BaseAt, memrchr, SelectLastInSeq
<1>5. i = 0 \/ i \in 1 .. Len(q)
  BY <1>3
<1> HIDE DEF i, q
<1> QED BY <1>1, <1>2, <1>4, <1>5

LEMMA PathParts ==
  ASSUME NEW p \in Strings
  PROVE  /\ Basename(p) \in Strings /\ Dirname(p) \in Strings
         /\ p # <<>> => Tail(Basename(p)) \in Strings
<1>1. Len(p) \in Nat /\ BaseAt(p) \in Nat \ {0}
      /\ (p # <<>> => BaseAt(p) <= Len(p))
  BY BaseAtType DEF Strings
<1>2. Basename(p) \in Strings
  BY <1>1, PartOfPath DEF Basename
<1>3. Dirname(p) \in Strings
  <2>1. CASE p = <<>>
    <3>1. BaseAt(p) - 1 \in Nat
      BY <1>1
    <3>2. Len(Front(p)) = 0 /\ Front(p) = <<>>
      <4>1. Len(p) - 1 < 1 /\ Len(p) - 1 \in Int /\ 1 \in Int
        BY <1>1, <2>1
      <4> QED BY <4>1, SubSeqEmpty DEF Front
    <3>3. {j \in 1 .. Len(Front(p)) : Front(p)[j] = Slash} = {}
      BY <3>2
    <3>4. BaseAt(p) = 1
      BY <3>3 DEF BaseAt, memrchr, SelectLastInSeq
    <3>5. Dirname(p) = <<>>
      BY <3>4, SubSeqEmpty DEF Dirname
    <3> QED BY <3>5 DEF Strings
  <2>2. CASE p # <<>>
    <3>1. BaseAt(p) - 1 \in Nat /\ BaseAt(p) - 1 <= Len(p)
      BY <1>1, <2>2
    <3> QED BY <1>1, <3>1, PartOfPath DEF Dirname
  <2> QED BY <2>1, <2>2
<1>4. ASSUME p # <<>> PROVE Tail(Basename(p)) \in Strings
  <2> DEFINE b == Basename(p)
  <2>1. \A j \in BaseAt(p) .. Len(p) : p[j] \in Chars \union {Slash}
    BY <1>1 DEF Strings
  <2>2. BaseAt(p) <= Len(p)
    BY <1>1, <1>4
  <2>3. Len(SubSeq(p, BaseAt(p), Len(p))) = Len(p) - BaseAt(p) + 1
    <3> HIDE DEF Slash
    <3>1. BaseAt(p) \in Int /\ Len(p) \in Int
      BY <1>1
    <3> QED BY <2>1, <2>2, <3>1, SubSeqProperties
  <2>4. b # <<>>
    <3>1. Len(b) >= 1
      BY <1>1, <2>2, <2>3 DEF Basename
    <3> QED BY <3>1
  <2> HIDE DEF b
  <2>5. Tail(b) \in Strings
    <3>1. b \in Seq(Chars \union {Slash})
      BY <1>2 DEF Strings, b
    <3> QED BY <2>4, <3>1, HeadTailProperties DEF Strings
  <2> QED BY <2>5 DEF b
<1> QED BY <1>2, <1>3, <1>4

-----------------------------------------------------------------------------
(***************************************************************************)
(* A node added to a directory keeps the nodes sound, and what the others  *)
(* have for operations.                                                    *)
(***************************************************************************)
LEMMA AddChildKeeps ==
  ASSUME NodesSound, NEW dir \in DOMAIN tree, tree[dir].fops # "NULL",
         HasRoom(dir), NEW node \in VfsNode, node.children = <<>>,
         node.module = NULL, AddChild(dir, node),
         IF node.fops = "NULL" THEN node.parent = NULL /\ node.type = "VFS_DIR"
         ELSE node.parent = dir
  PROVE  /\ NodesSound' /\ DOMAIN tree \subseteq DOMAIN tree'
         /\ \A n \in DOMAIN tree : tree'[n].fops = tree[n].fops
<1> DEFINE k == Len(tree) + 1
           d == [tree[dir] EXCEPT !.children = Append(@, k)]
           t == [tree EXCEPT ![dir] = d]
<1>1. /\ DOMAIN tree = 1 .. Len(tree) /\ Len(tree) \in Nat
      /\ \A n \in DOMAIN tree : tree[n] \in VfsNode
  BY NodesTyped
<1>2. tree[dir] \in VfsNode /\ NodeSound(tree, dir)
  BY <1>1 DEF NodesSound
<1>3. k \in Nat /\ k \notin DOMAIN tree
  BY <1>1
<1> HIDE DEF k
<1>4. /\ d \in VfsNode /\ d.children = Append(tree[dir].children, k)
      /\ d.type = tree[dir].type /\ d.fops = tree[dir].fops
      /\ d.parent = tree[dir].parent /\ d.module = tree[dir].module
  <2> DEFINE c == Append(tree[dir].children, k)
  <2>1. c \in Seq(Nat)
    <3>1. tree[dir].children \in Seq(Nat)
      BY <1>2 DEF VfsNode
    <3> QED BY <1>3, <3>1
  <2>2. d = [tree[dir] EXCEPT !.children = c]
    OBVIOUS
  <2> HIDE DEF c, d
  <2>3. /\ d \in VfsNode /\ d.children = c
        /\ d.type = tree[dir].type /\ d.fops = tree[dir].fops
        /\ d.parent = tree[dir].parent /\ d.module = tree[dir].module
    BY <1>2, <2>1, <2>2 DEF VfsNode
  <2> QED BY <2>3 DEF c
<1> HIDE DEF d
<1>5. /\ t \in Seq(VfsNode) /\ Len(t) = Len(tree)
      /\ \A n \in 1 .. Len(tree) : t[n] = IF n = dir THEN d ELSE tree[n]
  BY <1>1, <1>4, ExceptSeq DEF NodesSound
<1>6. tree' = Append(t, node)
  BY DEF AddChild, k, d
<1> HIDE DEF t
<1>7. /\ tree' \in Seq(VfsNode) /\ Len(tree') = k /\ DOMAIN tree' = 1 .. k
      /\ \A n \in 1 .. k :
           tree'[n] = IF n = k THEN node ELSE t[n]
  <2>1. Len(t) + 1 = k
    BY <1>5 DEF k
  <2>2. /\ Append(t, node) \in Seq(VfsNode) /\ Len(Append(t, node)) = Len(t) + 1
        /\ \A n \in 1 .. Len(t) + 1 :
             Append(t, node)[n] = IF n = Len(t) + 1 THEN node ELSE t[n]
    BY <1>5, Pushed
  <2>3. DOMAIN tree' = 1 .. Len(tree')
    BY <1>6, <2>2, LenProperties
  <2> QED BY <1>6, <2>1, <2>2, <2>3
<1>8. /\ DOMAIN tree \subseteq DOMAIN tree' /\ k \in DOMAIN tree'
      /\ \A n \in DOMAIN tree' : n = k \/ n \in DOMAIN tree
  BY <1>1, <1>7 DEF k
<1>9. /\ tree'[k] = node
      /\ \A n \in DOMAIN tree : tree'[n] = IF n = dir THEN d ELSE tree[n]
  BY <1>1, <1>3, <1>5, <1>7, <1>8
<1>10. \A n \in DOMAIN tree :
         /\ tree'[n].fops = tree[n].fops /\ tree'[n].type = tree[n].type
         /\ tree'[n].parent = tree[n].parent
         /\ tree'[n].module = tree[n].module
  BY <1>4, <1>9
<1>11. ASSUME NEW n \in DOMAIN tree PROVE NodeSound(tree', n)
  <2>1. NodeSound(tree, n)
    BY DEF NodesSound
  <2>2. tree[n].parent # NULL => tree[n].parent \in DOMAIN tree
    <3>1. tree[n].parent \in Nat /\ n \in Nat
      BY <1>1 DEF VfsNode
    <3>2. n = Root => tree[n].parent = NULL
      BY <2>1 DEF NodeSound
    <3>3. n # Root => tree[n].parent < n
      BY <2>1 DEF NodeSound
    <3> QED BY <1>1, <3>1, <3>2, <3>3 DEF NULL
  <2>3. /\ \A i \in 1 .. Len(tree'[n].children) :
             tree'[n].children[i] \in DOMAIN tree'
        /\ Len(tree'[n].children) <= Room(n)
        /\ tree[n].fops = "NULL" => tree'[n].children = <<>>
    <3>1. CASE n = dir
      <4> DEFINE cs == tree[dir].children
      <4>1. /\ cs \in Seq(Nat) /\ Len(cs) < Room(dir)
            /\ \A i \in 1 .. Len(cs) : cs[i] \in DOMAIN tree
        BY <1>2 DEF VfsNode, NodeSound, HasRoom
      <4>2. tree'[n].children = Append(cs, k)
        BY <1>4, <1>9, <3>1
      <4>3. Room(dir) \in Nat
        BY FilesAssumption DEF Room
      <4> HIDE DEF cs
      <4>4. /\ Len(Append(cs, k)) = Len(cs) + 1 /\ Len(cs) \in Nat
            /\ \A i \in 1 .. Len(cs) + 1 :
                 Append(cs, k)[i] = IF i = Len(cs) + 1 THEN k ELSE cs[i]
        BY <1>3, <4>1, Pushed
      <4>5. ASSUME NEW i \in 1 .. Len(tree'[n].children)
            PROVE  tree'[n].children[i] \in DOMAIN tree'
        <5>1. CASE i = Len(cs) + 1
          BY <1>8, <4>2, <4>4, <5>1
        <5>2. CASE i # Len(cs) + 1
          <6>1. i \in 1 .. Len(cs)
            BY <4>2, <4>4, <5>2
          <6> QED BY <1>8, <4>1, <4>2, <4>4, <5>2, <6>1
        <5> QED BY <5>1, <5>2
      <4>6. Len(tree'[n].children) <= Room(n)
        BY <3>1, <4>1, <4>2, <4>3, <4>4
      <4> QED BY <3>1, <4>5, <4>6
    <3>2. CASE n # dir
      <4>1. tree'[n] = tree[n]
        BY <1>9, <3>2
      <4> QED BY <1>8, <2>1, <4>1 DEF NodeSound
    <3> QED BY <3>1, <3>2
  <2>4. tree[n].parent # NULL =>
          tree'[tree[n].parent].fops = tree[tree[n].parent].fops
    BY <1>10, <2>2
  <2> QED BY <1>10, <2>1, <2>3, <2>4 DEF NodeSound
<1>12. NodeSound(tree', k)
  <2>1. k # Root /\ dir < k /\ dir # NULL /\ NULL < k
    BY <1>1 DEF k, NULL, Root, NodesSound
  <2>2. tree'[dir].fops # "NULL"
    BY <1>10
  <2>3. Len(<<>>) = 0 /\ Room(k) \in Nat
    BY FilesAssumption DEF Room
  <2> QED BY <1>9, <2>1, <2>2, <2>3 DEF NodeSound
<1>13. NodesSound'
  BY <1>7, <1>8, <1>11, <1>12 DEF NodesSound
<1> QED BY <1>8, <1>10, <1>13

-----------------------------------------------------------------------------
\* What most steps have in common.
LEMMA TablesKeep ==
  ASSUME TablesSound, UNCHANGED tables, DOMAIN tree \subseteq DOMAIN tree',
         \A n \in DOMAIN tree : tree'[n].fops = tree[n].fops
  PROVE  TablesSound'
<1>1. fdtable' = fdtable /\ n_fds' = n_fds /\ gfids' = gfids
      /\ n_gfids' = n_gfids
  BY DEF tables
<1>2. ASSUME NEW g \in 0 .. GFID_MAX - 1
      PROVE  IF g \in 1 .. n_fds
             THEN gfids[g] \in DOMAIN tree' /\ tree'[gfids[g]].fops # "NULL"
             ELSE gfids[g] = NULL
  BY DEF TablesSound
<1> QED BY <1>1, <1>2 DEF TablesSound

LEMMA InUserType ==
  /\ InUser \in [op : Walkers \union {"user", "read", "unmapped"},
                 path : Strings, fd : Nat, major : Nat]
  /\ InUser.op = "user"
BY DEF InUser, Strings, Walkers

\* A call that returns.
LEMMA ReturnKeeps ==
  ASSUME FilesInv, walks = <<>>, mode = "run", NEW value, Return(value),
         NodesSound', TablesSound', chrdev_handlers' \subseteq Majors
  PROVE  FilesInv'
<1>1. walks' = <<>> /\ mode' = "run" /\ result' = NULL /\ sys' = InUser
  BY DEF Return
<1>2. StackSound'
  <2>1. <<>> \in Seq(Walk) /\ Len(<<>>) <= MaxDepth
    BY WalkAssumption
  <2> QED BY <1>1, <2>1 DEF StackSound, StackFor
<1>3. CallSound'
  <2>1. NULL \notin DOMAIN tree'
    <3>1. DOMAIN tree' = 1 .. Len(tree') /\ Len(tree') \in Nat
      BY LenProperties DEF NodesSound
    <3> QED BY <3>1 DEF NULL
  <2> QED BY <1>1, <2>1, InUserType DEF CallSound
<1>4. PanicsExplained'
  BY <1>1 DEF PanicsExplained
<1> QED BY <1>1, <1>2, <1>3, <1>4 DEF FilesInv

\* A call that returns and leaves all but one table alone, or none.
LEMMA ReturnOnly ==
  ASSUME FilesInv, walks = <<>>, mode = "run", NEW value, Return(value),
         UNCHANGED <<tree, tables>>, chrdev_handlers' \subseteq Majors
  PROVE  FilesInv'
<1>1. NodesSound'
  BY DEF FilesInv, NodesSound, NodeSound
<1>2. TablesSound'
  BY TablesKeep DEF FilesInv
<1> QED BY <1>1, <1>2, ReturnKeeps

\* A call that does not return.
LEMMA StopKeeps ==
  ASSUME FilesInv, UNCHANGED <<tree, walkVars, tables, chrdev_handlers, sys>>,
         mode' \in {"panic", "wild"}, PanicsExplained'
  PROVE  FilesInv'
<1>1. NodesSound'
  BY DEF FilesInv, NodesSound, NodeSound
<1>2. TablesSound'
  BY TablesKeep DEF FilesInv
<1>3. StackSound' /\ CallSound'
  BY DEF FilesInv, StackSound, StackFor, CallSound, walkVars, tables
<1> QED BY <1>1, <1>2, <1>3 DEF FilesInv

LEMMA WildKeeps ==
  ASSUME FilesInv, UNCHANGED <<tree, walkVars, tables, chrdev_handlers>>, GoWild
  PROVE  FilesInv'
BY StopKeeps DEF GoWild, PanicsExplained

\* A step that changes the call besides its walk, and the mode.
LEMMA BesidesKeeps ==
  ASSUME FilesInv, walks = <<>>,
         UNCHANGED <<tree, walkVars, tables, chrdev_handlers>>,
         sys' \in [op : Walkers \union {"user", "read", "unmapped"},
                  path : Strings, fd : Nat, major : Nat],
         \/ sys'.op = "read" /\ sys'.fd \in 0 .. n_fds - 1 /\ mode' = "run"
         \/ sys'.op = "unmapped" /\ mode' = "panic"
  PROVE  FilesInv'
<1>1. NodesSound'
  BY DEF FilesInv, NodesSound, NodeSound
<1>2. TablesSound'
  BY TablesKeep DEF FilesInv
<1>3. StackSound'
  BY DEF FilesInv, StackSound, StackFor, walkVars
<1>4. CallSound'
  BY DEF FilesInv, CallSound, walkVars, tables
<1>5. PanicsExplained' /\ mode' \in {"run", "panic", "wild"}
  BY DEF PanicsExplained
<1> QED BY <1>1, <1>2, <1>3, <1>4, <1>5 DEF FilesInv

(***************************************************************************)
(* A panic for one of the reasons that PanicsExplained names.              *)
(***************************************************************************)
LEMMA PanicKeeps ==
  ASSUME FilesInv, UNCHANGED <<tree, walkVars, tables, chrdev_handlers>>, Panic,
         \/ \E n \in DOMAIN tree : tree[n].fops = "NULL"
         \/ sys.op = "mknod" /\ result = NULL
         \/ sys.op = "lmod" /\ result # NULL
         \/ sys.op = "user" /\ \E fd \in 0 .. n_fds - 1 : Node(fd) \in Undriven
  PROVE  FilesInv'
<1>1. /\ tree' = tree /\ result' = result /\ sys' = sys /\ n_fds' = n_fds
      /\ gfids' = gfids /\ fdtable' = fdtable
      /\ chrdev_handlers' = chrdev_handlers
  BY DEF Panic, walkVars, tables
<1>2. Undriven' = Undriven
  BY <1>1 DEF Undriven, HasDriver
<1>3. \A fd \in 0 .. n_fds - 1 : Node(fd)' = Node(fd)
  BY <1>1 DEF Node
<1>4. PanicsExplained'
  BY <1>1, <1>2, <1>3 DEF PanicsExplained
<1> QED BY <1>4, StopKeeps DEF Panic

\* What is without a driver in DOMAIN tree.
LEMMA WithoutDriver ==
  ASSUME NodesSound, NEW n \in DOMAIN tree, tree[n].fops # "NULL", ~HasDriver(n)
  PROVE  n \in Undriven
<1>1. tree[n].fops \in {"tar_fops", "chrdev", "NULL"}
  BY NodesTyped DEF VfsNode
<1> QED BY <1>1 DEF Undriven, HasDriver

\* A descriptor that is open denotes a node with operations.
LEMMA OpenNode ==
  ASSUME TablesSound, NEW fd \in DOMAIN fdtable, fdtable[fd] # 0
  PROVE  /\ fd \in 0 .. n_fds - 1 /\ Node(fd) = gfids[fd + 1]
         /\ Node(fd) \in DOMAIN tree /\ tree[Node(fd)].fops # "NULL"
<1>1. n_fds \in Nat /\ n_fds + 1 <= GFID_MAX /\ fd \in 0 .. FD_MAX - 1
  BY FilesAssumption DEF TablesSound
<1>2. fd < n_fds /\ fdtable[fd] = fd + 1
  BY <1>1 DEF TablesSound
<1>3. fd + 1 \in 1 .. n_fds /\ fd + 1 \in 0 .. GFID_MAX - 1
  BY <1>1, <1>2, FilesAssumption
<1> QED BY <1>1, <1>2, <1>3 DEF TablesSound, Node

-----------------------------------------------------------------------------
\* One lemma for each kind of step.
LEMMA BeginKeeps ==
  ASSUME FilesInv, NEW op \in Walkers,
         NEW p \in Strings, NEW walked \in Strings, NEW fd \in Nat,
         NEW major \in Nat, op = "open" => fd = n_fds,
         Begin(op, p, walked, fd, major)
  PROVE  FilesInv'
<1>1. /\ mode = "run" /\ mode' = "run" /\ UNCHANGED <<tables, chrdev_handlers>>
      /\ sys' = [op |-> op, path |-> p, fd |-> fd, major |-> major]
      /\ WalkPath(cwd, walked)
  BY DEF Begin, Idle
<1>2. NodesSound /\ TreeSound /\ cwd \in DOMAIN tree
  BY NodesAreTree DEF FilesInv, NodesSound, cwd
<1>3. tree' = tree /\ StackFor(walks') /\ result' = NULL
  BY <1>1, <1>2, WalkPathStarts
<1>4. NodesSound'
  BY <1>2, <1>3 DEF NodesSound, NodeSound
<1>5. TablesSound'
  BY <1>1, <1>3, TablesKeep DEF FilesInv
<1>6. StackSound'
  BY <1>3 DEF StackSound, StackFor
<1>7. CallSound'
  <2>1. NULL \notin DOMAIN tree
    BY <1>2 DEF TreeSound
  <2>2. n_fds' = n_fds
    BY <1>1 DEF tables
  <2> QED BY <1>1, <1>3, <2>1, <2>2 DEF CallSound, Walkers
<1>8. PanicsExplained'
  BY <1>1 DEF PanicsExplained
<1> QED BY <1>1, <1>4, <1>5, <1>6, <1>7, <1>8 DEF FilesInv

LEMMA CallsBegin ==
  ASSUME FilesInv, NEW p \in Paths,
         \/ SysOpen(p) \/ SysMkdir(p) \/ SysLmod(p)
         \/ \E major \in Majors : SysMknod(p, major)
  PROVE  FilesInv'
<1>1. p \in Strings /\ n_fds \in Nat
  BY WalkAssumption, FilesAssumption DEF FilesInv, TablesSound
<1>2. CASE SysOpen(p)
  BY <1>1, <1>2, BeginKeeps DEF SysOpen, Walkers
<1>3. CASE SysMkdir(p)
  BY <1>1, <1>3, BeginKeeps DEF SysMkdir, Walkers
<1>4. CASE SysLmod(p)
  BY <1>1, <1>4, BeginKeeps DEF SysLmod, Walkers
<1>5. ASSUME NEW major \in Majors, SysMknod(p, major) PROVE FilesInv'
  <2>1. Tail(Basename(p)) \in Strings /\ Dirname(p) \in Strings
    BY <1>1, <1>5, PathParts DEF SysMknod
  <2>2. Begin("mknod", Tail(Basename(p)), Dirname(p), 0, major)
    BY <1>5 DEF SysMknod
  <2>3. major \in Nat
    BY FilesAssumption
  <2> DEFINE q == Tail(Basename(p))
             w == Dirname(p)
  <2> HIDE DEF q, w
  <2>4. q \in Strings /\ w \in Strings /\ Begin("mknod", q, w, 0, major)
    BY <2>1, <2>2 DEF q, w
  <2> QED BY <2>3, <2>4, BeginKeeps DEF Walkers
<1> QED BY <1>2, <1>3, <1>4, <1>5

LEMMA WalkOnKeeps == ASSUME FilesInv, WalkOn PROVE FilesInv'
<1>1. /\ mode = "run" /\ sys.op # "user" /\ walks # <<>> /\ WalkStep
      /\ UNCHANGED <<tables, chrdev_handlers, sys, rax, mode>>
      /\ Found => HasMount(Top.node)
  BY DEF WalkOn, Walking
<1>2. NodesSound /\ TreeSound /\ StackSound
  BY NodesAreTree DEF FilesInv
<1>3. /\ tree' = tree /\ StackFor(walks')
      /\ result' \in DOMAIN tree \union {NULL, Wild}
  BY <1>1, <1>2, WalkStepKeeps
<1>4. NodesSound'
  BY <1>2, <1>3 DEF NodesSound, NodeSound
<1>5. TablesSound'
  BY <1>1, <1>3, TablesKeep DEF FilesInv
<1>6. StackSound'
  BY <1>3 DEF StackSound, StackFor
<1>7. result' \in DOMAIN tree => tree[result'].fops # "NULL"
  <2>1. NULL \notin DOMAIN tree /\ Wild \notin DOMAIN tree
    BY <1>2 DEF TreeSound, Wild
  <2>2. CASE ReturnFound
    <3>1. result' = Top.node /\ Top.node \in DOMAIN tree
      BY <1>2, <2>2, StackTop DEF ReturnFound, Found, StackSound
    <3>2. HasMount(Top.node)
      BY <1>1, <2>2 DEF ReturnFound
    <3> QED BY <1>2, <3>1, <3>2, MountIsOperations
  <2>3. CASE ~ReturnFound
    <3>1. result' \in {result, NULL, Wild}
      BY <1>1, <2>3 DEF WalkStep, Descend, NotThere, FollowLink, LeaveStack,
                        WalkRest, RestFound
    <3> QED BY <2>1, <3>1 DEF FilesInv, CallSound
  <2> QED BY <2>2, <2>3
<1>8. CallSound'
  <2>1. n_fds' = n_fds /\ sys' = sys
    BY <1>1 DEF tables
  <2> QED BY <1>1, <1>3, <1>7, <2>1 DEF FilesInv, CallSound
<1>9. PanicsExplained'
  BY <1>1 DEF PanicsExplained
<1> QED BY <1>1, <1>4, <1>5, <1>6, <1>8, <1>9 DEF FilesInv

LEMMA WalkFaultsKeeps == ASSUME FilesInv, WalkFaults PROVE FilesInv'
<1>1. /\ Found /\ ~HasMount(Top.node) /\ Panic
      /\ UNCHANGED <<tree, walkVars, tables, chrdev_handlers>>
  BY DEF WalkFaults
<1>2. NodesSound /\ StackFor(walks)
  BY DEF FilesInv, StackSound
<1>3. Top.node \in DOMAIN tree
  BY <1>1, <1>2, StackTop DEF Found
<1>4. tree[Top.node].fops = "NULL"
  BY <1>1, <1>2, <1>3, MountIsOperations
<1> QED BY <1>1, <1>3, <1>4, PanicKeeps

LEMMA OpenAddsKeeps == ASSUME FilesInv, OpenAdds PROVE FilesInv'
<1>1. /\ mode = "run" /\ sys.op = "open" /\ walks = <<>> /\ result # Wild
      /\ result # NULL /\ sys.fd < FD_MAX /\ n_gfids < GFID_MAX
      /\ gfids' = [gfids EXCEPT ![n_gfids] = result]
      /\ n_gfids' = n_gfids + 1
      /\ fdtable' = [fdtable EXCEPT ![sys.fd] = n_gfids]
      /\ n_fds' = n_fds + 1 /\ Return("fd")
      /\ UNCHANGED <<tree, chrdev_handlers>>
  BY DEF OpenAdds, Opened, Walked, AddFile
<1>2. sys.fd = n_fds /\ result \in DOMAIN tree /\ tree[result].fops # "NULL"
  BY <1>1 DEF FilesInv, CallSound, StackSound
<1>3. TablesSound
  BY DEF FilesInv
<1>4. TablesSound'
  <2>1. n_fds' \in 0 .. FD_MAX /\ n_gfids' = n_fds' + 1 /\ n_gfids' <= GFID_MAX
    BY <1>1, <1>2, <1>3, FilesAssumption DEF TablesSound
  <2>2. DOMAIN fdtable' = 0 .. FD_MAX - 1 /\ DOMAIN gfids' = 0 .. GFID_MAX - 1
    BY <1>1, <1>3 DEF TablesSound
  <2>3. ASSUME NEW fd \in 0 .. FD_MAX - 1
        PROVE  fdtable'[fd] = IF fd < n_fds' THEN fd + 1 ELSE 0
    <3>1. fdtable'[fd] = IF fd = n_fds THEN n_gfids ELSE fdtable[fd]
      BY <1>1, <1>2, <1>3 DEF TablesSound
    <3>2. fdtable[fd] = IF fd < n_fds THEN fd + 1 ELSE 0
      BY <1>3 DEF TablesSound
    <3>3. n_fds \in Nat /\ n_gfids = n_fds + 1 /\ n_fds' = n_fds + 1
      BY <1>1, <1>3, FilesAssumption DEF TablesSound
    <3> QED BY <3>1, <3>2, <3>3
  <2>4. ASSUME NEW g \in 0 .. GFID_MAX - 1
        PROVE  IF g \in 1 .. n_fds'
               THEN gfids'[g] \in DOMAIN tree' /\ tree'[gfids'[g]].fops # "NULL"
               ELSE gfids'[g] = NULL
    <3>1. gfids'[g] = IF g = n_gfids THEN result ELSE gfids[g]
      BY <1>1, <1>3 DEF TablesSound
    <3>2. n_fds \in Nat /\ n_gfids = n_fds + 1 /\ n_fds' = n_fds + 1
          /\ tree' = tree
      BY <1>1, <1>3, FilesAssumption DEF TablesSound
    <3>3. CASE g = n_gfids
      BY <1>2, <3>1, <3>2, <3>3
    <3>4. CASE g # n_gfids
      <4>1. g \in 1 .. n_fds' <=> g \in 1 .. n_fds
        BY <3>2, <3>4
      <4> QED BY <1>3, <3>1, <3>2, <3>4, <4>1 DEF TablesSound
    <3> QED BY <3>3, <3>4
  <2> QED BY <2>1, <2>2, <2>3, <2>4 DEF TablesSound
<1>5. NodesSound'
  BY <1>1 DEF FilesInv, NodesSound, NodeSound
<1>6. chrdev_handlers' \subseteq Majors
  BY <1>1 DEF FilesInv
<1> QED BY <1>1, <1>4, <1>5, <1>6, ReturnKeeps

LEMMA MkdirAddsKeeps == ASSUME FilesInv, MkdirAdds PROVE FilesInv'
<1>1. /\ mode = "run" /\ walks = <<>> /\ HasRoom(cwd) /\ Return("garbage")
      /\ UNCHANGED <<tables, chrdev_handlers>>
  BY DEF MkdirAdds, OpenFails, Walked
<1>2. PICK junk \in Junk :
        AddChild(cwd, NewDir(Basename(sys.path \o junk)))
  BY DEF MkdirAdds
<1> DEFINE name == Basename(sys.path \o junk)
           node == NewDir(name)
<1>3. name \in Strings
  <2>1. sys.path \o junk \in Strings
    BY WalkAssumption DEF FilesInv, CallSound, Strings
  <2> QED BY <2>1, PathParts
<1> HIDE DEF name
<1>4. /\ node \in VfsNode /\ node.children = <<>> /\ node.module = NULL
      /\ node.fops = "NULL" /\ node.parent = NULL /\ node.type = "VFS_DIR"
  <2>1. <<>> \in Strings /\ <<>> \in Seq(Nat)
    BY DEF Strings
  <2> QED BY <1>3, <2>1 DEF NewDir, VfsNode, NULL
<1>5. AddChild(cwd, node)
  BY <1>2 DEF name
<1>6. NodesSound /\ cwd \in DOMAIN tree /\ tree[cwd].fops # "NULL"
  BY DEF FilesInv, NodesSound, NodeSound, cwd
<1> HIDE DEF node
<1>7. /\ NodesSound' /\ DOMAIN tree \subseteq DOMAIN tree'
      /\ \A n \in DOMAIN tree : tree'[n].fops = tree[n].fops
  BY <1>1, <1>4, <1>5, <1>6, AddChildKeeps
<1>8. TablesSound' /\ chrdev_handlers' \subseteq Majors
  BY <1>1, <1>7, TablesKeep DEF FilesInv
<1> QED BY <1>1, <1>7, <1>8, ReturnKeeps

LEMMA MknodAddsKeeps == ASSUME FilesInv, MknodAdds PROVE FilesInv'
<1>1. /\ mode = "run" /\ walks = <<>> /\ HasRoom(result) /\ Return("0")
      /\ result # NULL /\ result # Wild
      /\ UNCHANGED <<tables, chrdev_handlers>>
  BY DEF MknodAdds, Walked
<1> DEFINE node == NewDev(sys.path, result, sys.major)
<1>2. AddChild(result, node)
  BY DEF MknodAdds
<1>3. /\ NodesSound /\ result \in DOMAIN tree /\ tree[result].fops # "NULL"
      /\ result \in Nat
  <2>1. NodesSound /\ result \in DOMAIN tree
    BY <1>1 DEF FilesInv, StackSound
  <2> QED BY <2>1, NodesTyped DEF FilesInv, CallSound
<1>4. /\ node \in VfsNode /\ node.children = <<>> /\ node.module = NULL
      /\ node.fops = "chrdev" /\ node.parent = result
  <2>1. <<>> \in Strings /\ <<>> \in Seq(Nat)
    BY DEF Strings
  <2>2. sys.path \in Strings /\ sys.major \in Nat
    BY DEF FilesInv, CallSound
  <2> QED BY <1>3, <2>1, <2>2 DEF NewDev, VfsNode, NULL
<1> HIDE DEF node
<1>5. /\ NodesSound' /\ DOMAIN tree \subseteq DOMAIN tree'
      /\ \A n \in DOMAIN tree : tree'[n].fops = tree[n].fops
  BY <1>1, <1>2, <1>3, <1>4, AddChildKeeps
<1>6. TablesSound' /\ chrdev_handlers' \subseteq Majors
  BY <1>1, <1>5, TablesKeep DEF FilesInv
<1> QED BY <1>1, <1>5, <1>6, ReturnKeeps

LEMMA UserOverwritesKeeps == ASSUME FilesInv, UserOverwrites PROVE FilesInv'
<1>1. /\ mode = "run"
      /\ UNCHANGED <<walkVars, tables, chrdev_handlers, sys, rax, mode>>
  BY DEF UserOverwrites, Idle
<1>2. PICK n \in DOMAIN tree, name \in Names :
        tree' = [tree EXCEPT ![n].name = name]
  BY DEF UserOverwrites
<1> DEFINE r == [tree[n] EXCEPT !.name = name]
<1>3. /\ DOMAIN tree = 1 .. Len(tree) /\ Len(tree) \in Nat
      /\ \A m \in DOMAIN tree : tree[m] \in VfsNode
      /\ NodesSound
  BY NodesTyped DEF FilesInv
<1>4. /\ r \in VfsNode /\ r.type = tree[n].type /\ r.fops = tree[n].fops
      /\ r.parent = tree[n].parent /\ r.children = tree[n].children
      /\ r.module = tree[n].module
  BY ZenonT(60), <1>3, FilesAssumption DEF VfsNode
<1>5. tree' = [tree EXCEPT ![n] = r]
  BY <1>2
<1> HIDE DEF r
<1>6. /\ tree' \in Seq(VfsNode) /\ Len(tree') = Len(tree)
      /\ \A m \in 1 .. Len(tree) : tree'[m] = IF m = n THEN r ELSE tree[m]
  BY <1>3, <1>4, <1>5, ExceptSeq DEF NodesSound
<1>7. DOMAIN tree' = DOMAIN tree
  BY <1>5
<1>8. \A m \in DOMAIN tree :
        /\ tree'[m].type = tree[m].type /\ tree'[m].fops = tree[m].fops
        /\ tree'[m].parent = tree[m].parent
        /\ tree'[m].children = tree[m].children
        /\ tree'[m].module = tree[m].module
  BY <1>3, <1>4, <1>6
<1>9. ASSUME NEW m \in DOMAIN tree PROVE NodeSound(tree', m)
  <2>1. NodeSound(tree, m)
    BY <1>3 DEF NodesSound
  <2>2. tree[m].parent # NULL => tree[m].parent \in DOMAIN tree
    <3>1. tree[m].parent \in Nat /\ m \in Nat
      BY <1>3 DEF VfsNode
    <3>2. m = Root => tree[m].parent = NULL
      BY <2>1 DEF NodeSound
    <3>3. m # Root => tree[m].parent < m
      BY <2>1 DEF NodeSound
    <3> QED BY <1>3, <3>1, <3>2, <3>3 DEF NULL
  <2> QED BY <1>7, <1>8, <2>1, <2>2 DEF NodeSound
<1>10. NodesSound'
  BY <1>3, <1>6, <1>7, <1>9 DEF NodesSound
<1>11. TablesSound'
  BY <1>1, <1>7, <1>8, TablesKeep DEF FilesInv
<1>12. StackSound' /\ CallSound'
  <2>1. /\ walks' = walks /\ result' = result /\ sys' = sys /\ n_fds' = n_fds
    BY <1>1 DEF walkVars, tables
  <2>2. StackSound'
    <3>1. \A m \in DOMAIN tree : tree'[m].type = tree[m].type
      BY <1>8
    <3> QED BY <1>7, <2>1, <3>1 DEF FilesInv, StackSound, StackFor
  <2>3. \A m \in DOMAIN tree : tree'[m].fops = tree[m].fops
    BY <1>8
  <2> QED BY <1>7, <2>1, <2>2, <2>3 DEF FilesInv, CallSound
<1>13. PanicsExplained'
  BY <1>1 DEF PanicsExplained
<1> QED BY <1>1, <1>10, <1>11, <1>12, <1>13 DEF FilesInv

LEMMA CompletionKeeps == ASSUME FilesInv, Completion PROVE FilesInv'
<1>0. chrdev_handlers \subseteq Majors
  BY DEF FilesInv
<1>1. CASE WalkWild
  BY <1>1, WildKeeps DEF WalkWild
<1>2. CASE OpenReturns("-1")
  BY <1>0, <1>2, ReturnOnly DEF OpenReturns, OpenFails, Walked
<1>3. CASE OpenAdds
  BY <1>3, OpenAddsKeeps
<1>4. CASE OpenOverruns
  BY <1>4, WildKeeps DEF OpenOverruns
<1>5. CASE MkdirExists
  BY <1>0, <1>5, ReturnOnly DEF MkdirExists, Opened, Walked
<1>6. CASE MkdirAdds
  BY <1>6, MkdirAddsKeeps
<1>7. CASE MkdirOverruns
  BY <1>7, WildKeeps DEF MkdirOverruns
<1>8. CASE MknodFaults
  BY <1>8, PanicKeeps DEF MknodFaults, Walked
<1>9. CASE MknodRefuses
  BY <1>0, <1>9, ReturnOnly DEF MknodRefuses, Walked
<1>10. CASE MknodAdds
  BY <1>10, MknodAddsKeeps
<1>11. CASE MknodOverruns
  BY <1>11, WildKeeps DEF MknodOverruns
<1>12. CASE LmodNoEntry
  BY <1>0, <1>12, ReturnOnly DEF LmodNoEntry, OpenFails, Walked
<1>13. CASE LmodInvalid
  BY <1>0, <1>13, ReturnOnly DEF LmodInvalid, Opened, Walked
<1>14. CASE LmodRegisters
  <2>1. /\ mode = "run" /\ walks = <<>> /\ result # NULL /\ result # Wild
        /\ Return("0") /\ UNCHANGED <<tree, tables>>
    BY <1>14 DEF LmodRegisters, Opened, Walked
  <2>2. PICK major \in Registers(result) :
          chrdev_handlers' = chrdev_handlers \union {major}
    BY <1>14 DEF LmodRegisters
  <2>3. result \in DOMAIN tree
    BY <2>1 DEF FilesInv, StackSound
  <2>4. major \in Majors
    BY <2>3 DEF FilesInv, NodesSound, NodeSound, Registers
  <2> QED BY <1>0, <2>1, <2>2, <2>4, ReturnOnly
<1>15. CASE LmodFaults
  BY <1>15, PanicKeeps DEF LmodFaults, Opened, Walked
<1> QED BY <1>1, <1>2, <1>3, <1>4, <1>5, <1>6, <1>7, <1>8, <1>9, <1>10, <1>11,
           <1>12, <1>13, <1>14, <1>15 DEF Completion

LEMMA TransferKeeps ==
  ASSUME FilesInv, NEW fd \in Fds,
         \/ TransferClosed(fd) \/ TransferWild(fd)
         \/ Transfer(fd) \/ TransferFaults(fd) \/ ReadWaits(fd)
  PROVE  FilesInv'
<1>0. Idle => mode = "run" /\ sys.op = "user" /\ walks = <<>>
  BY DEF Idle, FilesInv, CallSound, Walkers
<1>1. chrdev_handlers \subseteq Majors
  BY DEF FilesInv
<1>2. CASE TransferClosed(fd)
  BY <1>0, <1>1, <1>2, ReturnOnly DEF TransferClosed
<1>3. CASE TransferWild(fd)
  BY <1>3, WildKeeps DEF TransferWild
<1>4. CASE Transfer(fd)
  BY <1>0, <1>1, <1>4, ReturnOnly DEF Transfer
<1>5. CASE TransferFaults(fd)
  <2>1. /\ Idle /\ fd \in DOMAIN fdtable /\ fdtable[fd] # 0
        /\ ~HasDriver(Node(fd)) /\ Panic
        /\ UNCHANGED <<tree, walkVars, tables, chrdev_handlers>>
    BY <1>5 DEF TransferFaults, HasFile
  <2>2. /\ fd \in 0 .. n_fds - 1 /\ Node(fd) \in DOMAIN tree
        /\ tree[Node(fd)].fops # "NULL" /\ NodesSound
    BY <2>1, OpenNode DEF FilesInv
  <2>3. Node(fd) \in Undriven
    BY <2>1, <2>2, WithoutDriver
  <2> QED BY <1>0, <2>1, <2>2, <2>3, PanicKeeps
<1>6. CASE ReadWaits(fd)
  <2>1. /\ Idle /\ fd \in DOMAIN fdtable /\ fdtable[fd] # 0
        /\ sys' = [InUser EXCEPT !.op = "read", !.fd = fd] /\ mode' = mode
        /\ UNCHANGED <<tree, walkVars, tables, chrdev_handlers>>
    BY <1>6 DEF ReadWaits, HasFile
  <2>2. fd \in 0 .. n_fds - 1 /\ n_fds \in Nat
    BY <2>1, OpenNode, FilesAssumption DEF FilesInv, TablesSound
  <2>3. sys' = [op |-> "read", path |-> <<>>, fd |-> fd, major |-> 0]
    BY <2>1 DEF InUser
  <2>4. <<>> \in Strings /\ fd \in Nat
    BY <2>2 DEF Strings
  <2>5. sys'.op = "read" /\ sys'.fd = fd /\ mode' = "run"
    BY <1>0, <2>1, <2>3
  <2>6. sys' \in [op : Walkers \union {"user", "read", "unmapped"},
                 path : Strings, fd : Nat, major : Nat]
    BY <2>3, <2>4
  <2> QED BY <1>0, <2>1, <2>2, <2>5, <2>6, BesidesKeeps
<1> QED BY <1>2, <1>3, <1>4, <1>5, <1>6

LEMMA UnmappedKeeps == ASSUME FilesInv, Unmapped PROVE FilesInv'
<1>1. /\ walks = <<>> /\ mode' = "panic"
      /\ sys' = [InUser EXCEPT !.op = "unmapped"]
      /\ UNCHANGED <<tree, walkVars, tables, chrdev_handlers>>
  BY DEF Unmapped, Idle, FilesInv, CallSound, Walkers
<1>2. sys' = [op |-> "unmapped", path |-> <<>>, fd |-> 0, major |-> 0]
  BY <1>1 DEF InUser
<1>3. <<>> \in Strings
  BY DEF Strings
<1>4. sys' \in [op : Walkers \union {"user", "read", "unmapped"},
               path : Strings, fd : Nat, major : Nat]
  BY <1>2, <1>3
<1> QED BY <1>1, <1>2, <1>4, BesidesKeeps

LEMMA ReadReturnsKeeps == ASSUME FilesInv, ReadReturns PROVE FilesInv'
<1>1. /\ mode = "run" /\ walks = <<>> /\ chrdev_handlers \subseteq Majors
      /\ UNCHANGED <<tree, tables, chrdev_handlers>> /\ Return("n")
  BY DEF ReadReturns, FilesInv, CallSound, Walkers
<1> QED BY <1>1, ReturnOnly

LEMMA RefuseKeeps == ASSUME FilesInv, Refuse PROVE FilesInv'
<1>1. /\ mode = "run" /\ walks = <<>> /\ chrdev_handlers \subseteq Majors
      /\ UNCHANGED <<tree, tables, chrdev_handlers>>
  BY DEF Refuse, Idle, FilesInv, CallSound, Walkers
<1>2. PICK e \in {"E_INVPTR", "E_NOSYS"} : Return(e)
  BY DEF Refuse
<1> QED BY <1>1, <1>2, ReturnOnly

LEMMA FilesStepKeeps == FilesInv /\ [FilesNext]_fvars => FilesInv'
<1> SUFFICES ASSUME FilesInv, [FilesNext]_fvars PROVE FilesInv'
  OBVIOUS
<1>1. CASE UNCHANGED fvars
  <2>1. UNCHANGED <<tree, call, walks, result, sys, rax, mode, chrdev_handlers>>
        /\ UNCHANGED tables
    BY <1>1 DEF fvars, tables
  <2>2. PanicsExplained'
    BY <2>1 DEF FilesInv, PanicsExplained, Undriven, HasDriver, Node, tables
  <2>3. NodesSound' /\ StackSound' /\ CallSound' /\ TablesSound'
    BY <2>1 DEF FilesInv, NodesSound, NodeSound, StackSound, StackFor,
                CallSound, TablesSound, tables
  <2> QED BY <2>1, <2>2, <2>3 DEF FilesInv
<1>2. CASE FilesNext
  BY <1>2, CallsBegin, TransferKeeps, RefuseKeeps, UnmappedKeeps,
     ReadReturnsKeeps, UserOverwritesKeeps, WalkOnKeeps, WalkFaultsKeeps, CompletionKeeps DEF FilesNext
<1> QED BY <1>1, <1>2

LEMMA FilesStarts == FilesInit => FilesInv
<1> SUFFICES ASSUME FilesInit PROVE FilesInv
  OBVIOUS
<1>1. /\ tree \in Trees /\ walks = <<>> /\ result = NULL /\ sys = InUser
      /\ mode = "run" /\ chrdev_handlers = {} /\ n_fds = 0 /\ n_gfids = 1
      /\ fdtable = [i \in 0 .. FD_MAX - 1 |-> 0]
      /\ gfids = [i \in 0 .. GFID_MAX - 1 |-> NULL]
  BY DEF FilesInit, WalkInit
<1>2. IsTree(tree) /\ tree \in Seq(VfsNode)
  BY <1>1, WalkAssumption, FilesAssumption
<1>3. \A n \in DOMAIN tree :
        /\ n # Root => tree[n].parent < n
        /\ Len(tree[n].children) <= Room(n)
        /\ tree[n].fops = "tar_fops"
        /\ tree[n].module \in Majors \union {NULL}
  BY <1>1, FilesAssumption
<1>4. ASSUME NEW n \in DOMAIN tree PROVE NodeSound(tree, n)
  <2>1. \A i \in 1 .. Len(tree[n].children) :
          tree[n].children[i] \in DOMAIN tree
    BY <1>2, ElementOfSeq DEF IsTree
  <2>2. n # Root => tree[n].parent \in DOMAIN tree /\ tree[n].parent # NULL
    BY <1>2 DEF IsTree
  <2>3. n = Root => tree[n].type = "VFS_DIR" /\ tree[n].parent = NULL
    BY <1>2 DEF IsTree
  <2> QED BY <1>3, <2>1, <2>2, <2>3 DEF NodeSound
<1>5. NodesSound
  BY <1>2, <1>4 DEF NodesSound, IsTree
<1>6. StackSound
  BY <1>1, StackEmpty DEF StackSound
<1>7. CallSound
  <2>1. NULL \notin DOMAIN tree
    BY <1>2 DEF IsTree
  <2> QED BY <1>1, <2>1, InUserType DEF CallSound
<1>8. TablesSound
  BY <1>1, FilesAssumption DEF TablesSound
<1> QED BY <1>1, <1>5, <1>6, <1>7, <1>8 DEF FilesInv, PanicsExplained

(***************************************************************************)
(* FilesInv holds in every reachable state: a walk's nodes, the result of  *)
(* a call, and what descriptors denote stay nodes with operations while    *)
(* the tree grows (open.c:7-67, gfid.c:10-15, walk_path.c:10-97).          *)
(***************************************************************************)
THEOREM FilesInductive == FilesSpec => []FilesInv
BY FilesStarts, FilesStepKeeps, PTL DEF FilesSpec

(***************************************************************************)
(* The tables of descriptors and of open files are filled without gaps and *)
(* in step, whatever fails between the choice of a descriptor and its use  *)
(* (open.c:21-45): FilesTypeOK.                                            *)
(***************************************************************************)
THEOREM FilesTypeCorrect == FilesSpec => []FilesTypeOK
<1>1. FilesInv => FilesTypeOK
  <2> SUFFICES ASSUME FilesInv PROVE FilesTypeOK
    OBVIOUS
  <2>1. ASSUME NEW n \in DOMAIN tree
        PROVE  /\ tree[n].parent \in DOMAIN tree \union {NULL}
               /\ ToSet(tree[n].children) \subseteq DOMAIN tree
               /\ Len(tree[n].children) <= Room(n)
    <3>1. NodeSound(tree, n) /\ TreeSound
      BY NodesAreTree DEF FilesInv, NodesSound
    <3>2. DOMAIN tree[n].children = 1 .. Len(tree[n].children)
      BY <3>1, LenProperties DEF TreeSound
    <3>3. tree[n].parent \in DOMAIN tree \union {NULL}
      <4>1. /\ DOMAIN tree = 1 .. Len(tree) /\ Len(tree) \in Nat
            /\ tree[n] \in VfsNode
        BY NodesTyped DEF FilesInv
      <4>2. tree[n].parent \in Nat /\ n \in Nat
        BY <4>1 DEF VfsNode
      <4>3. n # Root => tree[n].parent < n
        BY <3>1 DEF NodeSound
      <4>4. n = Root => tree[n].parent = NULL
        BY <3>1 DEF NodeSound
      <4> QED BY <4>1, <4>2, <4>3, <4>4 DEF NULL
    <3> QED BY <3>1, <3>2, <3>3 DEF NodeSound, ToSet
  <2>2. \A g \in 0 .. GFID_MAX - 1 :
          IF g \in 1 .. n_fds THEN gfids[g] \in DOMAIN tree ELSE gfids[g] = NULL
    BY DEF FilesInv, TablesSound
  <2> QED BY <2>1, <2>2
          DEF FilesInv, FilesTypeOK, NodesSound, CallSound, TablesSound
<1> QED BY <1>1, FilesInductive, PTL

(***************************************************************************)
(* Nothing is ever made in a directory that mkdir made, nothing else is    *)
(* cut off from the root, and a file that was opened has a mount and       *)
(* operations (open.c:47-67, walk_path.c:10-18): OnlyMkdirUnmounted.       *)
(***************************************************************************)
THEOREM OnlyMkdirCutsOff == FilesSpec => []OnlyMkdirUnmounted
<1>1. FilesInv => OnlyMkdirUnmounted
  <2> SUFFICES ASSUME FilesInv PROVE OnlyMkdirUnmounted
    OBVIOUS
  <2>1. NodesSound /\ TablesSound
    BY DEF FilesInv
  <2>2. ASSUME NEW n \in DOMAIN tree
        PROVE  IF tree[n].fops = "NULL" THEN tree[n].children = <<>>
               ELSE HasMount(n)
    BY <2>1, MountIsOperations DEF NodesSound, NodeSound
  <2>3. ASSUME NEW fd \in 0 .. n_fds - 1
        PROVE  HasMount(Node(fd)) /\ tree[Node(fd)].fops # "NULL"
    <3>1. fd \in DOMAIN fdtable /\ fdtable[fd] # 0
      BY <2>1, FilesAssumption DEF TablesSound
    <3>2. Node(fd) \in DOMAIN tree /\ tree[Node(fd)].fops # "NULL"
      BY <2>1, <3>1, OpenNode
    <3> QED BY <2>1, <3>2, MountIsOperations
  <2> QED BY <2>2, <2>3 DEF OnlyMkdirUnmounted
<1> QED BY <1>1, FilesInductive, PTL

(***************************************************************************)
(* A program that passes mapped memory only, makes no directory, makes     *)
(* devices only in directories that exist, opens them after their module,  *)
(* and loads no module that faults in load_module, stops the kernel with   *)
(* no call (open.c:7-19, register_syscalls.c:16-157): PanicsExplained.     *)
(***************************************************************************)
THEOREM PanicsAreExplained == FilesSpec => []PanicsExplained
<1>1. FilesInv => PanicsExplained
  BY DEF FilesInv
<1> QED BY <1>1, FilesInductive, PTL

-----------------------------------------------------------------------------
(***************************************************************************)
(* The file layer implements Descriptors: an open that succeeds adds the   *)
(* next descriptor, and no other step changes what one denotes             *)
(* (open.c:21-45, gfid.c:5-15).                                            *)
(***************************************************************************)
OpenFiles == [i \in 1 .. n_fds |-> gfids[fdtable[i - 1]]]

LEMMA TablesChangeBySteps ==
  ASSUME FilesNext, ~OpenAdds PROVE UNCHANGED tables
BY DEF FilesNext, SysOpen, SysMkdir, SysLmod, SysMknod, Begin,
       TransferClosed, TransferWild, Transfer, TransferFaults, Refuse,
       Unmapped, ReadWaits, ReadReturns,
       UserOverwrites, WalkOn, WalkFaults, Completion, WalkWild, OpenReturns,
       OpenOverruns, MkdirExists, MkdirAdds, MkdirOverruns, MknodFaults,
       MknodRefuses, MknodAdds, MknodOverruns, LmodNoEntry, LmodInvalid,
       LmodRegisters, LmodFaults

LEMMA OpenAddsDescriptor ==
  ASSUME FilesInv, FilesInv', OpenAdds
  PROVE  /\ Len(OpenFiles) < FD_MAX
         /\ Len(OpenFiles') = Len(OpenFiles) + 1
         /\ SubSeq(OpenFiles', 1, Len(OpenFiles)) = OpenFiles
<1>1. TablesSound /\ TablesSound'
  BY DEF FilesInv
<1>2. /\ sys.fd = n_fds /\ n_fds < FD_MAX /\ n_fds' = n_fds + 1
      /\ gfids' = [gfids EXCEPT ![n_gfids] = result] /\ n_gfids = n_fds + 1
      /\ fdtable' = [fdtable EXCEPT ![sys.fd] = n_gfids]
      /\ n_fds \in Nat
  BY <1>1, FilesAssumption
     DEF FilesInv, CallSound, TablesSound, OpenAdds, Opened, Walked, AddFile
<1> DEFINE S == {gfids[g] : g \in DOMAIN gfids}
                  \union {gfids'[g] : g \in DOMAIN gfids'}
<1>3. ASSUME NEW i \in 1 .. n_fds
      PROVE  fdtable[i - 1] = i /\ fdtable'[i - 1] = i
             /\ gfids'[i] = gfids[i] /\ i \in DOMAIN gfids
  <2>1. i - 1 \in 0 .. FD_MAX - 1 /\ i - 1 < n_fds /\ i - 1 # n_fds
        /\ i \in 0 .. GFID_MAX - 1 /\ i # n_gfids
    BY <1>1, <1>2, FilesAssumption DEF TablesSound
  <2> QED BY <1>1, <1>2, <2>1 DEF TablesSound
<1>4. ASSUME NEW i \in 1 .. n_fds + 1
      PROVE  fdtable'[i - 1] = i /\ i \in DOMAIN gfids'
  <2>1. i - 1 \in 0 .. FD_MAX - 1 /\ i - 1 < n_fds' /\ i \in 0 .. GFID_MAX - 1
    BY <1>1, <1>2, FilesAssumption DEF TablesSound
  <2> QED BY <1>1, <2>1 DEF TablesSound
<1>5. /\ OpenFiles \in Seq(S) /\ Len(OpenFiles) = n_fds
      /\ \A i \in 1 .. n_fds : OpenFiles[i] = gfids[i]
  <2>1. OpenFiles = [i \in 1 .. n_fds |-> gfids[i]]
    BY <1>3 DEF OpenFiles
  <2>2. \A i \in 1 .. n_fds : gfids[i] \in S
    BY <1>3
  <2> HIDE DEF S
  <2> QED BY <1>2, <2>1, <2>2, SeqDef
<1>6. /\ OpenFiles' \in Seq(S) /\ Len(OpenFiles') = n_fds + 1
      /\ \A i \in 1 .. n_fds + 1 : OpenFiles'[i] = gfids'[i]
  <2>1. OpenFiles' = [i \in 1 .. n_fds + 1 |-> gfids'[i]]
    BY <1>2, <1>4 DEF OpenFiles
  <2>2. \A i \in 1 .. n_fds + 1 : gfids'[i] \in S
    BY <1>4
  <2> HIDE DEF S
  <2> QED BY <1>2, <2>1, <2>2, SeqDef
<1> HIDE DEF S
<1> DEFINE a == OpenFiles
           b == OpenFiles'
<1>7. a \in Seq(S) /\ b \in Seq(S) /\ Len(a) = n_fds /\ Len(b) = n_fds + 1
      /\ \A i \in 1 .. n_fds : b[i] = a[i]
  BY <1>3, <1>5, <1>6, <1>2
<1> HIDE DEF a, b
<1>8. SubSeq(b, 1, n_fds) = a
  <2>1. /\ SubSeq(b, 1, n_fds) \in Seq(S) /\ Len(SubSeq(b, 1, n_fds)) = n_fds
        /\ \A i \in 1 .. n_fds : SubSeq(b, 1, n_fds)[i] = b[i]
    <3>1. n_fds <= Len(b)
      BY <1>2, <1>7
    <3> QED BY <1>2, <1>7, <3>1, StartOf
  <2> QED BY <1>7, <2>1, SeqEqual
<1> QED BY <1>2, <1>5, <1>6, <1>8 DEF a, b

THEOREM FilesImplementDescriptors == FilesSpec => ImplementsDescriptors
<1>1. FilesInit => D!DescriptorsInit
  <2> SUFFICES ASSUME FilesInit PROVE D!DescriptorsInit
    OBVIOUS
  <2>1. n_fds = 0
    BY DEF FilesInit
  <2>2. [i \in 1 .. n_fds |-> gfids[fdtable[i - 1]]] = <<>>
    BY <2>1
  <2> QED BY <2>2 DEF D!DescriptorsInit
<1>2. FilesInv /\ FilesInv' /\ [FilesNext]_fvars
        => [D!Opens]_([i \in 1 .. n_fds |-> gfids[fdtable[i - 1]]])
  <2> SUFFICES ASSUME FilesInv, FilesInv', [FilesNext]_fvars
               PROVE  [D!Opens]_([i \in 1 .. n_fds |-> gfids[fdtable[i - 1]]])
    OBVIOUS
  <2>1. CASE UNCHANGED tables
    BY <2>1 DEF tables
  <2>2. CASE OpenAdds
    <3>1. /\ Len(OpenFiles) < FD_MAX
          /\ Len(OpenFiles') = Len(OpenFiles) + 1
          /\ SubSeq(OpenFiles', 1, Len(OpenFiles)) = OpenFiles
      BY <2>2, OpenAddsDescriptor
    <3> QED BY <3>1 DEF D!Opens, OpenFiles
  <2>3. UNCHANGED fvars => UNCHANGED tables
    BY DEF fvars, tables
  <2> QED BY <2>1, <2>2, <2>3, TablesChangeBySteps
<1> QED BY <1>1, <1>2, FilesInductive, PTL
        DEF FilesSpec, ImplementsDescriptors, D!DescriptorsSpec

-----------------------------------------------------------------------------
(***************************************************************************)
(* The paths that are found.  The reference cuts a path into its elements  *)
(* and goes down the tree by their names; the walk does neither, it        *)
(* compares what is left of the path, over the length of the element       *)
(* before, with the names of the children.  The lemmas say where the       *)
(* elements of a path stand in it, so that what the walk has left of it is *)
(* known at each, and when both come to the same child.                    *)
(***************************************************************************)

(***************************************************************************)
(* How the reference cuts a path: character by character, each either more *)
(* of the last element or the start of another one.                        *)
(***************************************************************************)
Cuttings == Seq(Strings) \ {<<>>}

LEMMA CutType ==
  ASSUME NEW es \in Cuttings, NEW c \in Chars \union {Slash}
  PROVE  Cut(es, c) \in Cuttings
<1>0. <<>> \in Strings
  BY DEF Strings
<1>1. /\ es \in Seq(Strings) /\ es # <<>> /\ Len(es) \in 1 .. Len(es)
      /\ Len(es) \in Nat
  BY EmptySeq, LenProperties DEF Cuttings
<1>2. Last(es) \in Strings
  BY <1>1, ElementOfSeq DEF Last
<1>3. Append(Last(es), c) \in Strings
  BY <1>2, AppendProperties DEF Strings
<1>4. CASE c # Slash
  <2> DEFINE r == Append(Front(es), Append(Last(es), c))
  <2>1. r \in Seq(Strings) /\ Len(r) = Len(es)
    BY <1>1, <1>3, TopSet
  <2>2. Cut(es, c) = r
    BY <1>4 DEF Cut
  <2> HIDE DEF r
  <2>3. r # <<>>
    BY <2>1, <1>1, EmptySeq
  <2> QED BY <2>1, <2>2, <2>3 DEF Cuttings
<1>5. CASE c = Slash /\ Last(es) = <<>>
  BY <1>5 DEF Cut
<1>6. CASE c = Slash /\ Last(es) # <<>>
  <2>1. Append(es, <<>>) \in Seq(Strings) /\ Append(es, <<>>) # <<>>
    BY <1>0, <1>1, AppendProperties
  <2> QED BY <2>1, <1>6 DEF Cut, Cuttings
<1> QED BY <1>4, <1>5, <1>6

CutsOf(p, f) ==
  /\ f \in [0 .. Len(p) -> Cuttings] /\ f[0] = << <<>> >>
  /\ \A j \in 1 .. Len(p) : f[j] = Cut(f[j - 1], p[j])
AllCut(p) == FoldLeft(Cut, << <<>> >>, p)

LEMMA CutTrace ==
  ASSUME NEW p \in Strings
  PROVE  \E f : CutsOf(p, f) /\ AllCut(p) = f[Len(p)]
<1> DEFINE n == Len(p)
           S == Cuttings
           b == << <<>> >>
           E == [x \in S \X (1 .. n) |-> Cut(x[1], p[x[2]])]
           IsFold(h) == h = [t \in SUBSET (DOMAIN p) |->
                               IF t = {} THEN << <<>> >>
                               ELSE Cut(h[t \ {Max(t)}], p[Max(t)])]
           h == CHOOSE x : IsFold(x)
<1>1. /\ n \in Nat /\ DOMAIN p = 1 .. n
      /\ \A j \in 1 .. n : p[j] \in Chars \union {Slash}
  BY ElementOfSeq DEF Strings
<1>2. b \in S
  <2>1. <<>> \in Strings
    BY DEF Strings
  <2> QED BY <2>1 DEF Cuttings
<1>21. E \in [S \X (1 .. n) -> S]
  <2>1. ASSUME NEW x \in S \X (1 .. n) PROVE Cut(x[1], p[x[2]]) \in S
    <3> HIDE DEF n
    <3>1. x[1] \in S /\ x[2] \in 1 .. n
      BY <2>1
    <3>2. p[x[2]] \in Chars \union {Slash}
      BY <1>1, <3>1
    <3> HIDE DEF S
    <3> QED BY <3>1, <3>2, CutType DEF S
  <2> HIDE DEF n, S
  <2> QED BY <2>1
<1>3. PICK g \in [SUBSET (1 .. n) -> S] : FoldedBy(g, n, b, E)
  <2> HIDE DEF E, n, S, b
  <2> QED BY <1>1, <1>2, <1>21, FoldExists
<1>4. ASSUME NEW g1, NEW t \in SUBSET (1 .. n), t # {}, g1[t \ {Max(t)}] \in S
      PROVE  Cut(g1[t \ {Max(t)}], p[Max(t)]) = E[<<g1[t \ {Max(t)}], Max(t)>>]
  <2>1. Max(t) \in 1 .. n
    <3> HIDE DEF n
    <3> QED BY <1>1, <1>4, MaxOfPlaces
  <2> QED BY <1>4, <2>1
<1>5. IsFold(g)
  <2>1. ASSUME NEW t \in SUBSET (1 .. n)
        PROVE  g[t] = IF t = {} THEN b ELSE Cut(g[t \ {Max(t)}], p[Max(t)])
    <3>1. CASE t = {}
      BY <1>3, <3>1 DEF FoldedBy
    <3>2. CASE t # {}
      <4> HIDE DEF E, n, S, b
      <4>1. t \ {Max(t)} \in SUBSET (1 .. n)
        OBVIOUS
      <4>2. g[t \ {Max(t)}] \in S
        BY <1>3, <4>1
      <4>3. g[t] = E[<<g[t \ {Max(t)}], Max(t)>>]
        BY <1>3, <3>2 DEF FoldedBy
      <4>4. Cut(g[t \ {Max(t)}], p[Max(t)]) = E[<<g[t \ {Max(t)}], Max(t)>>]
        BY <1>4, <3>2, <4>2
      <4> QED BY <3>2, <4>3, <4>4
    <3> QED BY <3>1, <3>2
  <2> HIDE DEF n
  <2> QED BY <1>1, <1>3, <2>1
<1>6. IsFold(h)
  <2> HIDE DEF IsFold
  <2> QED BY <1>5
<1>7. AllCut(p) = h[DOMAIN p]
  BY Zenon DEF AllCut, FoldLeft, MapThenFoldSet, Max
<1>8. FoldsIn(S, h, n, b, E)
  <2> HIDE DEF h, E, n, S
  <2>1. h[{}] = b
    <3>1. {} \in SUBSET (DOMAIN p)
      OBVIOUS
    <3> QED BY <1>6, <3>1
  <2>2. ASSUME NEW t \in SUBSET (1 .. n), t # {}, h[t \ {Max(t)}] \in S
        PROVE  h[t] = E[<<h[t \ {Max(t)}], Max(t)>>]
    <3>1. h[t] = Cut(h[t \ {Max(t)}], p[Max(t)])
      BY <1>1, <1>6, <2>2
    <3> QED BY <1>4, <2>2, <3>1
  <2> QED BY <2>1, <2>2 DEF FoldsIn
<1>9. PICK f \in [0 .. n -> S] : EndsTrace(f, h, n, b, E)
  <2> HIDE DEF h, E, n, S, b
  <2> QED BY <1>1, <1>2, <1>21, <1>8, FoldTrace
<1>10. CutsOf(p, f)
  <2>1. ASSUME NEW j \in 1 .. n PROVE f[j] = Cut(f[j - 1], p[j])
    <3> HIDE DEF n, E, h, S, b
    <3>1. j - 1 \in 0 .. n /\ f[j - 1] \in S
      BY <1>1, <1>9
    <3>2. f[j] = E[<<f[j - 1], j>>]
      BY <1>9 DEF EndsTrace, Trace
    <3> USE DEF E
    <3> QED BY <3>1, <3>2
  <2> QED BY <1>9, <2>1 DEF EndsTrace, Trace, CutsOf
<1> QED BY <1>1, <1>7, <1>9, <1>10 DEF EndsTrace

-----------------------------------------------------------------------------
(***************************************************************************)
(* How the reference goes down the tree: child by child.                   *)
(***************************************************************************)
Nodes == DOMAIN tree \union {NULL}

LEMMA ChildNamedType ==
  ASSUME TreeSound, NEW n \in Nodes, NEW e
  PROVE  ChildNamed(n, e) \in Nodes /\ (n = NULL => ChildNamed(n, e) = NULL)
<1>1. CASE n = NULL
  BY <1>1 DEF ChildNamed, Nodes
<1>2. CASE n # NULL
  <2> DEFINE cs == tree[n].children
             T == {i \in 1 .. Len(cs) : tree[cs[i]].name = e}
             i == IF T # {} THEN Min(T) ELSE 0
  <2>1. cs \in Seq(DOMAIN tree) /\ Len(cs) \in Nat
    BY <1>2 DEF TreeSound, Nodes
  <2>2. T # {} => Min(T) \in 1 .. Len(cs)
    BY <2>1, MinOfPlaces
  <2>3. ChildNamed(n, e) = IF i = 0 THEN NULL ELSE cs[i]
    BY <1>2 DEF ChildNamed, SelectInSeq
  <2>4. i # 0 => i \in 1 .. Len(cs)
    BY <2>2
  <2> HIDE DEF i, cs
  <2>5. i # 0 => cs[i] \in DOMAIN tree
    BY <2>1, <2>4, ElementOfSeq
  <2> QED BY <1>2, <2>3, <2>5 DEF Nodes
<1> QED BY <1>1, <1>2

WayOf(b, es, f) ==
  /\ f \in [0 .. Len(es) -> Nodes] /\ f[0] = b
  /\ \A j \in 1 .. Len(es) : f[j] = ChildNamed(f[j - 1], es[j])
Ends(b, es) == FoldLeft(ChildNamed, b, es)

LEMMA WayTrace ==
  ASSUME TreeSound, NEW b \in Nodes, NEW es \in Seq(Strings)
  PROVE  \E f : WayOf(b, es, f) /\ Ends(b, es) = f[Len(es)]
<1> DEFINE n == Len(es)
           S == Nodes
           E == [x \in S \X (1 .. n) |-> ChildNamed(x[1], es[x[2]])]
           IsFold(h) == h = [t \in SUBSET (DOMAIN es) |->
                               IF t = {} THEN b
                               ELSE ChildNamed(h[t \ {Max(t)}], es[Max(t)])]
           h == CHOOSE x : IsFold(x)
<1>1. n \in Nat /\ DOMAIN es = 1 .. n
  OBVIOUS
<1>21. E \in [S \X (1 .. n) -> S]
  <2>1. ASSUME NEW x \in S \X (1 .. n) PROVE ChildNamed(x[1], es[x[2]]) \in S
    <3> HIDE DEF n
    <3>1. x[1] \in S /\ x[2] \in 1 .. n
      BY <2>1
    <3> HIDE DEF S
    <3> QED BY <3>1, ChildNamedType DEF S
  <2> HIDE DEF n, S
  <2> QED BY <2>1
<1>3. PICK g \in [SUBSET (1 .. n) -> S] : FoldedBy(g, n, b, E)
  <2> HIDE DEF E, n
  <2> QED BY <1>1, <1>21, FoldExists
<1>4. ASSUME NEW g1, NEW t \in SUBSET (1 .. n), t # {}, g1[t \ {Max(t)}] \in S
      PROVE  ChildNamed(g1[t \ {Max(t)}], es[Max(t)])
               = E[<<g1[t \ {Max(t)}], Max(t)>>]
  <2>1. Max(t) \in 1 .. n
    <3> HIDE DEF n
    <3> QED BY <1>1, <1>4, MaxOfPlaces
  <2> QED BY <1>4, <2>1
<1>5. IsFold(g)
  <2>1. ASSUME NEW t \in SUBSET (1 .. n)
        PROVE  g[t] = IF t = {} THEN b
                      ELSE ChildNamed(g[t \ {Max(t)}], es[Max(t)])
    <3>1. CASE t = {}
      BY <1>3, <3>1 DEF FoldedBy
    <3>2. CASE t # {}
      <4> HIDE DEF E, n, S
      <4>1. t \ {Max(t)} \in SUBSET (1 .. n)
        OBVIOUS
      <4>2. g[t \ {Max(t)}] \in S
        BY <1>3, <4>1
      <4>3. g[t] = E[<<g[t \ {Max(t)}], Max(t)>>]
        BY <1>3, <3>2 DEF FoldedBy
      <4>4. ChildNamed(g[t \ {Max(t)}], es[Max(t)])
              = E[<<g[t \ {Max(t)}], Max(t)>>]
        BY <1>4, <3>2, <4>2
      <4> QED BY <3>2, <4>3, <4>4
    <3> QED BY <3>1, <3>2
  <2> HIDE DEF n
  <2> QED BY <1>1, <1>3, <2>1
<1>6. IsFold(h)
  <2> HIDE DEF IsFold
  <2> QED BY <1>5
<1>7. Ends(b, es) = h[DOMAIN es]
  BY Zenon DEF Ends, FoldLeft, MapThenFoldSet, Max
<1>8. FoldsIn(S, h, n, b, E)
  <2> HIDE DEF h, E, n, S
  <2>1. h[{}] = b
    <3>1. {} \in SUBSET (DOMAIN es)
      OBVIOUS
    <3> QED BY <1>6, <3>1
  <2>2. ASSUME NEW t \in SUBSET (1 .. n), t # {}, h[t \ {Max(t)}] \in S
        PROVE  h[t] = E[<<h[t \ {Max(t)}], Max(t)>>]
    <3>1. h[t] = ChildNamed(h[t \ {Max(t)}], es[Max(t)])
      BY <1>1, <1>6, <2>2
    <3> QED BY <1>4, <2>2, <3>1
  <2> QED BY <2>1, <2>2 DEF FoldsIn
<1>9. PICK f \in [0 .. n -> S] : EndsTrace(f, h, n, b, E)
  <2> HIDE DEF h, E, n
  <2> QED BY <1>1, <1>21, <1>8, FoldTrace
<1>10. WayOf(b, es, f)
  <2>1. ASSUME NEW j \in 1 .. n PROVE f[j] = ChildNamed(f[j - 1], es[j])
    <3> HIDE DEF n, E, h, S
    <3>1. j - 1 \in 0 .. n /\ f[j - 1] \in S
      BY <1>1, <1>9
    <3>2. f[j] = E[<<f[j - 1], j>>]
      BY <1>9 DEF EndsTrace, Trace
    <3> USE DEF E
    <3> QED BY <3>1, <3>2
  <2> QED BY <1>9, <2>1 DEF EndsTrace, Trace, WayOf
<1> QED BY <1>1, <1>7, <1>9, <1>10 DEF EndsTrace

\* The node that the first k elements name.
Named(b, es, k) == FoldLeft(ChildNamed, b, SubSeq(es, 1, k))

LEMMA NamedStepwise ==
  ASSUME TreeSound, NEW b \in Nodes, NEW es \in Seq(Strings)
  PROVE  /\ Named(b, es, 0) = b /\ Named(b, es, Len(es)) = Ends(b, es)
         /\ \A k \in 0 .. Len(es) : Named(b, es, k) \in Nodes
         /\ \A k \in 1 .. Len(es) :
              Named(b, es, k) = ChildNamed(Named(b, es, k - 1), es[k])
<1>1. PICK f : WayOf(b, es, f) /\ Ends(b, es) = f[Len(es)]
  BY WayTrace
<1> DEFINE n == Len(es)
<1>2. n \in Nat
  OBVIOUS
<1>3. /\ f \in [0 .. n -> Nodes] /\ f[0] = b
      /\ \A j \in 1 .. n : f[j] = ChildNamed(f[j - 1], es[j])
  BY <1>1 DEF WayOf
<1>4. ASSUME NEW k \in 0 .. n PROVE Named(b, es, k) = f[k]
  <2> DEFINE q == SubSeq(es, 1, k)
  <2>1. q \in Seq(Strings) /\ Len(q) = k /\ \A i \in 1 .. k : q[i] = es[i]
    <3>1. k \in Nat /\ k <= Len(es)
      BY <1>2
    <3> QED BY <3>1, StartOf
  <2> HIDE DEF q
  <2>2. PICK g : WayOf(b, q, g) /\ Ends(b, q) = g[Len(q)]
    BY <2>1, WayTrace
  <2>3. /\ g[0] = b /\ g[k] = Ends(b, q)
        /\ \A j \in 1 .. k : g[j] = ChildNamed(g[j - 1], es[j])
    BY <2>1, <2>2 DEF WayOf
  <2> DEFINE Good == {j \in 0 .. k : g[j] = f[j]}
  <2> HIDE DEF n
  <2>4. 0 \in Good
    BY <1>3, <2>3
  <2>5. ASSUME NEW m \in 0 .. k - 1, m \in Good PROVE m + 1 \in Good
    <3>1. m + 1 \in 1 .. k /\ m + 1 \in 1 .. n /\ (m + 1) - 1 = m
      BY <1>2
    <3>2. g[m + 1] = ChildNamed(g[m], es[m + 1])
      BY <2>3, <3>1
    <3>3. f[m + 1] = ChildNamed(f[m], es[m + 1])
      BY <1>3, <3>1
    <3>4. m + 1 \in 0 .. k
      BY <3>1
    <3> QED BY <2>5, <3>2, <3>3, <3>4
  <2> HIDE DEF Good
  <2>6. k \in Nat /\ k \in 0 .. k
    BY <1>2
  <2>7. k \in Good
    BY <2>4, <2>5, <2>6, InductUpTo
  <2>8. g[k] = f[k]
    BY <2>7 DEF Good
  <2> QED BY <2>3, <2>8 DEF q, Named, Ends
<1>5. 0 \in 0 .. n /\ n \in 0 .. n
  BY <1>2
<1>6. ASSUME NEW k \in 1 .. n
      PROVE  Named(b, es, k) = ChildNamed(Named(b, es, k - 1), es[k])
  <2> HIDE DEF n
  <2>1. k - 1 \in 0 .. n /\ k \in 0 .. n
    BY <1>2
  <2> QED BY <1>3, <1>4, <2>1
<1>7. \A k \in 0 .. n : Named(b, es, k) \in Nodes
  BY <1>3, <1>4
<1> QED BY <1>1, <1>3, <1>4, <1>5, <1>6, <1>7

-----------------------------------------------------------------------------
\* The slashes that a path begins with do not count.
LEMMA LeadingSlashes ==
  ASSUME NEW p \in Strings, NEW f, CutsOf(p, f)
  PROVE  LET q == NoSlashes(p)
         IN  /\ q \in Strings /\ (q # <<>> => q[1] # Slash)
             /\ \E g : CutsOf(q, g) /\ g[Len(q)] = f[Len(p)]
<1> DEFINE n == Len(p)
           T == {i \in 1 .. Len(p) : p[i] # Slash}
           i == IF T # {} THEN Min(T) ELSE 0
           q == NoSlashes(p)
<1>1. n \in Nat
  BY DEF Strings
<1>2. T # {} => Min(T) \in T /\ \A y \in T : Min(T) <= y
  BY <1>1, MinOfPlaces
<1>3. q = IF i = 0 THEN <<>> ELSE SubSeq(p, i, Len(p))
  BY DEF NoSlashes, SelectInSeq
<1>4. q \in Strings
  BY NoSlashesType
<1>5. /\ f \in [0 .. n -> Cuttings] /\ f[0] = << <<>> >>
      /\ \A j \in 1 .. n : f[j] = Cut(f[j - 1], p[j])
  BY DEF CutsOf
<1>6. /\ i = 0 => \A x \in 1 .. n : p[x] = Slash
      /\ i # 0 => /\ i \in 1 .. n /\ p[i] # Slash
                  /\ \A x \in 1 .. i - 1 : p[x] = Slash
  <2>1. CASE T = {}
    BY <2>1
  <2>2. CASE T # {}
    <3>1. i = Min(T) /\ i \in T
      BY <1>2, <2>2
    <3>2. \A y \in T : i <= y
      BY <1>2, <2>2, <3>1
    <3> HIDE DEF i
    <3>3. i \in 1 .. n /\ p[i] # Slash
      BY <3>1
    <3>4. ASSUME NEW x \in 1 .. i - 1 PROVE p[x] = Slash
      <4>1. x \in 1 .. n /\ ~ (i <= x)
        BY <1>1, <3>3
      <4>2. x \notin T
        BY <3>2, <4>1
      <4> QED BY <4>1, <4>2
    <3>5. i # 0
      BY <3>3
    <3> QED BY <3>3, <3>4, <3>5
  <2> QED BY <2>1, <2>2
<1> DEFINE s == IF i = 0 THEN n ELSE i - 1
<1> HIDE DEF i, q, T
<1>7. s \in 0 .. n /\ \A x \in 1 .. s : p[x] = Slash
  BY <1>1, <1>6
<1>8. /\ s + Len(q) = n /\ \A x \in 1 .. Len(q) : q[x] = p[s + x]
      /\ q # <<>> => q[1] # Slash
  <2>1. CASE i = 0
    BY <1>1, <1>3, <2>1
  <2>2. CASE i # 0
    <3>1. i \in 1 .. n /\ p[i] # Slash /\ s = i - 1
      BY <1>6, <2>2
    <3>2. q = SubSeq(p, i, n)
      BY <1>3, <2>2
    <3>3. Len(q) = n - i + 1 /\ \A x \in 1 .. n - i + 1 : q[x] = p[i + x - 1]
      <4>1. \A x \in i .. n : p[x] \in Chars \union {Slash}
        BY <3>1 DEF Strings
      <4> HIDE DEF n
      <4> QED BY <1>1, <3>1, <3>2, <4>1, SubSeqProperties
    <3>4. 1 \in 1 .. n - i + 1
      BY <1>1, <3>1
    <3>5. q[1] = p[i]
      BY <3>1, <3>3, <3>4
    <3> HIDE DEF n
    <3> QED BY <1>1, <3>1, <3>3, <3>5
  <2> QED BY <2>1, <2>2
<1> HIDE DEF s
<1>9. f[s] = << <<>> >>
  <2> DEFINE Good == {j \in 0 .. s : f[j] = << <<>> >>}
  <2>1. 0 \in Good
    BY <1>5, <1>7
  <2>2. ASSUME NEW m \in 0 .. s - 1, m \in Good PROVE m + 1 \in Good
    <3>1. m + 1 \in 1 .. s /\ m + 1 \in 1 .. n /\ (m + 1) - 1 = m
          /\ m + 1 \in 0 .. s
      BY <1>1, <1>7
    <3>2. f[m + 1] = Cut(f[m], p[m + 1])
      BY <1>5, <3>1
    <3>3. p[m + 1] = Slash /\ f[m] = << <<>> >>
      BY <1>7, <2>2, <3>1
    <3>4. f[m + 1] = f[m]
      BY <3>2, <3>3 DEF Cut, Last
    <3> QED BY <3>1, <3>3, <3>4
  <2> HIDE DEF Good, n
  <2>3. s \in Nat /\ s \in 0 .. s
    BY <1>1, <1>7
  <2>4. s \in Good
    BY <2>1, <2>2, <2>3, InductUpTo
  <2> QED BY <2>4 DEF Good
<1> DEFINE g == [j \in 0 .. Len(q) |-> f[s + j]]
<1>10. Len(q) \in Nat
  BY <1>4 DEF Strings
<1>11. CutsOf(q, g)
  <2> HIDE DEF n
  <2>1. \A j \in 0 .. Len(q) : s + j \in 0 .. n
    BY <1>1, <1>7, <1>8, <1>10
  <2>2. g \in [0 .. Len(q) -> Cuttings]
    BY <1>5, <2>1
  <2>3. g[0] = << <<>> >>
    BY <1>7, <1>9, <1>10, <1>1
  <2>4. ASSUME NEW j \in 1 .. Len(q) PROVE g[j] = Cut(g[j - 1], q[j])
    <3>1. /\ j - 1 \in 0 .. Len(q) /\ j \in 0 .. Len(q) /\ s + j \in 1 .. n
          /\ (s + j) - 1 = s + (j - 1)
      BY <1>1, <1>7, <1>8, <1>10
    <3>2. f[s + j] = Cut(f[s + (j - 1)], p[s + j])
      BY <1>5, <3>1
    <3> QED BY <1>8, <3>1, <3>2
  <2> HIDE DEF g
  <2> QED BY <2>2, <2>3, <2>4 DEF CutsOf
<1>12. g[Len(q)] = f[n]
  BY <1>8, <1>10
<1> HIDE DEF g, n
<1>13. /\ q \in Strings /\ (q # <<>> => q[1] # Slash)
       /\ \E g1 : CutsOf(q, g1) /\ g1[Len(q)] = f[n]
  BY <1>4, <1>8, <1>11, <1>12
<1> QED BY <1>13 DEF q, n

(***************************************************************************)
(* The elements of the first j characters of q and where they begin: the   *)
(* last one goes on, and each of the others is followed by a slash.        *)
(***************************************************************************)
Part(q, j, es, pos, k) ==
  /\ pos[k] \in 1 .. j + 1
  /\ \A x \in 1 .. Len(es[k]) :
       es[k][x] = q[pos[k] + x - 1] /\ es[k][x] # Slash
  /\ pos[k] + Len(es[k]) = IF k = Len(es) THEN j + 1 ELSE pos[k + 1] - 1
  /\ k # Len(es) => es[k] # <<>> /\ q[pos[k + 1] - 1] = Slash

PartsOf(q, j, es, pos) ==
  /\ pos \in Seq(Nat) /\ Len(pos) = Len(es) /\ pos[1] = 1
  /\ \A k \in 1 .. Len(es) : Part(q, j, es, pos, k)
  /\ Last(es) = <<>> => j = 0 \/ q[j] = Slash

LEMMA CuttingTyped ==
  ASSUME NEW es \in Cuttings
  PROVE  /\ es \in Seq(Strings) /\ es # <<>> /\ Len(es) \in Nat
         /\ Len(es) >= 1 /\ Last(es) = es[Len(es)]
         /\ \A k \in 1 .. Len(es) : es[k] \in Strings /\ Len(es[k]) \in Nat
<1>1. es \in Seq(Strings) /\ es # <<>> /\ Len(es) \in Nat
  BY DEF Cuttings
<1>2. Len(es) >= 1
  BY <1>1, EmptySeq
<1>3. \A k \in 1 .. Len(es) : es[k] \in Strings
  BY <1>1, ElementOfSeq
<1>4. \A s \in Strings : Len(s) \in Nat
  BY DEF Strings
<1> QED BY <1>1, <1>2, <1>3, <1>4 DEF Last

LEMMA PartGoesOn ==
  ASSUME NEW q \in Strings, NEW j \in 0 .. Len(q) - 1, NEW es \in Cuttings,
         NEW pos, PartsOf(q, j, es, pos), q[j + 1] # Slash
  PROVE  PartsOf(q, j + 1, Cut(es, q[j + 1]), pos)
<1> DEFINE c == q[j + 1]
           e == Append(Last(es), c)
           r == Append(Front(es), e)
           n == Len(es)
<1>1. /\ es \in Seq(Strings) /\ es # <<>> /\ n \in Nat /\ n >= 1
      /\ Last(es) = es[n]
      /\ \A k \in 1 .. n : es[k] \in Strings /\ Len(es[k]) \in Nat
  BY CuttingTyped
<1>2. Len(q) \in Nat /\ j \in Nat
  BY DEF Strings
<1>3. c \in Chars \union {Slash}
  <2>1. j + 1 \in 1 .. Len(q)
    BY <1>2
  <2> QED BY <2>1, ElementOfSeq DEF Strings
<1>4. /\ e \in Strings /\ Len(e) = Len(es[n]) + 1
      /\ \A x \in 1 .. Len(es[n]) : e[x] = es[n][x]
      /\ e[Len(es[n]) + 1] = c
  <2>1. Last(es) \in Seq(Chars \union {Slash})
    <3>1. n \in 1 .. n
      BY <1>1
    <3> QED BY <1>1, <3>1 DEF Strings
  <2> QED BY <1>1, <1>3, <2>1, AppendProperties DEF Strings
<1>5. Cut(es, c) = r
  BY DEF Cut
<1> HIDE DEF e
<1>6. /\ r \in Seq(Strings) /\ Len(r) = n
      /\ \A k \in 1 .. n : r[k] = IF k = n THEN e ELSE es[k]
  BY <1>1, <1>4, TopSet
<1>7. /\ pos \in Seq(Nat) /\ Len(pos) = n /\ pos[1] = 1
      /\ \A k \in 1 .. n : Part(q, j, es, pos, k)
  BY DEF PartsOf
<1> HIDE DEF r, n, c
<1>8. ASSUME NEW k \in 1 .. n PROVE Part(q, j + 1, r, pos, k)
  <2>1. /\ pos[k] \in 1 .. j + 1
        /\ \A x \in 1 .. Len(es[k]) :
             es[k][x] = q[pos[k] + x - 1] /\ es[k][x] # Slash
        /\ pos[k] + Len(es[k]) = IF k = n THEN j + 1 ELSE pos[k + 1] - 1
        /\ k # n => es[k] # <<>> /\ q[pos[k + 1] - 1] = Slash
    BY <1>7 DEF Part, n
  <2>2. pos[k] \in 1 .. (j + 1) + 1
    BY <1>2, <2>1
  <2>3. CASE k # n
    <3>1. r[k] = es[k]
      BY <1>6, <2>3
    <3> QED BY <1>6, <2>1, <2>2, <2>3, <3>1 DEF Part
  <2>4. CASE k = n
    <3>1. r[k] = e
      BY <1>6, <2>4
    <3>2. pos[k] + Len(es[n]) = j + 1
      BY <2>1, <2>4
    <3>3. Len(es[n]) \in Nat
      BY <1>1
    <3>4. ASSUME NEW x \in 1 .. Len(e)
          PROVE  e[x] = q[pos[k] + x - 1] /\ e[x] # Slash
      <4>1. CASE x = Len(es[n]) + 1
        <5>1. pos[k] + x - 1 = j + 1
          BY <1>2, <2>1, <3>2, <3>3, <4>1
        <5> QED BY <1>4, <4>1, <5>1 DEF c
      <4>2. CASE x # Len(es[n]) + 1
        <5>1. x \in 1 .. Len(es[n])
          BY <1>4, <3>3, <4>2
        <5> QED BY <1>4, <2>1, <2>4, <5>1
      <4> QED BY <4>1, <4>2
    <3>5. pos[k] + Len(e) = (j + 1) + 1
      <4>0. pos[k] \in Nat
        BY <1>2, <2>1
      <4>1. pos[k] \in Nat /\ Len(e) = Len(es[n]) + 1
        BY <1>4, <4>0
      <4> DEFINE l == Len(es[n])
                 m == Len(e)
                 at == pos[k]
      <4>2. at \in Nat /\ l \in Nat /\ j \in Nat /\ m = l + 1 /\ at + l = j + 1
        BY <1>2, <3>2, <3>3, <4>1
      <4> HIDE DEF l, m, at
      <4>3. at + m = (j + 1) + 1
        BY <4>2
      <4> QED BY <4>3 DEF at, m
    <3>6. /\ \A x \in 1 .. Len(r[k]) :
               r[k][x] = q[pos[k] + x - 1] /\ r[k][x] # Slash
          /\ pos[k] + Len(r[k]) = (j + 1) + 1
      <4> HIDE DEF Slash
      <4> QED BY <3>1, <3>4, <3>5
    <3>7. k = Len(r)
      BY <1>6, <2>4
    <3> QED BY <2>2, <3>6, <3>7 DEF Part
  <2> QED BY <2>3, <2>4
<1>9. Last(r) # <<>>
  <2>1. Last(r) = e
    BY <1>1, <1>6 DEF Last
  <2>2. Len(e) # 0
    <3>1. Len(es[n]) \in Nat
      BY <1>1
    <3> QED BY <3>1, <1>4
  <2>3. e # <<>>
    BY <2>2, <1>4, EmptySeq DEF Strings
  <2> QED BY <2>1, <2>3
<1>10. PartsOf(q, j + 1, r, pos)
  BY <1>6, <1>7, <1>8, <1>9 DEF PartsOf
<1> QED BY <1>5, <1>10 DEF c

LEMMA PartEnds ==
  ASSUME NEW q \in Strings, NEW j \in 0 .. Len(q) - 1, NEW es \in Cuttings,
         NEW pos, PartsOf(q, j, es, pos), q[j + 1] = Slash, Last(es) # <<>>
  PROVE  PartsOf(q, j + 1, Cut(es, q[j + 1]), Append(pos, j + 2))
<1> DEFINE r == Append(es, <<>>)
           n == Len(es)
           at == Append(pos, j + 2)
<1>1. /\ es \in Seq(Strings) /\ es # <<>> /\ n \in Nat /\ n >= 1
      /\ Last(es) = es[n]
      /\ \A k \in 1 .. n : es[k] \in Strings /\ Len(es[k]) \in Nat
  BY CuttingTyped
<1>2. Len(q) \in Nat /\ j \in Nat
  BY DEF Strings
<1>3. <<>> \in Strings
  BY DEF Strings
<1>4. /\ r \in Seq(Strings) /\ Len(r) = n + 1
      /\ \A k \in 1 .. n + 1 : r[k] = IF k = n + 1 THEN <<>> ELSE es[k]
  BY <1>1, <1>3, Pushed
<1>5. Cut(es, q[j + 1]) = r
  BY DEF Cut
<1>6. /\ pos \in Seq(Nat) /\ Len(pos) = n /\ pos[1] = 1
      /\ \A k \in 1 .. n : Part(q, j, es, pos, k)
  BY DEF PartsOf
<1>7. /\ at \in Seq(Nat) /\ Len(at) = n + 1
      /\ \A k \in 1 .. n + 1 : at[k] = IF k = n + 1 THEN j + 2 ELSE pos[k]
  <2>1. j + 2 \in Nat
    BY <1>2
  <2> QED BY <1>6, <2>1, Pushed
<1> HIDE DEF r, n, at
<1>8. ASSUME NEW k \in 1 .. n + 1 PROVE Part(q, j + 1, r, at, k)
  <2>1. CASE k = n + 1
    <3>1. r[k] = <<>> /\ at[k] = j + 2
      BY <1>4, <1>7, <2>1
    <3>2. at[k] \in 1 .. (j + 1) + 1 /\ at[k] + 0 = (j + 1) + 1
      BY <1>2, <3>1
    <3>3. Len(r[k]) = 0 /\ 1 .. Len(r[k]) = {}
      BY <3>1, EmptySeq
    <3> QED BY <1>4, <2>1, <3>2, <3>3 DEF Part
  <2>2. CASE k # n + 1
    <3>0. k \in 1 .. n /\ k + 1 \in 1 .. n + 1
      BY <1>1, <2>2
    <3>1. r[k] = es[k] /\ at[k] = pos[k]
      BY <1>4, <1>7, <2>2
    <3>2. /\ pos[k] \in 1 .. j + 1
          /\ \A x \in 1 .. Len(es[k]) :
               es[k][x] = q[pos[k] + x - 1] /\ es[k][x] # Slash
          /\ pos[k] + Len(es[k]) = IF k = n THEN j + 1 ELSE pos[k + 1] - 1
          /\ k # n => es[k] # <<>> /\ q[pos[k + 1] - 1] = Slash
      BY <1>6, <3>0 DEF Part, n
    <3>3. at[k] \in 1 .. (j + 1) + 1
      BY <1>2, <3>1, <3>2
    <3>4. /\ at[k] + Len(r[k]) = at[k + 1] - 1
          /\ r[k] # <<>> /\ q[at[k + 1] - 1] = Slash
      <4>1. CASE k = n
        <5>1. at[k + 1] = j + 2
          BY <1>1, <1>7, <3>0, <4>1
        <5>2. at[k + 1] - 1 = j + 1
          BY <1>2, <5>1
        <5>3. es[k] # <<>>
          BY <1>1, <4>1
        <5> QED BY <3>1, <3>2, <4>1, <5>2, <5>3
      <4>2. CASE k # n
        <5>1. at[k + 1] = pos[k + 1]
          BY <1>1, <1>7, <3>0, <4>2
        <5> QED BY <3>1, <3>2, <4>2, <5>1
      <4> QED BY <4>1, <4>2
    <3> QED BY <1>4, <2>2, <3>1, <3>2, <3>3, <3>4 DEF Part
  <2> QED BY <2>1, <2>2
<1>9. at[1] = 1
  BY <1>1, <1>6, <1>7
<1>10. PartsOf(q, j + 1, r, at)
  BY <1>4, <1>7, <1>8, <1>9 DEF PartsOf
<1> QED BY <1>5, <1>10 DEF at

\* A slash of q stands alone and does not end it.
Alone(q) ==
  \A i \in 1 .. Len(q) : q[i] = Slash => i < Len(q) /\ q[i + 1] # Slash

LEMMA PartsFound ==
  ASSUME NEW q \in Strings, q # <<>> => q[1] # Slash, Alone(q),
         NEW g, CutsOf(q, g)
  PROVE  \A j \in 0 .. Len(q) : \E pos : PartsOf(q, j, g[j], pos)
<1>1. Len(q) \in Nat
  BY DEF Strings
<1>2. /\ g \in [0 .. Len(q) -> Cuttings] /\ g[0] = << <<>> >>
      /\ \A j \in 1 .. Len(q) : g[j] = Cut(g[j - 1], q[j])
  BY DEF CutsOf
<1> DEFINE Good == {j \in 0 .. Len(q) : \E pos : PartsOf(q, j, g[j], pos)}
<1>3. 0 \in Good
  <2>1. PartsOf(q, 0, << <<>> >>, <<1>>)
    <3>1. Part(q, 0, << <<>> >>, <<1>>, 1)
      <4>1. 1 .. 0 = {}
        OBVIOUS
      <4> QED BY <4>1 DEF Part
    <3> QED BY <3>1 DEF PartsOf, Last
  <2> QED BY <1>1, <1>2, <2>1
<1>4. ASSUME NEW m \in 0 .. Len(q) - 1, m \in Good PROVE m + 1 \in Good
  <2>1. /\ m + 1 \in 1 .. Len(q) /\ m + 1 \in 0 .. Len(q) /\ (m + 1) - 1 = m
        /\ m \in 0 .. Len(q)
    BY <1>1
  <2>2. g[m + 1] = Cut(g[m], q[m + 1]) /\ g[m] \in Cuttings
    BY <1>2, <2>1
  <2>3. PICK pos : PartsOf(q, m, g[m], pos)
    BY <1>4
  <2>4. CASE q[m + 1] # Slash
    <3>1. PartsOf(q, m + 1, Cut(g[m], q[m + 1]), pos)
      BY <2>2, <2>3, <2>4, PartGoesOn
    <3> QED BY <2>1, <2>2, <3>1
  <2>5. CASE q[m + 1] = Slash
    <3>1. q # <<>>
      BY <1>1, <2>1
    <3>2. m # 0
      BY <2>5, <3>1
    <3>3. q[m] # Slash
      <4>1. m \in 1 .. Len(q)
        BY <2>1, <3>2
      <4> QED BY <2>5, <4>1 DEF Alone
    <3>4. Last(g[m]) # <<>>
      BY <2>3, <3>2, <3>3 DEF PartsOf
    <3>5. PartsOf(q, m + 1, Cut(g[m], q[m + 1]), Append(pos, m + 2))
      BY <2>2, <2>3, <2>5, <3>4, PartEnds
    <3> QED BY <2>1, <2>2, <3>5
  <2> QED BY <2>4, <2>5
<1> HIDE DEF Good
<1>5. \A m \in 0 .. Len(q) : m \in Good
  BY <1>1, <1>3, <1>4, InductUpTo
<1> QED BY <1>5 DEF Good

(***************************************************************************)
(* The elements of a path whose slashes stand alone: each begins where it  *)
(* is said to, and together with the slashes between them they are all of  *)
(* the path but the slashes it begins with.                                *)
(***************************************************************************)
ElementsAt(p, pos) ==
  /\ PartsOf(NoSlashes(p), Len(NoSlashes(p)), Elements(p), pos)
  /\ Last(Elements(p)) # <<>>

LEMMA RegularElements ==
  ASSUME NEW p \in Strings, Regular(p)
  PROVE  /\ Elements(p) \in Seq(Strings)
         /\ Elements(p) = <<>> <=> NoSlashes(p) = <<>>
         /\ Elements(p) # <<>> => \E pos : ElementsAt(p, pos)
<1> DEFINE q == NoSlashes(p)
<1>1. PICK f : CutsOf(p, f) /\ AllCut(p) = f[Len(p)]
  BY CutTrace
<1>2. /\ q \in Strings /\ (q # <<>> => q[1] # Slash)
      /\ \E g : CutsOf(q, g) /\ g[Len(q)] = f[Len(p)]
  BY <1>1, LeadingSlashes
<1>3. PICK g : CutsOf(q, g) /\ g[Len(q)] = f[Len(p)]
  BY <1>2
<1>4. Alone(q)
  BY DEF Regular, Alone
<1> DEFINE es == g[Len(q)]
<1>5. Elements(p) = IF Last(es) = <<>> THEN Front(es) ELSE es
  BY <1>1, <1>3 DEF Elements, AllCut
<1>6. Len(q) \in Nat
  BY <1>2 DEF Strings
<1> HIDE DEF q
<1>7. PICK pos : PartsOf(q, Len(q), es, pos)
  <2>1. Len(q) \in 0 .. Len(q)
    BY <1>6
  <2> QED BY <1>2, <1>3, <1>4, <2>1, PartsFound
<1>8. CASE q = <<>>
  <2>1. Len(q) = 0
    BY <1>8
  <2>2. es = << <<>> >>
    BY <1>3, <2>1 DEF CutsOf
  <2> HIDE DEF es
  <2>3. Last(es) = <<>> /\ Front(es) = <<>>
    BY <2>2 DEF Last, Front
  <2>4. Elements(p) = <<>>
    BY <1>5, <2>3
  <2> QED BY <1>8, <2>4, EmptySeq DEF q
<1>9. CASE q # <<>>
  <2>1. Len(q) # 0
    BY <1>2, <1>9, EmptySeq DEF Strings
  <2>2. es \in Cuttings
    BY <1>3, <1>6 DEF CutsOf
  <2> HIDE DEF es
  <2>3. Last(es) # <<>>
    <3> SUFFICES ASSUME Last(es) = <<>> PROVE FALSE
      OBVIOUS
    <3>1. q[Len(q)] = Slash
      BY <1>7, <2>1 DEF PartsOf
    <3>2. Len(q) \in 1 .. Len(q) /\ ~ (Len(q) < Len(q))
      BY <1>6, <2>1
    <3> QED BY <1>4, <3>1, <3>2 DEF Alone
  <2>4. Elements(p) = es
    BY <1>5, <2>3
  <2>5. es \in Seq(Strings) /\ es # <<>>
    BY <2>2 DEF Cuttings
  <2> QED BY <1>7, <1>9, <2>3, <2>4, <2>5 DEF ElementsAt, q
<1> QED BY <1>8, <1>9

\* Where the first slash is, or that there is none.
LEMMA ElemLenIs ==
  ASSUME NEW s \in Strings, NEW l \in Nat, l <= Len(s),
         \A x \in 1 .. l : s[x] # Slash, l < Len(s) => s[l + 1] = Slash
  PROVE  ElemLen(s) = l
<1> DEFINE T == {i \in 1 .. Len(s) : s[i] = Slash}
<1>1. Len(s) \in Nat
  BY DEF Strings
<1>2. T # {} => Min(T) \in T /\ \A y \in T : Min(T) <= y
  BY <1>1, MinOfPlaces
<1>3. ElemLen(s) = LET i == IF T # {} THEN Min(T) ELSE 0
                   IN  IF i = 0 THEN Len(s) ELSE i - 1
  BY DEF ElemLen, SelectInSeq
<1>4. CASE l < Len(s)
  <2>1. l + 1 \in T
    BY <1>1, <1>4
  <2>2. T # {}
    BY <2>1
  <2> DEFINE i == Min(T)
  <2>3. i \in T /\ i <= l + 1
    BY <1>2, <2>1, <2>2
  <2>4. i \in 1 .. Len(s) /\ s[i] = Slash
    BY <2>3
  <2> HIDE DEF i
  <2>5. ~ (i \in 1 .. l)
    BY <2>4
  <2>6. i = l + 1
    BY <1>1, <2>3, <2>4, <2>5
  <2>7. (IF T # {} THEN Min(T) ELSE 0) = i
    BY <2>2 DEF i
  <2> HIDE DEF T
  <2> QED BY <1>3, <2>6, <2>7
<1>5. CASE l = Len(s)
  <2>1. T = {}
    BY <1>5
  <2> QED BY <1>3, <1>5, <2>1
<1> QED BY <1>1, <1>4, <1>5

\* What is left of a string from place m on.
From(s, m) == SubSeq(s, m, Len(s))

LEMMA FromFacts ==
  ASSUME NEW s \in Strings, NEW m \in 1 .. Len(s) + 1
  PROVE  /\ From(s, m) \in Strings /\ Len(From(s, m)) = Len(s) + 1 - m
         /\ \A x \in 1 .. Len(s) + 1 - m : From(s, m)[x] = s[m + x - 1]
<1> DEFINE n == Len(s)
           r == SubSeq(s, m, n)
<1>1. n \in Nat /\ \A i \in m .. n : s[i] \in Chars \union {Slash}
  <2>1. Len(s) \in Nat
    BY DEF Strings
  <2>2. \A i \in m .. n : i \in 1 .. n
    BY <2>1
  <2> QED BY <2>1, <2>2, ElementOfSeq DEF Strings
<1> HIDE DEF n, Slash
<1>2. m \in Int /\ n \in Int
  BY <1>1
<1>3. /\ r \in Seq(Chars \union {Slash})
      /\ Len(r) = IF m <= n THEN n - m + 1 ELSE 0
      /\ \A x \in 1 .. n - m + 1 : r[x] = s[m + x - 1]
  BY <1>1, <1>2, SubSeqProperties
<1> HIDE DEF r
<1>4. m \in 1 .. n + 1
  BY DEF n
<1>5. n - m + 1 = n + 1 - m /\ (~ (m <= n) => n + 1 - m = 0)
  BY <1>1, <1>4
<1>6. Len(r) = n + 1 - m
  BY <1>1, <1>3, <1>4, <1>5
<1> QED BY <1>3, <1>5, <1>6 DEF n, r, From, Strings

LEMMA FromFrom ==
  ASSUME NEW s \in Strings, NEW m \in 1 .. Len(s) + 1,
         NEW k \in 1 .. Len(s) + 2 - m
  PROVE  From(From(s, m), k) = From(s, m + k - 1)
<1> DEFINE n == Len(s)
           r == From(s, m)
           u == From(r, k)
           v == From(s, m + k - 1)
<1>1. n \in Nat
  BY DEF Strings
<1>2. /\ r \in Strings /\ Len(r) = n + 1 - m
      /\ \A x \in 1 .. n + 1 - m : r[x] = s[m + x - 1]
  BY FromFacts
<1> HIDE DEF r, n
<1>3. m \in 1 .. n + 1 /\ k \in 1 .. n + 2 - m
  BY DEF n
<1>4. k \in 1 .. Len(r) + 1 /\ m + k - 1 \in 1 .. n + 1
  BY <1>1, <1>2, <1>3
<1>5. /\ u \in Strings /\ Len(u) = Len(r) + 1 - k
      /\ \A x \in 1 .. Len(r) + 1 - k : u[x] = r[k + x - 1]
  BY <1>2, <1>4, FromFacts
<1>6. /\ v \in Strings /\ Len(v) = n + 1 - (m + k - 1)
      /\ \A x \in 1 .. n + 1 - (m + k - 1) : v[x] = s[m + k - 1 + x - 1]
  BY <1>4, FromFacts DEF n
<1> HIDE DEF u, v
<1>7. Len(u) = Len(v)
  BY <1>1, <1>2, <1>3, <1>5, <1>6
<1>8. ASSUME NEW x \in 1 .. Len(u) PROVE u[x] = v[x]
  <2>1. k + x - 1 \in 1 .. n + 1 - m /\ x \in 1 .. n + 1 - (m + k - 1)
    BY <1>1, <1>2, <1>3, <1>5, <1>6
  <2>2. u[x] = s[m + (k + x - 1) - 1]
    BY <1>2, <1>5, <2>1
  <2>3. v[x] = s[m + k - 1 + x - 1]
    BY <1>6, <2>1
  <2>4. m + (k + x - 1) - 1 = m + k - 1 + x - 1
    BY <1>3, <2>1
  <2> QED BY <2>2, <2>3, <2>4
<1>9. u = v
  BY <1>5, <1>6, <1>7, <1>8, SeqEqual DEF Strings
<1> QED BY <1>9 DEF u, v, r

(***************************************************************************)
(* What walk_path has left of the path when it comes to the k-th element:  *)
(* next_elem finds the element's end, and after it the next one.           *)
(***************************************************************************)
Rest(p, pos, k) == From(NoSlashes(p), pos[k])

LEMMA RestFacts ==
  ASSUME NEW p \in Strings, Elements(p) \in Seq(Strings), Elements(p) # <<>>,
         NEW pos, ElementsAt(p, pos), NEW k \in 1 .. Len(Elements(p))
  PROVE  LET es == Elements(p)
             s == Rest(p, pos, k)
         IN  /\ s \in Strings /\ ElemLen(s) = Len(es[k])
             /\ Len(es[k]) \in Nat /\ Len(es[k]) <= Len(s)
             /\ \A x \in 1 .. Len(es[k]) : s[x] = es[k][x]
             /\ HasNext(s) <=> k < Len(es)
             /\ k < Len(es) => After(s) = Rest(p, pos, k + 1)
             /\ k = Len(es) => s = es[k]
             /\ k = 1 => s = NoSlashes(p)
<1> DEFINE es == Elements(p)
           n == Len(es)
           q == NoSlashes(p)
           s == Rest(p, pos, k)
           l == Len(es[k])
<1>1. es \in Cuttings
  BY DEF Cuttings
<1>2. /\ n \in Nat /\ n >= 1
      /\ \A i \in 1 .. n : es[i] \in Strings /\ Len(es[i]) \in Nat
  BY <1>1, CuttingTyped
<1>3. q \in Strings /\ Len(q) \in Nat
  <2>1. q \in Strings
    BY NoSlashesType
  <2> HIDE DEF q
  <2> QED BY <2>1 DEF Strings
<1>4. PartsOf(q, Len(q), es, pos)
  BY DEF ElementsAt
<1> HIDE DEF es, q
<1>5. /\ pos \in Seq(Nat) /\ Len(pos) = n /\ pos[1] = 1
      /\ \A i \in 1 .. n : Part(q, Len(q), es, pos, i)
  BY <1>4 DEF PartsOf
<1>6. k \in 1 .. n
  BY DEF es
<1> HIDE DEF n
<1>7. /\ pos[k] \in 1 .. Len(q) + 1
      /\ \A x \in 1 .. l : es[k][x] = q[pos[k] + x - 1] /\ es[k][x] # Slash
      /\ pos[k] + l = IF k = n THEN Len(q) + 1 ELSE pos[k + 1] - 1
      /\ k # n => es[k] # <<>> /\ q[pos[k + 1] - 1] = Slash
  BY <1>5, <1>6 DEF Part, n
<1>8. k # n => pos[k + 1] \in 1 .. Len(q) + 1
  <2> SUFFICES ASSUME k # n PROVE pos[k + 1] \in 1 .. Len(q) + 1
    OBVIOUS
  <2>1. k + 1 \in 1 .. n
    BY <1>2, <1>6
  <2> QED BY <1>5, <2>1 DEF Part
<1>9. es[k] \in Strings /\ l \in Nat
  BY <1>2, <1>6
<1> DEFINE at == pos[k]
           m == Len(q)
<1>10. /\ s \in Strings /\ Len(s) = m + 1 - at
       /\ \A x \in 1 .. m + 1 - at : s[x] = q[at + x - 1]
  <2>1. s = From(q, at)
    BY DEF Rest, q
  <2>2. at \in 1 .. Len(q) + 1
    BY <1>7
  <2> HIDE DEF at, s
  <2> QED BY <1>3, <2>1, <2>2, FromFacts
<1> HIDE DEF s, l
<1>11. /\ at \in 1 .. m + 1 /\ m \in Nat
       /\ k = n => at + l = m + 1
       /\ k # n => at + l = pos[k + 1] - 1 /\ pos[k + 1] \in 1 .. m + 1
  BY <1>3, <1>7, <1>8
<1> HIDE DEF at, m
<1>12. /\ l <= Len(s) /\ (k = n => l = Len(s)) /\ (k # n => l < Len(s))
  <2>1. CASE k = n
    <3>1. at + l = m + 1 /\ Len(s) = m + 1 - at
      BY <1>10, <1>11, <2>1
    <3>2. at \in Nat /\ m \in Nat /\ l \in Nat
      BY <1>9, <1>11
    <3>3. l = Len(s)
      BY <3>1, <3>2
    <3> QED BY <2>1, <3>2, <3>3
  <2>2. CASE k # n
    <3>1. at + l <= m
      <4> DEFINE b == pos[k + 1]
      <4>1. at + l = b - 1 /\ b \in 1 .. m + 1
        BY <1>11, <2>2
      <4> HIDE DEF b
      <4> QED BY <4>1, <1>11
    <3> QED BY <1>9, <1>10, <1>11, <2>2, <3>1
  <2> QED BY <2>1, <2>2
<1>13. ASSUME NEW x \in 1 .. l PROVE s[x] = es[k][x] /\ s[x] # Slash
  <2>1. x \in 1 .. m + 1 - at
    BY <1>9, <1>10, <1>11, <1>12
  <2>2. s[x] = q[at + x - 1]
    BY <1>10, <2>1
  <2>3. es[k][x] = q[at + x - 1] /\ es[k][x] # Slash
    BY <1>7 DEF l, at
  <2> QED BY <2>2, <2>3
<1>14. ASSUME l < Len(s) PROVE s[l + 1] = Slash
  <2>1. k # n
    BY <1>9, <1>12, <1>14, <1>10, <1>11
  <2>2. l + 1 \in 1 .. m + 1 - at
    BY <1>9, <1>10, <1>11, <1>14
  <2>3. s[l + 1] = q[at + (l + 1) - 1]
    BY <1>10, <2>2
  <2>4. at + (l + 1) - 1 = at + l
    BY <1>9, <1>11
  <2>5. at + l = pos[k + 1] - 1 /\ q[pos[k + 1] - 1] = Slash
    BY <1>7, <1>11, <2>1
  <2> QED BY <2>3, <2>4, <2>5
<1>15. ElemLen(s) = l
  BY <1>9, <1>10, <1>12, <1>13, <1>14, ElemLenIs
<1>16. HasNext(s) <=> k < n
  <2>1. HasNext(s) <=> l < Len(s)
    BY <1>15 DEF HasNext
  <2>2. l < Len(s) <=> k # n
    BY <1>9, <1>10, <1>11, <1>12
  <2> QED BY <1>2, <1>6, <2>1, <2>2
<1>17. ASSUME k < n PROVE After(s) = Rest(p, pos, k + 1)
  <2>1. k # n
    BY <1>2, <1>6, <1>17
  <2> DEFINE b == pos[k + 1]
  <2>2. at + l = b - 1 /\ b \in 1 .. m + 1
    BY <1>11, <2>1
  <2> HIDE DEF b
  <2>3. l + 2 \in 1 .. m + 2 - at /\ at + (l + 2) - 1 = b
    BY <1>9, <1>11, <2>2
  <2>4. After(s) = From(s, l + 2)
    BY <1>15 DEF After, From
  <2>5. s = From(q, at)
    BY DEF s, Rest, q, at
  <2>6. From(From(q, at), l + 2) = From(q, at + (l + 2) - 1)
    BY <1>3, <1>11, <2>3, FromFrom DEF m
  <2>7. Rest(p, pos, k + 1) = From(q, b)
    BY DEF Rest, q, b
  <2> QED BY <2>3, <2>4, <2>5, <2>6, <2>7
<1>18. ASSUME k = n PROVE s = es[k]
  <2>1. Len(s) = Len(es[k])
    BY <1>12, <1>18 DEF l
  <2>2. \A x \in 1 .. Len(s) : s[x] = es[k][x]
    BY <1>13, <2>1 DEF l
  <2> QED BY <1>9, <1>10, <2>1, <2>2, SeqEqual DEF Strings
<1>19. ASSUME k = 1 PROVE s = q
  <2>1. at = 1
    BY <1>5, <1>19 DEF at
  <2>2. Len(s) = Len(q)
    BY <1>10, <1>11, <2>1 DEF m
  <2>3. ASSUME NEW x \in 1 .. Len(s) PROVE s[x] = q[x]
    <3>1. x \in 1 .. m + 1 - at /\ at + x - 1 = x
      BY <1>10, <1>11, <2>1
    <3> QED BY <1>10, <3>1
  <2> QED BY <1>3, <1>10, <2>2, <2>3, SeqEqual DEF Strings
<1> QED BY <1>9, <1>10, <1>12, <1>13, <1>15, <1>16, <1>17, <1>18, <1>19
        DEF es, n, q, s, l

-----------------------------------------------------------------------------
\* How strncmp compares.
LEMMA TakeAll == ASSUME NEW e \in Strings PROVE Take(e, Len(e)) = e
<1> DEFINE n == Len(e)
           q == SubSeq(e, 1, n)
<1>1. n \in Nat /\ n <= n
  BY DEF Strings
<1>2. Take(e, n) = q
  BY <1>1 DEF Take
<1>3. /\ q \in Seq(Chars \union {Slash}) /\ Len(q) = n
      /\ \A i \in 1 .. n : q[i] = e[i]
  <2>1. e \in Seq(Chars \union {Slash}) /\ n <= Len(e)
    BY <1>1 DEF Strings
  <2> HIDE DEF Slash, n
  <2> QED BY <1>1, <2>1, StartOf
<1> HIDE DEF q
<1>4. q = e
  BY <1>3, SeqEqual DEF Strings
<1> QED BY <1>2, <1>4

LEMMA TakeOfPart ==
  ASSUME NEW e \in Strings, NEW s \in Strings, Len(e) <= Len(s),
         \A x \in 1 .. Len(e) : s[x] = e[x], NEW l \in Nat, l <= Len(e)
  PROVE  Take(s, l) = Take(e, l)
<1>1. Len(e) \in Nat /\ Len(s) \in Nat
  BY DEF Strings
<1>2. (l < Len(e) \/ l = Len(e)) /\ (l < Len(s) \/ l = Len(s))
  BY <1>1
<1>3. Take(s, l) = SubSeq(s, 1, l) /\ Take(e, l) = SubSeq(e, 1, l)
  BY <1>1, <1>2 DEF Take
<1> DEFINE u == SubSeq(s, 1, l)
           v == SubSeq(e, 1, l)
<1>4. /\ u \in Seq(Chars \union {Slash}) /\ Len(u) = l
      /\ \A i \in 1 .. l : u[i] = s[i]
      /\ v \in Seq(Chars \union {Slash}) /\ Len(v) = l
      /\ \A i \in 1 .. l : v[i] = e[i]
  <2>1. s \in Seq(Chars \union {Slash}) /\ e \in Seq(Chars \union {Slash})
    BY DEF Strings
  <2>2. l <= Len(s)
    BY <1>1
  <2> HIDE DEF Slash
  <2> QED BY <2>1, <2>2, StartOf
<1> HIDE DEF u, v
<1>5. \A i \in 1 .. l : u[i] = v[i]
  <2>1. \A i \in 1 .. l : i \in 1 .. Len(e)
    BY <1>1
  <2> QED BY <1>4, <2>1
<1>6. u = v
  BY <1>4, <1>5, SeqEqual
<1> QED BY <1>3, <1>6 DEF u, v

-----------------------------------------------------------------------------
\* The child that the walk stops at is the one that is named.
Begins(n, s, l) ==
  {i \in 1 .. Len(tree[n].children) :
     SameStart(tree[tree[n].children[i]].name, s, l)}
Bears(n, e) ==
  {i \in 1 .. Len(tree[n].children) : tree[tree[n].children[i]].name = e}

LEMMA ChildIsNamed ==
  ASSUME TreeSound, NEW n \in DOMAIN tree, NEW s, NEW l, NEW e,
         Begins(n, s, l) = Bears(n, e)
  PROVE  Child(n, s, l) = ChildNamed(n, e)
<1> DEFINE cs == tree[n].children
           T == Begins(n, s, l)
           N == Bears(n, e)
           i == IF T # {} THEN Min(T) ELSE 0
           j == IF N # {} THEN Min(N) ELSE 0
<1>1. n # NULL
  BY DEF TreeSound
<1>2. Child(n, s, l) = IF i = 0 THEN NULL ELSE cs[i]
  BY DEF Child, SelectInSeq, Begins
<1>3. ChildNamed(n, e) = IF j = 0 THEN NULL ELSE cs[j]
  BY <1>1 DEF ChildNamed, SelectInSeq, Bears
<1>4. i = j
  OBVIOUS
<1> HIDE DEF i, j, cs
<1> QED BY <1>2, <1>3, <1>4

LEMMA ChildBears ==
  ASSUME TreeSound, NEW n \in Nodes, NEW e, ChildNamed(n, e) # NULL
  PROVE  n \in DOMAIN tree /\ Bears(n, e) # {}
<1>1. n # NULL /\ n \in DOMAIN tree
  BY ChildNamedType DEF Nodes
<1> DEFINE N == Bears(n, e)
           j == IF N # {} THEN Min(N) ELSE 0
<1>2. ChildNamed(n, e) = IF j = 0 THEN NULL ELSE tree[n].children[j]
  BY <1>1 DEF ChildNamed, SelectInSeq, Bears
<1>3. j # 0
  BY <1>2
<1> QED BY <1>1, <1>3

LEMMA NoChild ==
  ASSUME TreeSound, NEW n \in DOMAIN tree, tree[n].children = <<>>,
         NEW s, NEW l, NEW e
  PROVE  Child(n, s, l) = NULL /\ ChildNamed(n, e) = NULL
<1>1. 1 .. Len(tree[n].children) = {}
  OBVIOUS
<1>2. Begins(n, s, l) = {} /\ Bears(n, e) = {}
  BY <1>1 DEF Begins, Bears
<1>3. Child(n, s, l) = ChildNamed(n, e)
  BY <1>2, ChildIsNamed
<1>4. ChildNamed(n, e) = NULL
  <2>1. n \in Nodes
    BY DEF Nodes
  <2> QED BY <1>2, <2>1, ChildBears
<1> QED BY <1>3, <1>4

-----------------------------------------------------------------------------
(***************************************************************************)
(* A path is clear if, at each node that its elements name, the walk stops *)
(* at the child that the next one names, and none of the nodes is a link.  *)
(***************************************************************************)
At(dir, p, k) == Named(Start(dir, p), Elements(p), k - 1)
Length(p, k) == Len(Elements(p)[IF k = 1 THEN 1 ELSE k - 1])
Turn(dir, p, pos, k) ==
  /\ tree[At(dir, p, k)].type # "VFS_SYM"
  /\ Child(At(dir, p, k), Rest(p, pos, k), Length(p, k)) = At(dir, p, k + 1)

Usual(p) == Regular(p) /\ (Elements(p) = <<>> => p = <<>>)
Clear(dir, p) ==
  /\ Usual(p)
  /\ \A pos : ElementsAt(p, pos) =>
       \A k \in 1 .. Len(Elements(p)) :
         At(dir, p, k) # NULL => Turn(dir, p, pos, k)

(***************************************************************************)
(* A walk of a clear path stands on a node that is named, before the       *)
(* element that comes next.                                                *)
(***************************************************************************)
Stands(w, dir, p, k) ==
  /\ w.node = At(dir, p, k) /\ At(dir, p, k) # NULL
  /\ w.more <=> k <= Len(Elements(p))
  /\ k <= Len(Elements(p)) =>
       /\ \A pos : ElementsAt(p, pos) => w.elem = Rest(p, pos, k)
       /\ w.len = Length(p, k)
Follows(w, dir, p) == \E k \in 1 .. Len(Elements(p)) + 1 : Stands(w, dir, p, k)

WayInv ==
  call.dir # NULL /\ Clear(call.dir, call.path) =>
    IF walks = <<>> THEN result = Resolve(call.dir, call.path)
    ELSE Len(walks) = 1 /\ Follows(Top, call.dir, call.path)

LEMMA WayFacts ==
  ASSUME TreeSound, NEW dir \in DOMAIN tree, NEW p \in Strings, Usual(p)
  PROVE  /\ Elements(p) \in Seq(Strings) /\ Len(Elements(p)) \in Nat
         /\ Elements(p) # <<>> => \E pos : ElementsAt(p, pos)
         /\ Elements(p) = <<>> <=> p = <<>>
         /\ At(dir, p, 1) = Start(dir, p) /\ At(dir, p, 1) # NULL
         /\ At(dir, p, Len(Elements(p)) + 1) = Resolve(dir, p)
         /\ \A k \in 1 .. Len(Elements(p)) + 1 : At(dir, p, k) \in Nodes
         /\ \A k \in 1 .. Len(Elements(p)) :
              At(dir, p, k + 1) = ChildNamed(At(dir, p, k), Elements(p)[k])
<1> DEFINE es == Elements(p)
           b == Start(dir, p)
<1>1. es \in Seq(Strings) /\ (es # <<>> => \E pos : ElementsAt(p, pos))
  BY RegularElements DEF Usual
<1>2. Len(es) \in Nat
  BY <1>1
<1>3. es = <<>> <=> p = <<>>
  <2>1. es = <<>> => p = <<>>
    BY DEF Usual
  <2>2. ASSUME p = <<>> PROVE es = <<>>
    <3>1. 1 .. Len(p) = {}
      BY <2>2
    <3>2. NoSlashes(p) = <<>>
      BY <3>1 DEF NoSlashes, SelectInSeq
    <3> QED BY <3>2, RegularElements DEF Usual
  <2> QED BY <2>1, <2>2
<1>4. b \in DOMAIN tree /\ b # NULL /\ b \in Nodes
  BY DEF Start, TreeSound, Nodes
<1>5. /\ Named(b, es, 0) = b /\ Named(b, es, Len(es)) = Ends(b, es)
      /\ \A k \in 0 .. Len(es) : Named(b, es, k) \in Nodes
      /\ \A k \in 1 .. Len(es) :
           Named(b, es, k) = ChildNamed(Named(b, es, k - 1), es[k])
  BY <1>1, <1>4, NamedStepwise
<1>6. Ends(b, es) = Resolve(dir, p)
  BY DEF Ends, Resolve
<1> HIDE DEF es, b
<1>7. \A k \in Int : At(dir, p, k) = Named(b, es, k - 1)
  BY DEF At, es, b
<1>8. At(dir, p, 1) = b
  BY <1>5, <1>7
<1>9. At(dir, p, Len(es) + 1) = Resolve(dir, p)
  <2>1. (Len(es) + 1) - 1 = Len(es)
    BY <1>2
  <2> QED BY <1>2, <1>5, <1>6, <1>7, <2>1
<1>10. ASSUME NEW k \in 1 .. Len(es) + 1 PROVE At(dir, p, k) \in Nodes
  <2>1. k - 1 \in 0 .. Len(es) /\ k \in Int
    BY <1>2
  <2> QED BY <1>5, <1>7, <2>1
<1>11. ASSUME NEW k \in 1 .. Len(es)
       PROVE  At(dir, p, k + 1) = ChildNamed(At(dir, p, k), es[k])
  <2>1. (k + 1) - 1 = k /\ k \in Int /\ k + 1 \in Int
    BY <1>2
  <2> QED BY <1>5, <1>7, <2>1
<1> QED BY <1>1, <1>2, <1>3, <1>4, <1>8, <1>9, <1>10, <1>11 DEF es, b

LEMMA WayStarts ==
  ASSUME TreeSound, NEW dir \in DOMAIN tree, NEW p \in Strings, Clear(dir, p)
  PROVE  Follows(Enter(dir, p), dir, p)
<1> DEFINE es == Elements(p)
           w == Enter(dir, p)
<1>1. /\ es \in Seq(Strings) /\ Len(es) \in Nat
      /\ es # <<>> => \E pos : ElementsAt(p, pos)
      /\ es = <<>> <=> p = <<>>
      /\ At(dir, p, 1) = Start(dir, p) /\ At(dir, p, 1) # NULL
  <2>1. Usual(p)
    BY DEF Clear
  <2> QED BY <2>1, WayFacts
<1>2. /\ w.node = Start(dir, p) /\ w.more = (p # <<>>)
      /\ w.elem = NoSlashes(p) /\ w.len = ElemLen(NoSlashes(p))
  BY DEF Enter, Start
<1>3. w.more <=> 1 <= Len(es)
  <2>1. es = <<>> <=> Len(es) = 0
    BY <1>1, EmptySeq
  <2> HIDE DEF es, w
  <2>2. p # <<>> <=> 1 <= Len(es)
    BY <1>1, <2>1
  <2> QED BY <1>2, <2>2, Zenon
<1>4. ASSUME 1 <= Len(es)
      PROVE  /\ \A pos : ElementsAt(p, pos) => w.elem = Rest(p, pos, 1)
             /\ w.len = Length(p, 1)
  <2>1. es # <<>> /\ 1 \in 1 .. Len(es)
    BY <1>1, <1>4
  <2>2. ASSUME NEW pos, ElementsAt(p, pos)
        PROVE  Rest(p, pos, 1) = NoSlashes(p)
                 /\ ElemLen(NoSlashes(p)) = Len(es[1])
    BY <1>1, <2>1, <2>2, RestFacts
  <2>3. Length(p, 1) = Len(es[1])
    BY DEF Length
  <2> HIDE DEF es, w
  <2> QED BY <1>1, <1>2, <2>1, <2>2, <2>3
<1>5. Stands(w, dir, p, 1)
  BY <1>1, <1>2, <1>3, <1>4 DEF Stands
<1>6. 1 \in 1 .. Len(es) + 1
  BY <1>1
<1> QED BY <1>5, <1>6 DEF Follows

LEMMA NullStays ==
  ASSUME TreeSound, NEW dir \in DOMAIN tree, NEW p \in Strings, Usual(p),
         NEW k \in 1 .. Len(Elements(p)) + 1, At(dir, p, k) = NULL
  PROVE  Resolve(dir, p) = NULL
<1> DEFINE n == Len(Elements(p))
           Good == {j \in 0 .. n + 1 - k : At(dir, p, k + j) = NULL}
<1>1. /\ n \in Nat /\ At(dir, p, n + 1) = Resolve(dir, p)
      /\ \A i \in 1 .. n + 1 : At(dir, p, i) \in Nodes
      /\ \A i \in 1 .. n :
           At(dir, p, i + 1) = ChildNamed(At(dir, p, i), Elements(p)[i])
  BY WayFacts
<1>2. k \in 1 .. n + 1
  OBVIOUS
<1> HIDE DEF n
<1>3. n + 1 - k \in Nat
  BY <1>1, <1>2
<1>4. 0 \in Good
  <2>1. k + 0 = k
    BY <1>2
  <2> QED BY <1>3, <2>1
<1>5. ASSUME NEW m \in 0 .. (n + 1 - k) - 1, m \in Good PROVE m + 1 \in Good
  <2>1. /\ m + 1 \in 0 .. n + 1 - k /\ k + m \in 1 .. n /\ k + m \in 1 .. n + 1
        /\ k + (m + 1) = (k + m) + 1
    BY <1>1, <1>2
  <2>2. At(dir, p, (k + m) + 1)
          = ChildNamed(At(dir, p, k + m), Elements(p)[k + m])
    BY <1>1, <2>1
  <2>3. At(dir, p, k + m) = NULL /\ At(dir, p, k + m) \in Nodes
    BY <1>1, <1>5, <2>1
  <2>4. At(dir, p, (k + m) + 1) = NULL
    BY <2>2, <2>3, ChildNamedType
  <2> QED BY <2>1, <2>4
<1> HIDE DEF Good
<1>6. n + 1 - k \in Good
  <2>1. n + 1 - k \in 0 .. n + 1 - k
    BY <1>3
  <2> QED BY <1>3, <1>4, <1>5, <2>1, InductUpTo
<1>7. k + (n + 1 - k) = n + 1
  BY <1>1, <1>2
<1>8. At(dir, p, k + (n + 1 - k)) = NULL
  BY <1>6 DEF Good
<1> QED BY <1>1, <1>7, <1>8

LEMMA WayGoesOn ==
  ASSUME TreeSound, NEW dir \in DOMAIN tree, NEW p \in Strings, Clear(dir, p),
         NEW w, Follows(w, dir, p), w.more
  PROVE  LET c == Child(w.node, w.elem, w.len)
             v == [w EXCEPT !.node = c, !.more = HasNext(w.elem),
                            !.elem = After(w.elem), !.len = ElemLen(w.elem)]
         IN  /\ tree[w.node].type # "VFS_SYM"
             /\ c = NULL => Resolve(dir, p) = NULL
             /\ c # NULL /\ w \in Walk => Follows(v, dir, p)
<1> DEFINE es == Elements(p)
           n == Len(es)
           c == Child(w.node, w.elem, w.len)
           v == [w EXCEPT !.node = c, !.more = HasNext(w.elem),
                          !.elem = After(w.elem), !.len = ElemLen(w.elem)]
<1>0. Usual(p)
  BY DEF Clear
<1>1. PICK k \in 1 .. n + 1 : Stands(w, dir, p, k)
  BY DEF Follows
<1>2. /\ es \in Seq(Strings) /\ n \in Nat
      /\ es # <<>> => \E pos : ElementsAt(p, pos)
  BY <1>0, WayFacts
<1>3. /\ w.node = At(dir, p, k) /\ At(dir, p, k) # NULL
      /\ k <= n
      /\ \A pos : ElementsAt(p, pos) => w.elem = Rest(p, pos, k)
      /\ w.len = Length(p, k)
  BY <1>1 DEF Stands
<1>4. k \in 1 .. n /\ k + 1 \in 1 .. n + 1
  BY <1>2, <1>3
<1>5. es # <<>>
  BY <1>2, <1>4
<1>6. PICK pos : ElementsAt(p, pos)
  BY <1>2, <1>5
<1>7. Turn(dir, p, pos, k)
  BY <1>3, <1>4, <1>6 DEF Clear
<1>8. tree[w.node].type # "VFS_SYM" /\ c = At(dir, p, k + 1)
  BY <1>3, <1>6, <1>7 DEF Turn
<1>9. c = NULL => Resolve(dir, p) = NULL
  BY <1>0, <1>4, <1>8, NullStays
<1>10. ASSUME c # NULL, w \in Walk PROVE Follows(v, dir, p)
  <2>1. /\ v.node = c /\ v.more = HasNext(w.elem)
        /\ v.elem = After(w.elem) /\ v.len = ElemLen(w.elem)
    BY <1>10 DEF Walk
  <2> HIDE DEF v, c, es, n
  <2>2. ASSUME NEW pos1, ElementsAt(p, pos1)
        PROVE  /\ ElemLen(w.elem) = Len(es[k])
               /\ HasNext(w.elem) <=> k < n
               /\ k < n => After(w.elem) = Rest(p, pos1, k + 1)
    <3>1. w.elem = Rest(p, pos1, k)
      BY <1>3, <2>2
    <3> QED BY <1>2, <1>4, <1>5, <2>2, <3>1, RestFacts DEF es, n
  <2>3. Length(p, k + 1) = Len(es[k])
    <3>1. k + 1 # 1 /\ (k + 1) - 1 = k
      BY <1>4
    <3> QED BY <3>1 DEF Length, es
  <2>4. k < n <=> k + 1 <= n
    BY <1>2, <1>4
  <2>5. Stands(v, dir, p, k + 1)
    BY <1>6, <1>8, <1>10, <2>1, <2>2, <2>3, <2>4 DEF Stands, es, n
  <2> QED BY <1>4, <2>5 DEF Follows, es, n
<1> QED BY <1>8, <1>9, <1>10

-----------------------------------------------------------------------------
(***************************************************************************)
(* The two conditions under which a path is clear.                         *)
(***************************************************************************)
LEMMA ElementTyped ==
  ASSUME NEW p \in Strings, Elements(p) \in Seq(Strings),
         NEW k \in 1 .. Len(Elements(p))
  PROVE  /\ Elements(p)[k] \in Strings /\ Len(Elements(p)[k]) \in Nat
         /\ Length(p, k) \in Nat
<1> DEFINE es == Elements(p)
           j == IF k = 1 THEN 1 ELSE k - 1
<1>1. Len(es) \in Nat /\ j \in 1 .. Len(es)
  OBVIOUS
<1> HIDE DEF j
<1>2. es[j] \in Strings /\ es[k] \in Strings
  BY <1>1, ElementOfSeq
<1>3. Length(p, k) = Len(es[j])
  BY DEF Length, j
<1> HIDE DEF es
<1>4. Len(es[k]) \in Nat /\ Len(es[j]) \in Nat
  BY <1>2 DEF Strings
<1> QED BY <1>2, <1>3, <1>4 DEF es

LEMMA UnambiguousIsClear ==
  ASSUME tree \in Trees, NEW dir \in DOMAIN tree, NEW p \in Strings,
         Unambiguous(dir, p), Resolve(dir, p) # NULL
  PROVE  Clear(dir, p)
<1> DEFINE es == Elements(p)
           n == Len(es)
<1>1. TreeSound /\ IsTree(tree)
  BY TreesSound, WalkAssumption
<1>2. Usual(p)
  BY DEF Unambiguous, Usual
<1>3. /\ es \in Seq(Strings) /\ n \in Nat
      /\ \A k \in 1 .. n + 1 : At(dir, p, k) \in Nodes
      /\ \A k \in 1 .. n : At(dir, p, k + 1) = ChildNamed(At(dir, p, k), es[k])
  BY <1>1, <1>2, WayFacts
<1>4. ASSUME NEW k \in 2 .. n - 1 PROVE Length(p, k) <= Len(es[k])
  BY <1>4 DEF Unambiguous, Length
<1>5. ASSUME NEW k \in 1 .. n,
             NEW i \in Begins(At(dir, p, k), es[k], Length(p, k)),
             NEW j \in Begins(At(dir, p, k), es[k], Length(p, k))
      PROVE  i = j
  BY <1>5 DEF Unambiguous, Length, Begins, At, Named
<1> HIDE DEF n
<1>6. ASSUME NEW pos, ElementsAt(p, pos), NEW k \in 1 .. n
      PROVE  Turn(dir, p, pos, k)
  <2> DEFINE a == At(dir, p, k)
             e == es[k]
             s == Rest(p, pos, k)
             l == Length(p, k)
  <2>1. a \in Nodes /\ At(dir, p, k + 1) = ChildNamed(a, e)
    BY <1>3
  <2>2. ChildNamed(a, e) # NULL
    <3>1. k + 1 \in 1 .. n + 1
      BY <1>3
    <3> QED BY <1>1, <1>2, <2>1, <3>1, NullStays DEF n
  <2>3. a \in DOMAIN tree /\ Bears(a, e) # {}
    BY <1>1, <2>1, <2>2, ChildBears
  <2>4. es # <<>>
    BY <1>3 DEF n
  <2>5. /\ s \in Strings /\ Len(e) \in Nat /\ Len(e) <= Len(s)
        /\ \A x \in 1 .. Len(e) : s[x] = e[x]
        /\ k = n => s = e
    BY <1>3, <1>6, <2>4, RestFacts DEF n
  <2>6. e \in Strings /\ l \in Nat
    BY <1>3, ElementTyped DEF n
  <2>7. k # n => l <= Len(e)
    <3>1. CASE k = 1
      <4>1. l = Len(e)
        BY <3>1 DEF Length
      <4> QED BY <2>5, <4>1
    <3>2. CASE k # 1
      <4>1. k # n => k \in 2 .. n - 1
        BY <1>3, <3>2
      <4> QED BY <1>4, <4>1
    <3> QED BY <3>1, <3>2
  <2> HIDE DEF a, e, s, l, es
  <2>8. Take(s, l) = Take(e, l)
    <3>1. CASE k = n
      BY <2>5, <3>1
    <3>2. CASE k # n
      BY <2>5, <2>6, <2>7, <3>2, TakeOfPart
    <3> QED BY <3>1, <3>2
  <2>9. Begins(a, s, l) = Begins(a, e, l)
    BY <2>8, Zenon DEF Begins, SameStart
  <2>10. Bears(a, e) \subseteq Begins(a, e, l)
    BY Zenon DEF Begins, Bears, SameStart
  <2>11. \A i, j \in Begins(a, e, l) : i = j
    BY <1>5 DEF a, e, l
  <2>12. Begins(a, s, l) = Bears(a, e)
    BY <2>3, <2>9, <2>10, <2>11
  <2>13. Child(a, s, l) = At(dir, p, k + 1)
    BY <1>1, <2>1, <2>3, <2>12, ChildIsNamed
  <2>14. tree[a].type # "VFS_SYM"
    <3>1. tree[a].children # <<>>
      <4> SUFFICES ASSUME tree[a].children = <<>> PROVE FALSE
        OBVIOUS
      <4> QED BY <1>1, <2>2, <2>3, NoChild
    <3> QED BY <1>1, <2>3, <3>1 DEF IsTree
  <2> QED BY <2>13, <2>14 DEF Turn, a, s, l
<1> QED BY <1>2, <1>6 DEF Clear, n

LEMMA OneLengthIsClear ==
  ASSUME tree \in Trees, NEW dir \in DOMAIN tree, NEW p \in Strings,
         Usual(p), OneLength(tree, p)
  PROVE  Clear(dir, p)
<1> DEFINE es == Elements(p)
           n == Len(es)
           names == {tree[m].name : m \in DOMAIN tree \ {Root}} \union ToSet(es)
<1>1. TreeSound /\ IsTree(tree)
  BY TreesSound, WalkAssumption
<1>3. /\ es \in Seq(Strings) /\ n \in Nat
      /\ \A k \in 1 .. n + 1 : At(dir, p, k) \in Nodes
      /\ \A k \in 1 .. n : At(dir, p, k + 1) = ChildNamed(At(dir, p, k), es[k])
  BY <1>1, WayFacts
<1>4. /\ \A x, y \in names : Len(x) = Len(y)
      /\ \A m \in DOMAIN tree : tree[m].type # "VFS_SYM"
  BY DEF OneLength
<1>5. \A k \in 1 .. n : es[k] \in names
  BY <1>3 DEF ToSet
<1>6. ASSUME NEW m \in DOMAIN tree, NEW i \in 1 .. Len(tree[m].children)
      PROVE  /\ tree[tree[m].children[i]].name \in names
             /\ tree[tree[m].children[i]].name \in Strings
  <2> DEFINE cs == tree[m].children
             c == cs[i]
  <2>1. cs \in Seq(DOMAIN tree)
    BY <1>1 DEF IsTree
  <2>2. c \in DOMAIN tree /\ i \in DOMAIN cs
    BY <2>1, ElementOfSeq
  <2>3. c \in ToSet(cs)
    BY <2>2 DEF ToSet
  <2>4. tree[c].parent = m
    BY <1>1, <2>3 DEF IsTree
  <2>5. m # NULL /\ tree[Root].parent = NULL
    BY <1>1 DEF IsTree
  <2>6. c # Root
    BY <2>4, <2>5
  <2>7. tree[c].name \in Strings
    BY <1>1, <2>2 DEF IsTree
  <2> HIDE DEF c
  <2>8. tree[c].name \in names
    BY <2>2, <2>6
  <2> QED BY <2>7, <2>8 DEF c
<1> HIDE DEF n, names
<1>7. ASSUME NEW pos, ElementsAt(p, pos), NEW k \in 1 .. n,
             At(dir, p, k) # NULL
      PROVE  Turn(dir, p, pos, k)
  <2> DEFINE a == At(dir, p, k)
             e == es[k]
             s == Rest(p, pos, k)
             l == Length(p, k)
             j == IF k = 1 THEN 1 ELSE k - 1
  <2>1. a \in DOMAIN tree /\ At(dir, p, k + 1) = ChildNamed(a, e)
    BY <1>3, <1>7 DEF Nodes
  <2>2. es # <<>>
    BY <1>3 DEF n
  <2>3. /\ s \in Strings /\ Len(e) \in Nat /\ Len(e) <= Len(s)
        /\ \A x \in 1 .. Len(e) : s[x] = e[x]
    BY <1>3, <1>7, <2>2, RestFacts DEF n
  <2>4. e \in Strings /\ e \in names
    BY <1>3, <1>5, ElementTyped DEF n
  <2>5. l = Len(e)
    <3>1. j \in 1 .. n
      BY <1>3
    <3>2. l = Len(es[j])
      BY DEF Length
    <3> HIDE DEF j, es
    <3>3. es[j] \in names
      BY <1>5, <3>1
    <3> QED BY <1>4, <2>4, <3>2, <3>3
  <2> HIDE DEF a, e, s, l, es
  <2>6. Take(s, l) = e
    <3>1. Take(s, l) = Take(e, l)
      <4>1. l \in Nat /\ l <= Len(e)
        BY <2>3, <2>5
      <4> QED BY <2>3, <2>4, <4>1, TakeOfPart
    <3> QED BY <2>4, <2>5, <3>1, TakeAll
  <2>7. ASSUME NEW i \in 1 .. Len(tree[a].children)
        PROVE  SameStart(tree[tree[a].children[i]].name, s, l)
                 <=> tree[tree[a].children[i]].name = e
    <3> DEFINE name == tree[tree[a].children[i]].name
    <3>1. name \in Strings /\ name \in names
      BY <1>6, <2>1
    <3> HIDE DEF name
    <3>2. Len(name) = l
      BY <1>4, <2>4, <2>5, <3>1
    <3>3. Take(name, l) = name
      BY <3>1, <3>2, TakeAll
    <3>4. SameStart(name, s, l) <=> name = e
      BY <2>6, <3>3 DEF SameStart
    <3> QED BY <3>4 DEF name
  <2>8. Begins(a, s, l) = Bears(a, e)
    BY <2>7 DEF Begins, Bears
  <2>9. Child(a, s, l) = At(dir, p, k + 1)
    BY <1>1, <2>1, <2>8, ChildIsNamed
  <2>10. tree[a].type # "VFS_SYM"
    BY <1>4, <2>1
  <2> QED BY <2>9, <2>10 DEF Turn, a, s, l
<1> QED BY <1>7 DEF Clear, n

-----------------------------------------------------------------------------
(***************************************************************************)
(* The tree stays as it is, and with it what a path names and whether it   *)
(* is clear.                                                               *)
(***************************************************************************)
LEMMA WayKept ==
  ASSUME tree' = tree, NEW CONSTANT dir, NEW CONSTANT p
  PROVE  /\ Clear(dir, p)' <=> Clear(dir, p)
         /\ Resolve(dir, p)' = Resolve(dir, p)
         /\ \A w : Follows(w, dir, p)' <=> Follows(w, dir, p)
<1>1. ASSUME NEW CONSTANT k PROVE At(dir, p, k)' = At(dir, p, k)
  BY SMT DEF At, Named, FoldLeft, MapThenFoldSet, ChildNamed, SelectInSeq
<1>2. Resolve(dir, p)' = Resolve(dir, p)
  BY SMT DEF Resolve, FoldLeft, MapThenFoldSet, ChildNamed, SelectInSeq
<1>3. ASSUME NEW CONSTANT w
      PROVE  Follows(w, dir, p)' <=> Follows(w, dir, p)
  BY <1>1 DEF Follows, Stands
<1>4. ASSUME NEW CONSTANT n, NEW CONSTANT s, NEW CONSTANT l
      PROVE  Child(n, s, l)' = Child(n, s, l)
  BY SMT DEF Child, SelectInSeq
<1>5. ASSUME NEW CONSTANT pos, NEW CONSTANT k
      PROVE  Turn(dir, p, pos, k)' <=> Turn(dir, p, pos, k)
  BY <1>1, <1>4 DEF Turn
<1>6. Clear(dir, p)' <=> Clear(dir, p)
  BY <1>1, <1>5 DEF Clear
<1> QED BY <1>2, <1>3, <1>6

LEMMA WayStep ==
  ASSUME tree \in Trees, StackSound, Len(walks) = 1, WalkStep,
         NEW dir \in DOMAIN tree, NEW p \in Strings, Clear(dir, p),
         Follows(Top, dir, p)
  PROVE  IF walks' = <<>> THEN result' = Resolve(dir, p)
         ELSE /\ Len(walks') = 1
              /\ Follows(walks'[Len(walks')], dir, p)
<1> DEFINE c == Child(Top.node, Top.elem, Top.len)
           v == Descended(c)
<1>1. TreeSound /\ IsTree(tree)
  BY TreesSound, WalkAssumption
<1>2. /\ walks \in Seq(Walk) /\ walks # <<>>
      /\ Top \in Walk /\ Top.node \in DOMAIN tree
  <2>0. walks \in Seq(Walk)
    BY DEF StackSound, StackFor
  <2>1. walks # <<>>
    OBVIOUS
  <2> QED BY <2>0, <2>1, StackTop DEF StackSound
<1>3. ASSUME Top.more
      PROVE  /\ tree[Top.node].type # "VFS_SYM"
             /\ c = NULL => Resolve(dir, p) = NULL
             /\ c # NULL => Follows(v, dir, p)
  BY <1>1, <1>2, <1>3, WayGoesOn DEF Descended
<1> HIDE DEF c, v
<1>4. CASE Descend
  <2>1. Top.more /\ c # NULL /\ walks' = SetTop(v)
    BY <1>4 DEF Descend, Looping, c, v
  <2>2. Follows(v, dir, p)
    BY <1>3, <2>1
  <2> DEFINE S == Walk \union {v}
             r == SetTop(v)
  <2>3. walks \in Seq(S) /\ v \in S
    <3>1. Walk \subseteq S
      OBVIOUS
    <3> HIDE DEF S
    <3>2. walks \in Seq(S)
      BY <1>2, <3>1, SeqMonotonic
    <3> QED BY <3>2 DEF S
  <2> HIDE DEF S
  <2>4. /\ r \in Seq(S) /\ Len(r) = Len(walks)
        /\ \A i \in 1 .. Len(walks) :
             r[i] = IF i = Len(walks) THEN v ELSE walks[i]
    BY <1>2, <2>3, TopSet DEF SetTop
  <2> HIDE DEF r
  <2>5. Len(r) = 1 /\ r[1] = v
    BY <2>4
  <2>6. r # <<>>
    BY <2>5, EmptySeq
  <2>7. walks' = r
    BY <2>1 DEF r
  <2> QED BY <2>2, <2>5, <2>6, <2>7
<1>5. CASE NotThere
  <2>1. Top.more /\ walks' = <<>> /\ result' = NULL
    BY <1>5 DEF NotThere, Looping
  <2>2. c = NULL
    <3>1. CASE Looping({"VFS_DIR"}) /\ c = NULL
      BY <3>1
    <3>2. CASE Looping({"VFS_CDEV", "VFS_FILE"})
      <4>1. tree[Top.node].type # "VFS_DIR"
        BY <3>2 DEF Looping
      <4>2. tree[Top.node].children = <<>>
        BY <1>1, <1>2, <4>1 DEF IsTree
      <4> QED BY <1>1, <1>2, <4>2, NoChild DEF c
    <3> QED BY <1>5, <3>1, <3>2 DEF NotThere, c
  <2>3. Resolve(dir, p) = NULL
    BY <1>3, <2>1, <2>2
  <2> QED BY <2>1, <2>3
<1>6. CASE FollowLink \/ LeaveStack
  <2>1. Top.more /\ tree[Top.node].type = "VFS_SYM"
    BY <1>6 DEF FollowLink, LeaveStack, Looping
  <2> QED BY <1>3, <2>1
<1>7. CASE ReturnFound
  <2>1. ~ Top.more /\ walks' = <<>> /\ result' = Top.node
    BY <1>7 DEF ReturnFound, Found
  <2>2. Usual(p)
    BY DEF Clear
  <2>3. /\ Len(Elements(p)) \in Nat
        /\ At(dir, p, Len(Elements(p)) + 1) = Resolve(dir, p)
    BY <1>1, <2>2, WayFacts
  <2>4. PICK k \in 1 .. Len(Elements(p)) + 1 : Stands(Top, dir, p, k)
    BY DEF Follows
  <2>5. /\ ~ (k <= Len(Elements(p))) /\ Top.node = At(dir, p, k)
    BY <2>1, <2>4 DEF Stands
  <2>6. k = Len(Elements(p)) + 1
    BY <2>3, <2>5
  <2> QED BY <2>1, <2>3, <2>5, <2>6
<1>8. CASE WalkRest \/ RestFound
  BY <1>8 DEF WalkRest, RestFound
<1> QED BY <1>4, <1>5, <1>6, <1>7, <1>8 DEF WalkStep

LEMMA WayKeeps ==
  ASSUME WalkInv, WayInv, [WalkNext]_vars
  PROVE  WayInv'
<1>0. tree \in Trees /\ TreeSound /\ StackSound /\ call.path \in Strings
      /\ call.dir \in DOMAIN tree \union {NULL}
  BY TreesSound DEF WalkInv
<1>1. tree' = tree
  BY DEF WalkNext, WalkPath, WalkStep, Descend, NotThere, FollowLink,
         LeaveStack, ReturnFound, WalkRest, RestFound, vars
<1>2. PICK dir, p : dir = call'.dir /\ p = call'.path
  OBVIOUS
<1>3. SUFFICES ASSUME dir # NULL, Clear(dir, p)
               PROVE  IF walks' = <<>> THEN result' = Resolve(dir, p)
                      ELSE /\ Len(walks') = 1
                           /\ Follows(walks'[Len(walks')], dir, p)
  <2>1. /\ Clear(dir, p)' <=> Clear(dir, p)
        /\ Resolve(dir, p)' = Resolve(dir, p)
        /\ \A w : Follows(w, dir, p)' <=> Follows(w, dir, p)
    BY <1>1, WayKept
  <2> QED BY <1>2, <2>1 DEF WayInv, Top
<1>4. ASSUME WalkStep \/ UNCHANGED vars
      PROVE  call' = call
  BY <1>4 DEF WalkStep, Descend, NotThere, FollowLink, LeaveStack, ReturnFound,
              WalkRest, RestFound, vars
<1>5. CASE WalkStep
  <2>1. dir = call.dir /\ p = call.path /\ dir \in DOMAIN tree /\ p \in Strings
    BY <1>0, <1>2, <1>3, <1>4, <1>5
  <2>2. walks # <<>>
    BY <1>5 DEF WalkStep, Descend, NotThere, FollowLink, LeaveStack, Looping,
                ReturnFound, WalkRest, RestFound, Found
  <2>3. Len(walks) = 1 /\ Follows(Top, dir, p)
    BY <1>3, <2>1, <2>2 DEF WayInv
  <2> QED BY <1>0, <1>3, <1>5, <2>1, <2>3, WayStep
<1>6. ASSUME NEW d \in DOMAIN tree, NEW q \in Paths, WalkPath(d, q)
      PROVE  IF walks' = <<>> THEN result' = Resolve(dir, p)
             ELSE /\ Len(walks') = 1
                  /\ Follows(walks'[Len(walks')], dir, p)
  <2>1. dir = d /\ p = q /\ walks' = <<Enter(dir, p)>> /\ p \in Strings
    BY <1>2, <1>6, WalkAssumption DEF WalkPath
  <2>2. Follows(Enter(dir, p), dir, p)
    BY <1>0, <1>3, <1>6, <2>1, WayStarts
  <2>3. /\ walks' # <<>> /\ Len(walks') = 1
        /\ walks'[Len(walks')] = Enter(dir, p)
    BY <2>1
  <2> QED BY <2>2, <2>3
<1>7. CASE UNCHANGED vars
  <2>1. dir = call.dir /\ p = call.path /\ walks' = walks /\ result' = result
    BY <1>2, <1>4, <1>7 DEF vars
  <2> QED BY <1>3, <2>1 DEF WayInv, Top
<1> QED BY <1>5, <1>6, <1>7 DEF WalkNext

LEMMA WayInductive == WalkSpec => [](WalkInv /\ WayInv)
<1>1. WalkInit => WalkInv /\ WayInv
  <2> SUFFICES ASSUME WalkInit PROVE WalkInv /\ WayInv
    OBVIOUS
  <2>1. WalkInv
    BY WalkStarts
  <2>2. call.dir = NULL
    BY NoCallType DEF WalkInit
  <2> QED BY <2>1, <2>2 DEF WayInv
<1>2. WalkInv /\ WayInv /\ [WalkNext]_vars => (WalkInv /\ WayInv)'
  BY WalkKeeps, WayKeeps
<1> QED BY <1>1, <1>2, PTL DEF WalkSpec

(***************************************************************************)
(* NamedIsFound: a path that names a node leads to it, if no other name on *)
(* the way can be taken for the one that is meant: the walk then stands,   *)
(* element by element, on the node that is named (walk_path.c:50-97).      *)
(***************************************************************************)
THEOREM NamedPathsAreFound == WalkSpec => []NamedIsFound
<1>1. WalkInv /\ WayInv => NamedIsFound
  <2> SUFFICES ASSUME WalkInv, WayInv, Returned,
                      Resolve(call.dir, call.path) # NULL,
                      Unambiguous(call.dir, call.path)
               PROVE  result = Resolve(call.dir, call.path)
    BY DEF NamedIsFound
  <2>1. /\ tree \in Trees /\ call.dir \in DOMAIN tree /\ call.path \in Strings
        /\ call.dir # NULL /\ walks = <<>>
    BY DEF WalkInv, Returned
  <2>2. Clear(call.dir, call.path)
    BY <2>1, UnambiguousIsClear
  <2> QED BY <2>1, <2>2 DEF WayInv
<1> QED BY <1>1, WayInductive, PTL

(***************************************************************************)
(* OnlyNamedIsFound: where all names and elements have one length and      *)
(* there are no links, no name can be taken for another, and a path that   *)
(* names nothing leads nowhere (walk_path.c:58-75).                        *)
(***************************************************************************)
THEOREM OnlyNamedAreFound == WalkSpec => []OnlyNamedIsFound
<1>1. WalkInv /\ WayInv => OnlyNamedIsFound
  <2> SUFFICES ASSUME WalkInv, WayInv, Returned,
                      OneLength(tree, call.path), Regular(call.path),
                      Elements(call.path) = <<>> => call.path = <<>>
               PROVE  result = Resolve(call.dir, call.path)
    BY DEF OnlyNamedIsFound
  <2>1. /\ tree \in Trees /\ call.dir \in DOMAIN tree /\ call.path \in Strings
        /\ call.dir # NULL /\ walks = <<>>
    BY DEF WalkInv, Returned
  <2>2. Clear(call.dir, call.path)
    BY <2>1, OneLengthIsClear DEF Usual
  <2> QED BY <2>1, <2>2 DEF WayInv
<1> QED BY <1>1, WayInductive, PTL
=============================================================================
