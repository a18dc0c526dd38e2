------------------------------ MODULE WalkPath ------------------------------
(***************************************************************************)
(* walk_path: from a directory and a path to a node of the tree.  Names    *)
(* and paths are sequences of characters, as the walk compares characters  *)
(* and not elements.  A walk that meets a symbolic link calls itself       *)
(* twice, for the link and for the rest of the path; walks is the stack of *)
(* these calls and an action is one turn of the loop of the last of them.  *)
(*                                                                         *)
(* walk_path keeps a copy of the path that is not terminated.  What        *)
(* follows the copy is blank until the next kmalloc, which the walk of a   *)
(* link makes: the rest of the path is then continued by bytes of a struct *)
(* file, or by nothing if that came to lie in another block.               *)
(*                                                                         *)
(* kmalloc is taken to succeed, and no name is NULL.                       *)
(***************************************************************************)
EXTENDS Integers, SequencesExt

CONSTANTS
  Chars,      \* the characters of names
  Trees,      \* the trees: functions from node numbers to nodes
  Paths,      \* the paths asked for
  Junk,       \* what may follow the path after the walk of a link
  MaxDepth    \* the walks that fit on the kernel stack

Slash == "/"
NULL == 0
Root == 1     \* current_process->root
Wild == -1    \* the result of a walk that left its stack

Strings == Seq(Chars \union {Slash})

(***************************************************************************)
(* A node has a type, a name, a parent and, by its type, children or the   *)
(* path of a link; the fields of the others are blank.  A child names the  *)
(* directory it is in as its parent.  The root is the mount and its own    *)
(* parent is NULL.                                                         *)
(***************************************************************************)
IsTree(t) ==
  /\ Root \in DOMAIN t /\ DOMAIN t \subseteq Nat \ {NULL}
  /\ t[Root].type = "VFS_DIR" /\ t[Root].parent = NULL
  /\ \A n \in DOMAIN t :
       /\ t[n].type \in {"VFS_DIR", "VFS_FILE", "VFS_SYM", "VFS_CDEV"}
       /\ t[n].name \in Strings /\ t[n].symlink \in Strings
       /\ t[n].children \in Seq(DOMAIN t)
       /\ n # Root => t[n].parent \in DOMAIN t
       /\ t[n].type # "VFS_DIR" => t[n].children = <<>>
       /\ \A c \in ToSet(t[n].children) : t[c].parent = n

ASSUME WalkAssumption ==
  /\ \A t \in Trees : IsTree(t)
  /\ Paths \subseteq Strings /\ Junk \subseteq Strings
  /\ Slash \notin Chars
  /\ MaxDepth \in Nat \ {0}

VARIABLES
  tree,       \* the nodes
  call,       \* the directory and the path walk_path was called with
  walks,      \* the stack of walks; empty when the call has returned
  result      \* the node in the file that was returned, or NULL

vars == <<tree, call, walks, result>>

-----------------------------------------------------------------------------
(***************************************************************************)
(* next_elem: the length of the element that p begins with, whether        *)
(* another one follows, and where.                                         *)
(***************************************************************************)
ElemLen(p) == LET i == SelectInSeq(p, LAMBDA c : c = Slash)
              IN  IF i = 0 THEN Len(p) ELSE i - 1
HasNext(p) == ElemLen(p) < Len(p)
After_KeepsSlash(p) == SubSeq(p, ElemLen(p) + 1, Len(p))      \* variant
After(p) == SubSeq(p, ElemLen(p) + 2, Len(p))

\* strncmp(a, b, n) = 0, both without NUL inside.
Take(a, n) == SubSeq(a, 1, IF n < Len(a) THEN n ELSE Len(a))
SameStart_OneShort(a, b, n) == Take(a, n - 1) = Take(b, n - 1)  \* variant
SameStart(a, b, n) == Take(a, n) = Take(b, n)

\* The first child that the loop over the children of n stops at.
Child(n, p, len) ==
  LET i == SelectInSeq(tree[n].children,
                       LAMBDA c : SameStart(tree[c].name, p, len))
  IN  IF i = 0 THEN NULL ELSE tree[n].children[i]

(***************************************************************************)
(* walk_path up to its loop.  Leading slashes are passed over, but         *)
(* path_len keeps counting them: a path of slashes alone has one element,  *)
(* which is empty.                                                         *)
(***************************************************************************)
NoSlashes(p) == LET i == SelectInSeq(p, LAMBDA c : c # Slash)
                IN  IF i = 0 THEN <<>> ELSE SubSeq(p, i, Len(p))

Enter(dir, p) ==
  [node |-> IF p # <<>> /\ p[1] = Slash THEN Root ELSE dir,
   more |-> p # <<>>,                   \* path_elem is not NULL
   elem |-> NoSlashes(p),               \* path_elem
   len  |-> ElemLen(NoSlashes(p)),
   at   |-> "loop"]                     \* or in the walk of a link, of the rest

Top == walks[Len(walks)]
Caller == walks[Len(walks) - 1]
SetTop(w) == Append(Front(walks), w)
SetCaller(w) == Append(SubSeq(walks, 1, Len(walks) - 2), w)

WalkPath(dir, p) ==
  /\ walks = <<>>
  /\ call' = [dir |-> dir, path |-> p]
  /\ walks' = <<Enter(dir, p)>>
  /\ result' = NULL
  /\ UNCHANGED tree

-----------------------------------------------------------------------------
\* One turn of the loop.
Looping(types) == walks # <<>> /\ Top.more /\ tree[Top.node].type \in types

\* Into a child.  The next element is compared over the length of this one.
Descended(c) == [Top EXCEPT !.node = c,
                            !.more = HasNext(Top.elem),
                            !.elem = After(Top.elem),
                            !.len = ElemLen(Top.elem)]
Descend ==
  /\ Looping({"VFS_DIR"})
  /\ LET c == Child(Top.node, Top.elem, Top.len)
     IN  c # NULL /\ walks' = SetTop(Descended(c))
  /\ UNCHANGED <<tree, call, result>>

\* return NULL, which each of the callers does in turn.
NotThere ==
  /\ \/ Looping({"VFS_DIR"}) /\ Child(Top.node, Top.elem, Top.len) = NULL
     \/ Looping({"VFS_CDEV", "VFS_FILE"})
  /\ walks' = <<>>
  /\ result' = NULL
  /\ UNCHANGED <<tree, call>>

FollowLink_FileFallsThrough ==                          \* variant: no return
  /\ Looping({"VFS_SYM", "VFS_FILE"})
  /\ Len(walks) < MaxDepth
  /\ LET n == tree[Top.node]
     IN  walks' = Append(SetTop([Top EXCEPT !.at = "link"]),
                         Enter(n.parent, n.symlink))
  /\ UNCHANGED <<tree, call, result>>

\* A link that something follows: walk it from the directory it is in.
FollowLink ==
  /\ Looping({"VFS_SYM"})
  /\ Len(walks) < MaxDepth
  /\ LET n == tree[Top.node]
     IN  walks' = Append(SetTop([Top EXCEPT !.at = "link"]),
                         Enter(n.parent, n.symlink))
  /\ UNCHANGED <<tree, call, result>>

\* Nothing limits the depth, as nothing finds a cycle of links.
LeaveStack ==
  /\ Looping({"VFS_SYM"})
  /\ Len(walks) = MaxDepth
  /\ walks' = <<>>
  /\ result' = Wild
  /\ UNCHANGED <<tree, call>>

-----------------------------------------------------------------------------
\* found: the end of the path.
Found == walks # <<>> /\ ~Top.more

ReturnFound ==
  /\ Found /\ Len(walks) = 1
  /\ walks' = <<>>
  /\ result' = Top.node
  /\ UNCHANGED <<tree, call>>

\* The link led to a node: walk the rest of the path from it.
WalkRest ==
  /\ Found /\ Len(walks) > 1 /\ Caller.at = "link"
  /\ \E junk \in Junk :
       walks' = Append(SetCaller([Caller EXCEPT !.at = "rest"]),
                       Enter(Top.node, Caller.elem \o junk))
  /\ UNCHANGED <<tree, call, result>>

RestFound_LoopsOn ==                                    \* variant: no goto
  /\ Found /\ Len(walks) > 1 /\ Caller.at = "rest"
  /\ walks' = SetCaller([Caller EXCEPT !.node = Top.node])
  /\ UNCHANGED <<tree, call, result>>

\* The rest led to a node: that is found.
RestFound ==
  /\ Found /\ Len(walks) > 1 /\ Caller.at = "rest"
  /\ walks' = SetCaller([Caller EXCEPT !.node = Top.node, !.more = FALSE])
  /\ UNCHANGED <<tree, call, result>>

WalkStep == \/ Descend \/ NotThere \/ FollowLink \/ LeaveStack
            \/ ReturnFound \/ WalkRest \/ RestFound

NoCall == [dir |-> NULL, path |-> <<>>]

WalkInit ==
  /\ tree \in Trees
  /\ call = NoCall
  /\ walks = <<>>
  /\ result = NULL

\* One call, from a directory.
WalkNext ==
  \/ \E dir \in DOMAIN tree, p \in Paths :
       /\ call.dir = NULL
       /\ tree[dir].type = "VFS_DIR"
       /\ WalkPath(dir, p)
  \/ WalkStep

WalkSpec == WalkInit /\ [][WalkNext]_vars
FairWalkSpec == WalkSpec /\ WF_vars(WalkStep)

-----------------------------------------------------------------------------
(***************************************************************************)
(* Types.  A walk stays in the tree and in the bytes of its path; all but  *)
(* the last walk of the stack stand on a link and wait.                    *)
(***************************************************************************)
WalkTypeOK ==
  /\ tree \in Trees
  /\ call.dir \in DOMAIN tree \union {NULL} /\ call.path \in Strings
  /\ result \in DOMAIN tree \union {NULL, Wild}
  /\ Len(walks) <= MaxDepth
  /\ \A i \in 1 .. Len(walks) :
       /\ walks[i].node \in DOMAIN tree
       /\ walks[i].more \in BOOLEAN
       /\ walks[i].elem \in Strings
       /\ walks[i].len \in Nat
       /\ IF i = Len(walks) THEN walks[i].at \in {"loop", "rest"}
          ELSE walks[i].at \in {"link", "rest"} /\ walks[i].more
                 /\ tree[walks[i].node].type = "VFS_SYM"

(***************************************************************************)
(* The reference: a path is cut at its slashes, of which several in a row  *)
(* and one at the end count as one, and each of its elements names the     *)
(* child that has just that name.                                          *)
(***************************************************************************)
Cut(es, c) ==
  IF c # Slash THEN Append(Front(es), Append(Last(es), c))
  ELSE IF Last(es) = <<>> THEN es ELSE Append(es, <<>>)

Elements(p) ==
  LET es == FoldLeft(Cut, << <<>> >>, p)
  IN  IF Last(es) = <<>> THEN Front(es) ELSE es

ChildNamed(n, e) ==
  LET i == IF n = NULL THEN 0
           ELSE SelectInSeq(tree[n].children, LAMBDA c : tree[c].name = e)
  IN  IF i = 0 THEN NULL ELSE tree[n].children[i]

Start(dir, p) == IF p # <<>> /\ p[1] = Slash THEN Root ELSE dir
Resolve(dir, p) == FoldLeft(ChildNamed, Start(dir, p), Elements(p))

Returned == call.dir # NULL /\ walks = <<>> /\ result # Wild

\* An element, then slashes and elements in turn.
Regular(p) ==
  LET q == NoSlashes(p)
  IN  \A i \in 1 .. Len(q) : q[i] = Slash => i < Len(q) /\ q[i + 1] # Slash

(***************************************************************************)
(* A path that names a node leads to it, if its elements do not get        *)
(* shorter but for the last, and if in no directory on the way two names   *)
(* begin alike over the length that the walk compares: that of the element *)
(* before (walk_path.c:64-66).  The paths that the boot opens are such.    *)
(***************************************************************************)
Unambiguous(dir, p) ==
  LET es == Elements(p)
      len(k) == Len(es[IF k = 1 THEN 1 ELSE k - 1])
      At(k) == FoldLeft(ChildNamed, Start(dir, p), SubSeq(es, 1, k - 1))
      Alike(k) == {i \in 1 .. Len(tree[At(k)].children) :
                     SameStart(tree[tree[At(k)].children[i]].name, es[k],
                               len(k))}
  IN  /\ Regular(p) /\ (es = <<>> => p = <<>>)
      /\ \A k \in 2 .. Len(es) - 1 : len(k) <= Len(es[k])
      /\ \A k \in 1 .. Len(es) : \A i, j \in Alike(k) : i = j

NamedIsFound ==
  /\ Returned
  /\ Resolve(call.dir, call.path) # NULL
  /\ Unambiguous(call.dir, call.path)
  => result = Resolve(call.dir, call.path)

(***************************************************************************)
(* In a tree without links whose names, and for a path whose elements, all *)
(* have one length, the walk finds what the path names and nothing else    *)
(* (walk_path.c:58-75).                                                    *)
(***************************************************************************)
OneLength(t, p) ==
  LET names == {t[n].name : n \in DOMAIN t \ {Root}} \union ToSet(Elements(p))
  IN  /\ \A a, b \in names : Len(a) = Len(b)
      /\ \A n \in DOMAIN t : t[n].type # "VFS_SYM"

OnlyNamedIsFound ==
  /\ Returned
  /\ OneLength(tree, call.path) /\ Regular(call.path)
  /\ Elements(call.path) = <<>> => call.path = <<>>
  => result = Resolve(call.dir, call.path)

(***************************************************************************)
(* A call returns, on whatever path and through whatever links: the loop   *)
(* of walk_path leaves the path or the tree (walk_path.c:53-93).           *)
(***************************************************************************)
WalkEnds == walks # <<>> ~> walks = <<>>

(***************************************************************************)
(* "Path is in the form (.* /)+/?" (walk_path.c:48-49): the path of a      *)
(* directory whose elements are each followed by a slash is found like one *)
(* that ends without.                                                      *)
(***************************************************************************)
SlashMayEnd ==
  LET p == call.path
      n == Resolve(call.dir, p)
  IN  /\ Returned /\ Len(p) > 1 /\ p[Len(p)] = Slash
      /\ n # NULL /\ tree[n].type = "VFS_DIR"
      /\ Unambiguous(call.dir, Front(p)) /\ Elements(p) # <<>>
      => result = n
=============================================================================
