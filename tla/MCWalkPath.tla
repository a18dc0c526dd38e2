----------------------------- MODULE MCWalkPath -----------------------------
(***************************************************************************)
(* All paths of up to five characters over two letters and the slash, in   *)
(* trees with names that begin alike, with links (to a directory, to a     *)
(* file, to the root, to a link, to nothing), with a link to itself, and   *)
(* with names of one length.                                               *)
(***************************************************************************)
EXTENDS WalkPath

MCChars == {"a", "b"}
MCPaths == UNION {[1 .. n -> MCChars \union {"/"}] : n \in 0 .. 5}
MCJunk == {<<>>, <<"b">>}

Node(type, name, parent, children, symlink) ==
  [type |-> type, name |-> name, parent |-> parent,
   children |-> children, symlink |-> symlink]
Dir(name, parent, children) == Node("VFS_DIR", name, parent, children, <<>>)
Link(name, parent, symlink) == Node("VFS_SYM", name, parent, <<>>, symlink)
File(name, parent) == Node("VFS_FILE", name, parent, <<>>, <<>>)
Dev(name, parent) == Node("VFS_CDEV", name, parent, <<>>, <<>>)

A == <<"a">>
B == <<"b">>
AA == <<"a", "a">>
AB == <<"a", "b">>
BA == <<"b", "a">>
BB == <<"b", "b">>

Prefixed ==
  <<Dir(<<"/">>, 0, <<2, 5, 8>>),
      Dir(AB, 1, <<3, 4>>),
        File(A, 2), Dir(BA, 2, <<>>),
      Dir(A, 1, <<6, 7>>),
        Dev(BB, 5), Dir(B, 5, <<9>>),
      File(BA, 1), File(A, 7)>>

Linked ==
  <<Dir(<<"/">>, 0, <<2, 4, 5, 6, 7, 8>>),
      Dir(A, 1, <<3, 9>>),
        File(B, 2),
      Link(B, 1, A), Link(BA, 1, B), Link(AB, 1, <<"a", "/", "b">>),
      Link(BB, 1, <<"b", "b", "a">>),
      Link(AA, 1, <<"/">>),
        Link(BA, 2, <<>>)>>

Cyclic == <<Dir(<<"/">>, 0, <<2, 3>>), Link(A, 1, A), File(B, 1)>>

Equal ==
  <<Dir(<<"/">>, 0, <<2, 3>>),
      Dir(A, 1, <<4, 5>>), File(B, 1),
        Dir(A, 2, <<6>>), Dev(B, 2),
          File(B, 4)>>

MCTrees == {Prefixed, Linked, Cyclic, Equal}
=============================================================================
