------------------------------ MODULE MCFiles ------------------------------
(***************************************************************************)
(* An archive with a directory, a module and a link to itself, a program   *)
(* that asks for anything on five paths, room for one more node in a       *)
(* directory, two descriptors.                                             *)
(***************************************************************************)
EXTENDS Files

MCChars == {"c", "d", "l", "m", "n"}
C == <<"c">>
L == <<"l">>
N == <<"n">>
MCPaths == {<<"d", "/", "c">>, <<"m">>, N, <<"n", "/", "c">>,
            <<"l", "/", "m">>}
MCJunk == {<<>>, C}
MCNames == {<<"m">>}
MCMajors == {1}
MCFds == {-1, 0}

Node0(type, name, parent, children, symlink, module) ==
  [type |-> type, name |-> name, parent |-> parent, children |-> children,
   symlink |-> symlink, fops |-> "tar_fops", major |-> 0, module |-> module,
   user |-> FALSE]
MCTrees ==
  {<<Node0("VFS_DIR", <<"/">>, 0, <<2, 3, 4>>, <<>>, 0),
       Node0("VFS_DIR", <<"d">>, 1, <<>>, <<>>, 0),
       Node0("VFS_FILE", <<"m">>, 1, <<>>, <<>>, 1),
       Node0("VFS_SYM", L, 1, <<>>, L, 0)>>}
=============================================================================
