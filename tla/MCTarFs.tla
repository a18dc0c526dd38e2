------------------------------ MODULE MCTarFs -------------------------------
(***************************************************************************)
(* Archives as the build makes them, out of order, of the other format,    *)
(* without their end, with a header too many, and none at all.             *)
(***************************************************************************)
EXTENDS TarFs

Octal(n) == <<n \div 8, n % 8>>
H(type, name, size, link) ==
  [format |-> "ustar", name |-> name, type |-> type, size |-> Octal(size),
   link |-> link]
D(name) == H(TAR_DIR, name, 0, <<>>)
F(name, size) == H("0", name, size, <<>>)
L(name, link) == H(TAR_SYMLINK, name, 0, link)
M(cmdline, entries, zeros) ==
  [cmdline |-> cmdline, entries |-> entries, zeros |-> zeros]

\* The layout that setup_initrd and build make.
Built == <<L(<<"bin">>, <<"usr", "bin">>), D(<<"dev">>), D(<<"usr">>),
           D(<<"usr", "bin">>), F(<<"usr", "bin", "init">>, 5),
           D(<<"usr", "lib">>), D(<<"usr", "lib", "modules">>),
           F(<<"usr", "lib", "modules", "serial">>, 4),
           F(<<"readme">>, 1)>>
\* Neighbours of each size around a block, and a hard link.
Sizes == <<F(<<"a">>, 0), F(<<"b">>, 3), F(<<"c">>, 4),
           H("1", <<"d">>, 0, <<"a">>), F(<<"e">>, 9)>>
Gnu == [i \in DOMAIN Sizes |-> [Sizes[i] EXCEPT !.format = "gnu"]]
GnuLater == [Sizes EXCEPT ![3].format = "gnu"]
Orphan == <<D(<<"usr">>), F(<<"usr", "bin", "init">>, 1)>>
Scattered == <<D(<<"a">>), D(<<"b">>), F(<<"b", "x">>, 1), F(<<"a", "x">>, 1)>>
Deep == <<D(<<"a">>), D(<<"a", "b">>), F(<<"a", "b", "x">>, 2),
          D(<<"b">>), F(<<"b", "x">>, 2)>>
Slash == <<D(<<>>), F(<<"a">>, 1)>>
Full == <<D(<<"a">>), F(<<"a", "x">>, 1), F(<<"a", "y">>, 1),
          F(<<"a", "z">>, 1), F(<<"a", "w">>, 1)>>
Twice == <<F(<<"a">>, 2), D(<<"a">>), F(<<"a", "x">>, 2)>>

Archives == {Built, Sizes, Gnu, GnuLater, Orphan, Scattered, Deep, Slash, Full,
             Twice, <<>>}
Alone == {<<M("initrd", a, z)>> : a \in Archives, z \in 0 .. 1}
Several == {<<M("initrd", Sizes, 2), M("initrd", Deep, 2), M("other", Built, 2)>>,
            <<M("other", Built, 2)>>, <<>>}
MCBoots == Alone \union Several
MCRanges == {<<1, 0>>, <<4, 0>>, <<5, 0>>, <<2, 3>>, <<4, 5>>}
=============================================================================
