------------------------------ MODULE MCProgram ------------------------------
(***************************************************************************)
(* Programs and modules as the build makes them, with their relocation     *)
(* tables apart and overlapping, and unusual ones; each also with a read   *)
(* that fails.                                                             *)
(***************************************************************************)
EXTENDS Program

Ph(type, vaddr, filesz, memsz, w) ==
  [type |-> type, vaddr |-> vaddr, filesz |-> filesz, memsz |-> memsz, w |-> w]
Load(vaddr, filesz, memsz, w) == Ph("PT_LOAD", vaddr, filesz, memsz, w)
DynPh == Ph("PT_DYNAMIC", 0, 1, 1, TRUE)
Stack == Ph("other", 0, 0, 0, TRUE)

Ident == [EI_MAG |-> "ELFMAG", EI_CLASS |-> "ELFCLASS64",
          EI_DATA |-> "ELFDATA2LSB", EI_VERSION |-> "EV_CURRENT"]
Hdr(type) == [e_ident |-> Ident, e_type |-> type, e_machine |-> "EM_X86_64",
              e_version |-> "EV_CURRENT"]
Exec(phdrs) ==
  [hdr |-> Hdr("ET_EXEC"), as |-> "exec", unread |-> {},
   phdrs |-> phdrs, relocs |-> <<>>, dynamic |-> <<>>, syms |-> <<>>]

R(at, sym) == [at |-> at, sym |-> sym]
Sym(name, value) == [name |-> name, value |-> value]
D(tag, val) == [d_tag |-> tag, d_val |-> val]
Syms == <<Sym("kmalloc", 0), Sym("register_chrdev", 0), Sym("open_serial", 1),
          Sym("init_module", 2)>>
\* Relocations of data, if any, and then those of the procedure linkage table.
Relocs(n, all) ==
  (IF n = 0 THEN <<>> ELSE <<D("DT_RELA", 0), D("DT_RELASZ", n), D("other", 1)>>)
  \o <<D("DT_PLTRELSZ", all - n), D("DT_JMPREL", n)>>
Tables(hash) == <<D("DT_HASH", hash), D("DT_STRTAB", 0), D("DT_SYMTAB", 0),
                  D("DT_STRSZ", 9)>>
Module(phdrs) ==
  [hdr |-> Hdr("ET_DYN"), as |-> "module", unread |-> {},
   phdrs |-> phdrs, relocs |-> <<R(4, 1), R(5, 2), R(6, 3)>>,
   dynamic |-> Tables(5) \o Relocs(1, 3), syms |-> Syms]
Built == Module(<<Load(0, 8, 8, TRUE), DynPh, Stack>>)

Programs == {Exec(ps) : ps \in
  {<<Load(16, 3, 4, TRUE), Stack>>,
   <<Load(16, 4, 4, FALSE), Load(24, 2, 9, TRUE), Stack>>,
   <<Stack, Load(16, 0, 3, TRUE)>>, <<Load(16, 1, 60, TRUE)>>,
   <<Load(16, 0, 60, FALSE), Load(80, 5, 5, FALSE)>>, <<>>}}
Modules ==
  {Built, [Built EXCEPT !.dynamic = Tables(5) \o Relocs(1, 4)],
   [Built EXCEPT !.dynamic = Tail(@)],
   [Built EXCEPT !.relocs = <<R(4, 1), R(5, 0), R(5, 2)>>],
   [Built EXCEPT !.dynamic = Tables(5) \o Relocs(0, 3)],
   [Built EXCEPT !.dynamic = Tables(5)], [Built EXCEPT !.dynamic = Relocs(1, 3)],
   [Built EXCEPT !.dynamic = Front(Tables(5)) \o Relocs(1, 3)],
   [Built EXCEPT !.syms = SubSeq(Syms, 1, 3), !.dynamic = Tables(4) \o Relocs(1, 3)],
   Module(<<Load(0, 8, 8, TRUE), Stack>>),
   Module(<<DynPh, Load(0, 7, 9, TRUE), Stack>>),
   Module(<<DynPh, Load(2, 6, 6, TRUE)>>),
   Module(<<Load(0, 4, 4, FALSE), Load(4, 4, 4, TRUE), DynPh>>),
   Module(<<Load(4, 8, 8, TRUE), DynPh>>), Module(<<Load(20, 8, 8, TRUE), DynPh>>),
   Module(<<DynPh>>)}
Sound == Programs \union Modules
Wrong == {[Built EXCEPT !.hdr.e_ident.EI_CLASS = "other"],
          [Built EXCEPT !.hdr.e_machine = "other"], [Built EXCEPT !.as = "exec"],
          [Built EXCEPT !.unread = {0}]}
MCFiles_ == Sound \union Wrong
             \union UNION {{[f EXCEPT !.unread = {n}] : n \in
                  {k \in DOMAIN f.phdrs : f.phdrs[k].type = "PT_LOAD"}} :
                    f \in Sound}
MCExports == {"kmalloc", "register_chrdev"}
\* Strings: empty, short, longer than a page; some stacks fill their pages.
MCStrings == {0, 1, 4, 9}
=============================================================================
