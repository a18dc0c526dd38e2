------------------------------- MODULE Loader -------------------------------
(***************************************************************************)
(* How files become code: exec_elf reads a program into buffers for        *)
(* exec_process (which Vm and UserStack have), load_module places a module *)
(* in the kernel's window, resolves its symbols and finds init_module.     *)
(*                                                                         *)
(* Memory is counted in words, of which a relocation changes one; NULL is  *)
(* address 0.  The window of request_pages is WINDOW .. WINDOW_END; an     *)
(* address behind what was handed out is not mapped, and the page fault is *)
(* a panic.  kmalloc is taken to succeed, and fresh pages are blank.       *)
(***************************************************************************)
EXTENDS Integers, SequencesExt, FiniteSetsExt

CONSTANTS
  Files,               \* what may be loaded
  Exports,             \* the names in section .export.sym
  PAGE_SIZE,           \* words of a page
  WINDOW, WINDOW_END   \* VM_BEGIN_REQUEST, VM_END_REQUEST

NULL == 0
INIT == "init_module"

(***************************************************************************)
(* What of an ELF file is looked at, a value that is not told apart from   *)
(* others being "other".                                                   *)
(***************************************************************************)
Ident == [EI_MAG : {"ELFMAG", "other"}, EI_CLASS : {"ELFCLASS64", "other"},
          EI_DATA : {"ELFDATA2LSB", "other"}, EI_VERSION : {"EV_CURRENT", "other"}]
Ehdr == [e_ident : Ident, e_type : {"ET_EXEC", "ET_DYN", "other"},
         e_machine : {"EM_X86_64", "other"}, e_version : {"EV_CURRENT", "other"}]

SegmentTypes == {"PT_LOAD", "PT_DYNAMIC", "other"}
Phdrs == {p \in [type : SegmentTypes, vaddr : Nat, w : BOOLEAN, memsz : Nat,
                  filesz : Nat] : p.filesz <= p.memsz}

\* Where a table lies, counted in its own entries, or a size or number of them.
Tags == {"DT_SYMTAB", "DT_STRTAB", "DT_STRSZ", "DT_HASH", "DT_RELA", "DT_RELASZ",
         "DT_JMPREL", "DT_PLTRELSZ", "other"}
Dyn == [d_tag : Tags, d_val : Nat]
Sym == [name : STRING, value : Nat]

(***************************************************************************)
(* A file is [hdr, as, unread, phdrs, relocs, dynamic, syms]: its header   *)
(* and what it is loaded as, "exec" or "module"; the reads that fail, of a *)
(* segment or, 0, of the headers; its program headers; the relocations     *)
(* [at, sym] that lie one behind the other; its dynamic section; and its   *)
(* symbols from index 1, of which the hash table gives the number.  That   *)
(* the dynamic section cannot be read, which load_module does not look at, *)
(* is left out.                                                            *)
(***************************************************************************)
Constants ==
  /\ PAGE_SIZE \in Nat \ {0}
  /\ WINDOW \in Nat \ {0} /\ WINDOW_END \in Nat /\ WINDOW <= WINDOW_END
  \* Twice an address of the window is not in it.
  /\ WINDOW_END < 2 * WINDOW
  /\ \A f \in Files :
       /\ f.as \in {"exec", "module"} /\ f.hdr \in Ehdr
       /\ \A n \in f.unread : n = 0 \/ f.phdrs[n].type = "PT_LOAD"
       /\ f.phdrs \in Seq(Phdrs) /\ f.dynamic \in Seq(Dyn) /\ f.syms \in Seq(Sym)
       /\ f.relocs \in Seq([at : Nat, sym : 0 .. Len(f.syms)])

VARIABLES
  stage,       \* "header", "phdrs", "place", "resolve", "lookup", or its end
  file,
  i,           \* the header, mapping, relocation or symbol that comes next
  mappings,    \* what they hold: begin, end, data_ref, w
  base_vaddr, max_vaddr,
  base_addr,
  dynamic,     \* whether a PT_DYNAMIC was read
  head,        \* vm_arena_head
  mem          \* the words of the window that were written

image == <<base_vaddr, max_vaddr, base_addr, dynamic>>
vars == <<stage, file, i, mappings, image, head, mem>>

Init ==
  /\ stage = "header" /\ file \in Files /\ i = 1
  /\ mappings = <<>>
  /\ base_vaddr = 0 /\ max_vaddr = 0 /\ base_addr = NULL /\ dynamic = FALSE
  /\ head = WINDOW /\ mem = <<>>

Ends(s) == stage' = s /\ UNCHANGED <<file, i, mappings, image, head, mem>>

-----------------------------------------------------------------------------
\* The identification, type, machine and version; then the program headers.
TypeFor == IF file.as = "exec" THEN "ET_EXEC" ELSE "ET_DYN"
Taken == [EI_MAG |-> "ELFMAG", EI_CLASS |-> "ELFCLASS64",
          EI_DATA |-> "ELFDATA2LSB", EI_VERSION |-> "EV_CURRENT"]
Accepted ==
  /\ 0 \notin file.unread
  /\ file.hdr = [e_ident |-> Taken, e_type |-> TypeFor,
                 e_machine |-> "EM_X86_64", e_version |-> "EV_CURRENT"]

ReadHeader ==
  /\ stage = "header" /\ Accepted
  /\ stage' = "phdrs"
  /\ UNCHANGED <<file, i, mappings, image, head, mem>>

Refused == stage = "header" /\ ~Accepted /\ Ends("refused")

-----------------------------------------------------------------------------
Phdr == file.phdrs[i]
InPhdrs == stage = "phdrs" /\ i <= Len(file.phdrs)

\* The number of bytes of the pages, passed as the number of pages.
NPages(size) == (size \div PAGE_SIZE + 1) * PAGE_SIZE

\* request_pages: the window has no room, memory has none, or it is there.
Fits(n) == head + PAGE_SIZE * n <= WINDOW_END
Request(n, addr) ==
  IF Fits(n) THEN addr \in {NULL, head} /\ head' = head + PAGE_SIZE * n
             ELSE addr = NULL /\ UNCHANGED head

Mapped(first, n) == n = 0 \/ (first >= WINDOW /\ first + n <= head)
Written(first, content) ==
  [a \in first .. first + Len(content) - 1 |-> content[a - first + 1]]
\* Memory with some of its words written.
Upon(words, old) ==
  [a \in DOMAIN words \union DOMAIN old |->
     IF a \in DOMAIN words THEN words[a] ELSE old[a]]
Content(n) == [w \in 1 .. file.phdrs[n].filesz |-> <<"file", n, w>>]

SkipPhdr ==
  /\ InPhdrs /\ Phdr.type = "other"
  /\ i' = i + 1
  /\ UNCHANGED <<stage, file, mappings, image, head, mem>>

DynamicPhdr ==
  /\ InPhdrs /\ Phdr.type = "PT_DYNAMIC"
  /\ dynamic' = (dynamic \/ file.as = "module") /\ i' = i + 1
  /\ UNCHANGED <<stage, file, mappings, base_vaddr, max_vaddr, base_addr,
                 head, mem>>

\* load_module takes its extent from the first and the last header.
Extent ==
  IF file.as = "module" /\ i = 1
  THEN base_vaddr' = Phdr.vaddr /\ max_vaddr' = Phdr.memsz
  ELSE IF file.as = "module" /\ i = Len(file.phdrs)
  THEN max_vaddr' = Phdr.vaddr /\ UNCHANGED base_vaddr
  ELSE UNCHANGED <<base_vaddr, max_vaddr>>

Flag_Always(p) == TRUE                                           \* variant
Flag(p) == p.w

Mapping(ref) == [begin |-> Phdr.vaddr, end |-> Phdr.vaddr + Phdr.memsz,
                 data_ref |-> ref, w |-> Flag(Phdr)]

LoadPhdr ==
  /\ InPhdrs /\ Phdr.type = "PT_LOAD"
  /\ Extent
  /\ \E addr \in {NULL, head} :
       /\ Request(NPages(Phdr.memsz), addr)
       /\ IF i \in file.unread
          THEN stage' = "refused" /\ UNCHANGED <<i, mappings, mem>>
          ELSE IF addr = NULL /\ Phdr.filesz > 0
          THEN stage' = "panic" /\ UNCHANGED <<i, mappings, mem>>
          ELSE /\ mem' = Upon(Written(addr, Content(i)), mem)
               /\ mappings' = Append(mappings, Mapping(addr))
               /\ i' = i + 1 /\ UNCHANGED stage
  /\ UNCHANGED <<file, base_addr, dynamic>>

ExecProcess ==
  /\ stage = "phdrs" /\ i > Len(file.phdrs) /\ file.as = "exec"
  /\ Ends("exec_process")

-----------------------------------------------------------------------------
NoDynamic ==
  /\ stage = "phdrs" /\ i > Len(file.phdrs)
  /\ file.as = "module" /\ ~dynamic
  /\ Ends("refused")

\* A size below zero is one of almost all addresses: memory runs out, and
\* head wraps, which nothing here looks at any more.
memsize == max_vaddr - base_vaddr
PlaceImage ==
  /\ stage = "phdrs" /\ i > Len(file.phdrs) /\ file.as = "module" /\ dynamic
  /\ \E addr \in {NULL, head} :
       /\ IF memsize >= 0 THEN Request(NPages(memsize), addr)
          ELSE addr = NULL /\ UNCHANGED head
       /\ IF addr = NULL THEN stage' = "refused" /\ UNCHANGED <<i, base_addr>>
          ELSE /\ stage' = "place" /\ i' = 1
               /\ base_addr' = addr + base_vaddr
  /\ UNCHANGED <<file, mappings, base_vaddr, max_vaddr, dynamic, mem>>

(***************************************************************************)
(* The loop counts the mappings, but mappings-> is always the first.       *)
(***************************************************************************)
Which == 1
Moved == [mappings[Which] EXCEPT !.begin = @ + base_addr, !.end = @ + base_addr]
Word(a) == IF a \in DOMAIN mem THEN mem[a] ELSE <<"blank", 0, 0>>
Copied(m) == [n \in 1 .. m.end - m.begin |-> Word(m.data_ref + n - 1)]

CopyMapping ==
  /\ stage = "place" /\ i <= Len(mappings)
  /\ LET size == Moved.end - Moved.begin
     IN  IF Mapped(Moved.begin, size) /\ Mapped(Moved.data_ref, size)
         THEN /\ mappings' = [mappings EXCEPT ![Which] = Moved]
              /\ mem' = Upon(Written(Moved.begin, Copied(Moved)), mem)
              /\ i' = i + 1 /\ UNCHANGED stage
         ELSE stage' = "panic" /\ UNCHANGED <<i, mappings, mem>>
  /\ UNCHANGED <<file, image, head>>

-----------------------------------------------------------------------------
(***************************************************************************)
(* resolve_syms and lookup_sym read the dynamic section, the last entry    *)
(* of a tag counting, and of the sizes of relocations their sum.  Behind   *)
(* the relocations lies what has no symbol: the dynamic section itself, in *)
(* a module as the build makes it.                                         *)
(***************************************************************************)
Has(tag) == \E e \in ToSet(file.dynamic) : e.d_tag = tag
Value(tag) ==
  LET at == SelectLastInSeq(file.dynamic, LAMBDA e : e.d_tag = tag)
  IN  file.dynamic[at].d_val
Sizes_RelaOnly == {"DT_RELASZ"}                                  \* variant
Sizes == {"DT_RELASZ", "DT_PLTRELSZ"}
SizeIn(e) == IF e.d_tag \in Sizes THEN e.d_val ELSE 0
relalen == FoldLeft(+, 0, [k \in DOMAIN file.dynamic |-> SizeIn(file.dynamic[k])])

HasSymbols == Has("DT_SYMTAB") /\ Has("DT_STRTAB")
HasRelocs == Has("DT_RELA") \/ Has("DT_JMPREL")
rela == IF Has("DT_RELA") THEN Value("DT_RELA") ELSE Value("DT_JMPREL")
Reloc == IF rela + i <= Len(file.relocs) THEN file.relocs[rela + i]
         ELSE [at |-> 0, sym |-> 0]

BeginResolve ==
  /\ stage = "place" /\ i > Len(mappings)
  /\ stage' = IF HasSymbols /\ HasRelocs THEN "resolve" ELSE "lookup"
  /\ i' = 1
  /\ UNCHANGED <<file, mappings, image, head, mem>>

SameName(a, b) == a = b                                \* strcmp
Resolves ==
  Reloc.sym # 0 /\ \E e \in Exports : SameName(file.syms[Reloc.sym].name, e)

Relocate ==
  /\ stage = "resolve" /\ i <= relalen
  /\ i' = i + 1
  /\ IF ~Resolves THEN UNCHANGED <<stage, mem>>
     ELSE LET name == file.syms[Reloc.sym].name
          IN  /\ mem' = Upon(Written(base_addr + Reloc.at,
                                     << <<"export", name, 0>> >>), mem)
              /\ UNCHANGED stage
  /\ UNCHANGED <<file, mappings, image, head>>

BeginLookup ==
  /\ stage = "resolve" /\ i > relalen
  /\ stage' = "lookup" /\ i' = 1
  /\ UNCHANGED <<file, mappings, image, head, mem>>

\* lookup_sym: the first symbol of that name, of the number that the hash table
\* gives, the one without a name at 0 included.  A name lies in the string
\* table if the size of that is known.
Lookup ==
  /\ stage = "lookup"
  /\ LET at == SelectInSeq(file.syms, LAMBDA s : SameName(s.name, INIT))
         known == Has("DT_HASH") /\ Has("DT_STRSZ")
     IN  IF HasSymbols /\ known /\ at # 0 /\ at < Value("DT_HASH")
         THEN stage' = "loaded" /\ i' = file.syms[at].value + base_addr
         ELSE stage' = "refused" /\ i' = i
  /\ UNCHANGED <<file, mappings, image, head, mem>>

Next ==
  \/ ReadHeader \/ Refused
  \/ SkipPhdr \/ DynamicPhdr \/ LoadPhdr \/ ExecProcess
  \/ NoDynamic \/ PlaceImage \/ CopyMapping
  \/ BeginResolve \/ Relocate \/ BeginLookup \/ Lookup

Spec == Init /\ [][Next]_vars

-----------------------------------------------------------------------------
Loads == {n \in DOMAIN file.phdrs : file.phdrs[n].type = "PT_LOAD"}
LoadsTo(n) == Cardinality({k \in Loads : k <= n})

(***************************************************************************)
(* exec_process is given the program's segments, in their order, with      *)
(* their addresses and rights, each with the bytes of the file followed by *)
(* blank ones, up to its length in memory (exec_elf.c:50-78).              *)
(***************************************************************************)
ProgramPrepared ==
  stage = "exec_process" =>
    /\ Len(mappings) = Cardinality(Loads)
    /\ \A n \in Loads :
         LET p == file.phdrs[n] m == mappings[LoadsTo(n)]
         IN  /\ m.begin = p.vaddr /\ m.end - m.begin = p.memsz /\ m.w = p.w
             /\ p.filesz > 0 => Mapped(m.data_ref, p.memsz)
             /\ p.filesz > 0 => Copied(m) =
                  Content(n) \o [w \in 1 .. p.memsz - p.filesz |->
                                   <<"blank", 0, 0>>]

(***************************************************************************)
(* A module that is run is in memory as it is in its file, but for the     *)
(* words of relocations; each relocation whose symbol the kernel exports   *)
(* has its address, also those of the second table; and it is entered at   *)
(* init_module (load_module.c:118-134, 179-224).  The file's relocations   *)
(* are in its two tables, of which the second begins in the first or at    *)
(* its end, as the code reads both as one.                                 *)
(***************************************************************************)
Number(tag) == IF Has(tag) THEN Value(tag) ELSE 0
Table(start, size) ==
  IF Has(start) THEN Value(start) + 1 .. Value(start) + Number(size) ELSE {}
TablesHold ==
  /\ DOMAIN file.relocs \subseteq Table("DT_RELA", "DT_RELASZ")
                                \union Table("DT_JMPREL", "DT_PLTRELSZ")
  /\ Has("DT_RELA") /\ Has("DT_JMPREL") =>
       Value("DT_JMPREL") - Value("DT_RELA") \in 0 .. Number("DT_RELASZ")

InTables == {r \in ToSet(file.relocs) : r.sym # 0 /\ HasRelocs}
ModuleReady ==
  stage = "loaded" /\ Loads # {} /\ (HasRelocs => TablesHold) =>
    LET n == Min(Loads) p == file.phdrs[n]
    IN  /\ \E s \in ToSet(file.syms) :
             s.name = INIT /\ i = base_addr + s.value
        /\ \A w \in 1 .. p.filesz :
             LET a == base_addr + p.vaddr + w - 1
                 rs == {r \in InTables : base_addr + r.at = a}
             IN  \/ \E r \in rs : Word(a) = <<"export", file.syms[r.sym].name, 0>>
                 \/ /\ \A r \in rs : file.syms[r.sym].name \notin Exports
                    /\ Word(a) = <<"file", n, w>>
=============================================================================
