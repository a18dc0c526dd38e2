--------------------------------- MODULE Vm ---------------------------------
(***************************************************************************)
(* The memory core of modOS: the physical bump allocator (alloc_pages),    *)
(* the four-level page tables and the walk that fills them with its path   *)
(* caches (map_pages.c), the kernel's virtual arena (request_pages), and   *)
(* the callers that drive them from boot to the first user instruction:    *)
(* setup_vm, init_madt and exec_process.                                   *)
(*                                                                         *)
(* Addresses are counted in pages: a virtual page is a number below        *)
(* NV = L^4 (48-bit addresses cut to their page number), a physical frame  *)
(* a number that is a physical address over PAGE_SIZE.  Only the segments  *)
(* of a program are given in bytes, because load_mapping rounds them.      *)
(* Page-table frames are read back as the walk finds them, and the code    *)
(* never clears a frame: that RAM starts blank is an assumption, visible   *)
(* in Init.  A word of a frame that holds data is never read as a          *)
(* page-table entry, so data is not modelled.                              *)
(*                                                                         *)
(* A definition whose name has the form X_Y stands just before X: it is X  *)
(* with a plausible bug, which a property of this module must notice.      *)
(***************************************************************************)
EXTENDS Integers, Sequences

CONSTANTS
  L,              \* PTABLE_LEN: entries of a table
  PageSize,       \* PAGE_SIZE, in bytes
  ArenaBegin,     \* first frame of the arena setup_pm found
  RamEnd,         \* bound: no arena reaches this frame
  ArenaEnds,      \* the arena_end values considered, one per machine
  KernelText,     \* KERNEL_TEXT, a virtual page
  KernelPhys,     \* KERNEL_TEXT - KERNEL_RELOC_OFFSET, a frame
  KernelPages,    \* KERNEL_SIZE / PAGE_SIZE
  HhdmBegin,      \* HHDM_BEGIN, a virtual page
  HhdmPages,      \* HHDM_SIZE / PDPTE_COVERAGE, in huge pages
  VmBegin,        \* VM_BEGIN_REQUEST, a virtual page
  VmEnd,          \* VM_END_REQUEST, a virtual page
  Mmio,           \* what init_madt maps, in order: records [v, p]
  StackPages,     \* STACK_SIZE / PAGE_SIZE
  UserStackTop,   \* USER_STACK_TOP, in bytes
  Programs,       \* set of [segs, use]: segments and initial stack size
  ReqSizes        \* page counts the kernel asks request_pages for

Span == <<1, L, L * L, L * L * L>>      \* pages under an entry of a level
NV == L * Span[4]                       \* pages of an address space
Off(l, v) == (v \div Span[l]) % L       \* GET_..._OFFSET of level l
Idx == 0 .. (L - 1)
Half == (L \div 2) * Span[4]             \* first page of the upper half
Arena == ArenaBegin .. (RamEnd - 1)
Levels == 1 .. 4                        \* 4: PML4 ... 1: page table
NULL == 0

PTE == [p : BOOLEAN, w : BOOLEAN, u : BOOLEAN, ps : BOOLEAN, f : Nat]
Absent == [p |-> FALSE, w |-> FALSE, u |-> FALSE, ps |-> FALSE, f |-> 0]
Blank == [i \in Idx |-> Absent]

(***************************************************************************)
(* Rounding of byte addresses to pages, as load_mapping and exec_process   *)
(* do it.                                                                  *)
(***************************************************************************)
FloorPage(b) == b \div PageSize
CeilPages(size) == IF size % PageSize # 0 THEN size \div PageSize + 1
                                          ELSE size \div PageSize
SegPages(s) == CeilPages(s.end - s.begin)
StackAt(use) == FloorPage(UserStackTop - use)

(***************************************************************************)
(* The pages that the kernel writes when it fills a segment (memcpy in     *)
(* load_mapping) and the initial user stack, and that user code then uses. *)
(***************************************************************************)
SegTouched(s) == IF s.end = s.begin THEN {}
                 ELSE FloorPage(s.begin) .. FloorPage(s.end - 1)
StackTouched(use) == StackAt(use) .. FloorPage(UserStackTop - 1)

(***************************************************************************)
(* Assumptions on the constants.                                           *)
(***************************************************************************)
ASSUME SizeAssumption ==
  /\ L \in Nat /\ L >= 2 /\ L % 2 = 0
  /\ PageSize \in Nat \ {0}
  /\ StackPages \in Nat \ {0}

ASSUME ArenaAssumption ==
  /\ ArenaBegin \in Nat \ {0} /\ RamEnd \in Nat /\ ArenaBegin < RamEnd
  /\ ArenaEnds \subseteq ArenaBegin .. RamEnd

(***************************************************************************)
(* The fixed mappings lie in the upper half and their frames are not       *)
(* allocatable: setup_pm cuts the kernel image out of the arena, and       *)
(* device registers are not RAM.                                           *)
(***************************************************************************)
ASSUME LayoutAssumption ==
  /\ KernelText \in Half .. NV /\ KernelPages \in Nat
  /\ KernelText + KernelPages <= NV
  /\ KernelPhys \in Nat
  /\ \A i \in 0 .. (KernelPages - 1) : KernelPhys + i \notin Arena
  /\ HhdmBegin \in Half .. NV /\ HhdmPages \in Nat
  /\ HhdmBegin + HhdmPages * Span[3] <= NV
  /\ Mmio \in Seq([v : Half .. (NV - 1), p : Nat \ Arena])
  /\ VmBegin \in Half .. NV /\ VmEnd \in Half .. NV /\ VmBegin <= VmEnd

(***************************************************************************)
(* The places that link_kernel.ld, hhdm.h, vm.h and init_madt give to the  *)
(* kernel, the direct map, the requests and the device registers: no other *)
(* page shares an entry of the PML4 with the direct map, and the registers *)
(* share one page table, in which no page of the kernel lies.              *)
(***************************************************************************)
KernelImage == KernelText .. (KernelText + KernelPages - 1)
Window == VmBegin .. (VmEnd - 1)
Registers == {Mmio[i].v : i \in 1 .. Len(Mmio)}
HhdmSlots == {Off(4, HhdmBegin + h * Span[3]) : h \in 0 .. (HhdmPages - 1)}

ASSUME SlotAssumption ==
  /\ HhdmBegin % Span[3] = 0
  /\ \A v \in KernelImage \union Window \union Registers :
       Off(4, v) \notin HhdmSlots
  /\ \A v, w \in Registers : \A l \in 2 .. 4 : Off(l, v) = Off(l, w)
  /\ \A v \in KernelImage, w \in Registers : \A l \in 2 .. 3 :
       Off(l, v) # Off(l, w)

(***************************************************************************)
(* exec_elf takes p_vaddr from the file without a check: that segments,    *)
(* rounded to pages, lie in the user half is an assumption on the program. *)
(***************************************************************************)
ASSUME ProgramAssumption ==
  /\ UserStackTop \in Nat /\ UserStackTop <= Half * PageSize
  /\ \A g \in Programs :
       /\ g.segs \in Seq([begin : Nat, end : Nat, w : BOOLEAN])
       /\ \A i \in DOMAIN g.segs :
            /\ g.segs[i].begin <= g.segs[i].end
            /\ g.segs[i].end <= Half * PageSize
            /\ FloorPage(g.segs[i].begin) + SegPages(g.segs[i]) <= Half
       /\ g.use \in 1 .. UserStackTop
       /\ StackAt(g.use) + CeilPages(g.use) <= Half

(***************************************************************************)
(* So is that no segment without PF_W lies under the PML4 entry of the     *)
(* stack: the entry would keep the flags of the segment (map_pages.c:21).  *)
(***************************************************************************)
SegMapped(s) == FloorPage(s.begin) .. (FloorPage(s.begin) + SegPages(s) - 1)
ASSUME StackAssumption ==
  \A g \in Programs : \A i \in DOMAIN g.segs :
    g.segs[i].w \/ \A v \in SegMapped(g.segs[i]), x \in StackTouched(g.use) :
                     Off(4, v) # Off(4, x)

\* The request sizes do not wrap the 64-bit sum of request_pages.c:10.
ASSUME RequestAssumption ==
  /\ \A n \in ReqSizes : n \in Nat /\ VmEnd + n < NV
  /\ VmEnd + StackPages < NV

VARIABLES
  arena_head,     \* next free frame (pm.h)
  arena_end,      \* first frame past the arena
  mem,            \* page-table entries in the arena's frames
  toplevel,       \* the variable toplevel of setup_vm.c
  cr3,            \* the register
  cache,          \* cached_{pml4e,pdpte,pde}_{offset,table}, by level
  vm_arena_head,  \* next virtual page of request_pages
  job,            \* the map_pages call in progress: its arguments, its i
  walk,           \* where the current map_page is
  stage,          \* where the kernel's boot thread is
  k,              \* its loop counter in init_madt and exec_process
  prog,           \* the process being executed
  role,           \* history: what each frame was allocated for
  granted         \* history: the successful request_pages calls

vars == <<arena_head, arena_end, mem, toplevel, cr3, cache, vm_arena_head,
          job, walk, stage, k, prog, role, granted>>

(***************************************************************************)
(* Types of the state.                                                     *)
(***************************************************************************)
Free == 0
Data == 5       \* the roles are Free, a level of table (1 .. 4) and Data

Stages == {"setup_vm", "map_kernel", "map_hhdm", "init_madt", "kernel",
           "load", "map_stack", "args", "kernel_stack", "user",
           "panic", "wild"}
Idle == [st |-> "idle", by |-> "map_pages", v |-> 0, p |-> 0, n |-> 0,
         i |-> 0, w |-> FALSE, u |-> FALSE, huge |-> FALSE]
NoProg == [segs |-> <<>>, use |-> 0]

Init ==
  /\ arena_head = ArenaBegin
  /\ arena_end \in ArenaEnds
  /\ mem = [t \in Arena |-> Blank]
  /\ toplevel = NULL
  /\ cr3 = NULL
  /\ cache = [l \in 2 .. 4 |-> [off |-> 0, tbl |-> NULL]]
  /\ vm_arena_head = VmBegin
  /\ job = Idle
  /\ walk = [lvl |-> 4, tbl |-> NULL, fill |-> FALSE]
  /\ stage = "setup_vm"
  /\ k = 1
  /\ prog = NoProg
  /\ role = [t \in Arena |-> Free]
  /\ granted = {}

(***************************************************************************)
(* What the processor finds for page v under the PML4 top: the entries on  *)
(* the path, whether it is mapped, to which frame, and whether user code   *)
(* may read it and write it (the bits of every level are ANDed).           *)
(***************************************************************************)
Pml4e(top, v) == mem[top][Off(4, v)]
Pdpte(top, v) == mem[Pml4e(top, v).f][Off(3, v)]
Pde(top, v)   == mem[Pdpte(top, v).f][Off(2, v)]
Pte(top, v)   == mem[Pde(top, v).f][Off(1, v)]

Mapped(top, v) ==
  /\ Pml4e(top, v).p
  /\ Pdpte(top, v).p
  /\ Pdpte(top, v).ps \/ (Pde(top, v).p /\ Pte(top, v).p)

FrameOf(top, v) == IF Pdpte(top, v).ps THEN Pdpte(top, v).f + (v % Span[3])
                                       ELSE Pte(top, v).f

UserReads(top, v) ==
  /\ Mapped(top, v)
  /\ Pml4e(top, v).u /\ Pdpte(top, v).u
  /\ Pdpte(top, v).ps \/ (Pde(top, v).u /\ Pte(top, v).u)

UserWrites(top, v) ==
  /\ UserReads(top, v)
  /\ Pml4e(top, v).w /\ Pdpte(top, v).w
  /\ Pdpte(top, v).ps \/ (Pde(top, v).w /\ Pte(top, v).w)

(***************************************************************************)
(* alloc_pages(n): a bump pointer with one bound.                          *)
(***************************************************************************)
CanAlloc_OffByOne(n) ==                 \* variant: bound off by one
  arena_head + n <= arena_end + 1
CanAlloc(n) == arena_head + n <= arena_end
AllocPages_HeadShort(n, r) ==           \* variant: head advanced by n - 1
  /\ arena_head' = arena_head + n - 1
  /\ role' = [t \in Arena |->
                IF t \in arena_head .. (arena_head + n - 1) THEN r
                                                            ELSE role[t]]
AllocPages(n, r) ==
  /\ arena_head' = arena_head + n
  /\ role' = [t \in Arena |->
                IF t \in arena_head .. (arena_head + n - 1) THEN r
                                                            ELSE role[t]]

(***************************************************************************)
(* The start of map_pages and of mapalloc_pages, as updates that a caller  *)
(* makes part of its own step.  mapalloc_pages allocates every frame       *)
(* first, and gives up at once when it cannot.  No caller passes it        *)
(* MAP_HUGE.                                                               *)
(***************************************************************************)
NewMap_UserFlag(by, v, p, n, w, u, huge) ==     \* variant: PG_USER for all
  job' = [st |-> IF n = 0 THEN "ok" ELSE "map", by |-> by, v |-> v, p |-> p,
          n |-> n, i |-> 0, w |-> w, u |-> TRUE, huge |-> huge]
NewMap(by, v, p, n, w, u, huge) ==
  job' = [st |-> IF n = 0 THEN "ok" ELSE "map", by |-> by, v |-> v, p |-> p,
          n |-> n, i |-> 0, w |-> w, u |-> u, huge |-> huge]
StartWalk(top) == walk' = [lvl |-> 4, tbl |-> top, fill |-> FALSE]

MapallocPages(by, v, n, w, u) ==
  /\ StartWalk(toplevel)
  /\ \/ /\ CanAlloc(n)
        /\ AllocPages(n, Data)
        /\ NewMap(by, v, arena_head, n, w, u, FALSE)
     \/ /\ ~CanAlloc(n)
        /\ job' = [Idle EXCEPT !.st = "failed", !.by = by, !.v = v, !.n = n]
        /\ UNCHANGED <<arena_head, role>>

(***************************************************************************)
(* map_page, for page i of the job, one step for each level it passes.     *)
(***************************************************************************)
JobSpan == IF job.huge THEN Span[3] ELSE 1      \* psize
V == job.v + job.i * JobSpan
P_NoStride == job.p                     \* variant: p_paddr without i*psize
P == job.p + job.i * JobSpan
LeafLevel == IF job.huge THEN 3 ELSE 1

Walking == job.st = "map" /\ walk.lvl > LeafLevel
Hit_IgnoresFill(l) ==                   \* variant: fill_caches is not tested
  cache[l].off = Off(l, V) /\ cache[l].tbl # NULL
Hit(l) == cache[l].off = Off(l, V) /\ ~walk.fill /\ cache[l].tbl # NULL
ValidTable(e) == e.p /\ ~e.ps                   \* CHECK_VALID_TABLE
Entry == mem[walk.tbl][Off(walk.lvl, V)]

\* The entry for a new table carries the flags of the mapping under way.
NewTable_KernelOnly(t) ==               \* variant: always PG_WRITE alone
  [p |-> TRUE, w |-> TRUE, u |-> FALSE, ps |-> FALSE, f |-> t]
NewTable(t) == [p |-> TRUE, w |-> job.w, u |-> job.u, ps |-> FALSE, f |-> t]
NewPage == [p |-> TRUE, w |-> job.w, u |-> job.u, ps |-> job.huge, f |-> P]

Descend(tbl, fill) ==
  walk' = [lvl |-> walk.lvl - 1, tbl |-> tbl, fill |-> fill]

\* The cached table of this level serves.
WalkCached ==
  /\ Walking /\ Hit(walk.lvl)
  /\ Descend(cache[walk.lvl].tbl, walk.fill)
  /\ UNCHANGED <<arena_head, arena_end, mem, toplevel, cr3, cache,
                 vm_arena_head, job, stage, k, prog, role, granted>>

\* walk_table finds a table; map_page caches it and stops trusting the
\* caches of the lower levels.
WalkExisting ==
  /\ Walking /\ ~Hit(walk.lvl) /\ ValidTable(Entry)
  /\ cache' = [cache EXCEPT ![walk.lvl] =
                 [off |-> Off(walk.lvl, V), tbl |-> Entry.f]]
  /\ Descend(Entry.f, TRUE)
  /\ UNCHANGED <<arena_head, arena_end, mem, toplevel, cr3, vm_arena_head,
                 job, stage, k, prog, role, granted>>

\* walk_table adds a table.  An entry that is no table is overwritten,
\* whatever it says.
WalkNew ==
  /\ Walking /\ ~Hit(walk.lvl) /\ ~ValidTable(Entry)
  /\ CanAlloc(1)
  /\ AllocPages(1, walk.lvl - 1)
  /\ mem' = [mem EXCEPT ![walk.tbl][Off(walk.lvl, V)] = NewTable(arena_head)]
  /\ cache' = [cache EXCEPT ![walk.lvl] =
                 [off |-> Off(walk.lvl, V), tbl |-> arena_head]]
  /\ Descend(arena_head, TRUE)
  /\ UNCHANGED <<arena_end, toplevel, cr3, vm_arena_head, job, stage, k,
                 prog, granted>>

\* walk_table is out of frames: map_page and map_pages return 1, with the
\* pages mapped so far, and the caches of the upper levels, left as they are.
WalkFails ==
  /\ Walking /\ ~Hit(walk.lvl) /\ ~ValidTable(Entry)
  /\ ~CanAlloc(1)
  /\ job' = [job EXCEPT !.st = "failed"]
  /\ UNCHANGED <<arena_head, arena_end, mem, toplevel, cr3, cache,
                 vm_arena_head, walk, stage, k, prog, role, granted>>

AtLeaf == job.st = "map" /\ walk.lvl = LeafLevel
LeafEntry == mem[walk.tbl][Off(LeafLevel, V)]

\* The page is free: write its entry; map_pages goes on with the next one.
SetPage ==
  /\ AtLeaf /\ ~LeafEntry.p
  /\ mem' = [mem EXCEPT ![walk.tbl][Off(LeafLevel, V)] = NewPage]
  /\ job' = [job EXCEPT !.i = @ + 1,
                        !.st = IF job.i + 1 = job.n THEN "ok" ELSE "map"]
  /\ StartWalk(toplevel)
  /\ UNCHANGED <<arena_head, arena_end, toplevel, cr3, cache, vm_arena_head,
                 stage, k, prog, role, granted>>

\* "Page already in use": map_pages stops there and returns 1.
PageInUse ==
  /\ AtLeaf /\ LeafEntry.p
  /\ job' = [job EXCEPT !.st = "failed"]
  /\ UNCHANGED <<arena_head, arena_end, mem, toplevel, cr3, cache,
                 vm_arena_head, walk, stage, k, prog, role, granted>>

MapStep == \/ WalkCached \/ WalkExisting \/ WalkNew \/ WalkFails
           \/ SetPage \/ PageInUse

Returned == job.st \in {"ok", "failed"}
Succeeded_Ignored == Returned           \* variant: the result is not tested
Succeeded == job.st = "ok"

(***************************************************************************)
(* setup_vm.  The first allocation is unchecked: without a frame the       *)
(* kernel goes on with table 0, which this model does not follow ("wild"). *)
(***************************************************************************)
SetupVm ==
  /\ stage = "setup_vm"
  /\ \/ /\ CanAlloc(1)
        /\ AllocPages(1, 4)
        /\ toplevel' = arena_head
        /\ NewMap("map_pages", KernelText, KernelPhys, KernelPages,
                  TRUE, FALSE, FALSE)
        /\ StartWalk(arena_head)
        /\ stage' = "map_kernel"
     \/ /\ ~CanAlloc(1)
        /\ stage' = "wild"
        /\ UNCHANGED <<arena_head, role, toplevel, job, walk>>
  /\ UNCHANGED <<arena_end, mem, cr3, cache, vm_arena_head, k, prog, granted>>

MapHhdm ==
  /\ stage = "map_kernel" /\ job.st = "ok"
  /\ NewMap("map_pages", HhdmBegin, 0, HhdmPages, TRUE, FALSE, TRUE)
  /\ StartWalk(toplevel)
  /\ stage' = "map_hhdm"
  /\ UNCHANGED <<arena_head, arena_end, mem, toplevel, cr3, cache,
                 vm_arena_head, k, prog, role, granted>>

\* activate_toplevel and the kernel stack, whose allocation is unchecked
\* (without frames the stack is at physical address 0).
ActivateToplevel ==
  /\ stage = "map_hhdm" /\ job.st = "ok"
  /\ cr3' = toplevel
  /\ \/ CanAlloc(StackPages) /\ AllocPages(StackPages, Data)
     \/ ~CanAlloc(StackPages) /\ UNCHANGED <<arena_head, role>>
  /\ job' = Idle
  /\ stage' = "init_madt"
  /\ UNCHANGED <<arena_end, mem, toplevel, cache, vm_arena_head, walk, k,
                 prog, granted>>

SetupVmPanics ==
  /\ stage \in {"map_kernel", "map_hhdm"} /\ job.st = "failed"
  /\ stage' = "panic"
  /\ UNCHANGED <<arena_head, arena_end, mem, toplevel, cr3, cache,
                 vm_arena_head, job, walk, k, prog, role, granted>>

(***************************************************************************)
(* init_madt maps the registers of each IOAPIC and then of the local APIC, *)
(* and ignores whether that worked.                                        *)
(***************************************************************************)
MapMmio ==
  /\ stage = "init_madt" /\ job.st = "idle" /\ k <= Len(Mmio)
  /\ NewMap("map_pages", Mmio[k].v, Mmio[k].p, 1, TRUE, FALSE, FALSE)
  /\ StartWalk(toplevel)
  /\ UNCHANGED <<arena_head, arena_end, mem, toplevel, cr3, cache,
                 vm_arena_head, stage, k, prog, role, granted>>

NextHeader_ZeroLength == k              \* variant: a header of length 0
NextHeader == k + 1
MmioMapped ==
  /\ stage = "init_madt" /\ Returned
  /\ job' = Idle
  /\ k' = NextHeader
  /\ UNCHANGED <<arena_head, arena_end, mem, toplevel, cr3, cache,
                 vm_arena_head, walk, stage, prog, role, granted>>

MadtDone ==
  /\ stage = "init_madt" /\ job.st = "idle" /\ k > Len(Mmio)
  /\ stage' = "kernel"
  /\ UNCHANGED <<arena_head, arena_end, mem, toplevel, cr3, cache,
                 vm_arena_head, job, walk, k, prog, role, granted>>

(***************************************************************************)
(* request_pages(0, n, PG_WRITE), called by kmalloc, load_module, exec_elf *)
(* and exec_process.  A refusal (the window is full) changes nothing and   *)
(* is not a step, except for the caller that acts on it.  The head moves   *)
(* past the pages even when they could not be mapped.                      *)
(***************************************************************************)
NewHead(n) == (vm_arena_head + n) % NV          \* 64-bit sum, wraps
CanRequest(n) == NewHead(n) <= VmEnd

RequestPages ==
  /\ stage \in {"kernel", "args", "user"} /\ job.st = "idle"
  /\ \E n \in ReqSizes :
       /\ CanRequest(n)
       /\ MapallocPages("request_pages", vm_arena_head, n, TRUE, FALSE)
  /\ UNCHANGED <<arena_end, mem, toplevel, cr3, cache, vm_arena_head, stage,
                 k, prog, granted>>

RequestReturns ==
  /\ Returned /\ job.by = "request_pages"
  /\ vm_arena_head' = NewHead(job.n)
  /\ granted' = IF Succeeded
                THEN granted \union {[v |-> job.v, n |-> job.n]} ELSE granted
  /\ job' = Idle
  /\ stage' = IF stage # "kernel_stack" THEN stage
              ELSE IF Succeeded THEN "user" ELSE "wild"
  /\ UNCHANGED <<arena_head, arena_end, mem, toplevel, cr3, cache, walk, k,
                 prog, role>>

(***************************************************************************)
(* exec_process.  The new PML4 gets the upper half of the current one; the *)
(* path caches are kept.  Its allocation is unchecked ("wild").            *)
(***************************************************************************)
ExecProcess ==
  /\ stage = "kernel" /\ job.st = "idle"
  /\ k' = 1
  /\ prog' \in Programs
  /\ \/ /\ CanAlloc(1)
        /\ AllocPages(1, 4)
        /\ mem' = [mem EXCEPT ![arena_head] =
                     [i \in Idx |-> IF i >= L \div 2 THEN mem[cr3][i]
                                    ELSE mem[arena_head][i]]]
        /\ toplevel' = arena_head
        /\ cr3' = arena_head
        /\ stage' = "load"
     \/ /\ ~CanAlloc(1)
        /\ stage' = "wild"
        /\ UNCHANGED <<arena_head, role, mem, toplevel, cr3>>
  /\ UNCHANGED <<arena_end, cache, vm_arena_head, job, walk, granted>>

\* load_mapping, up to its mapalloc_pages.
LoadMapping ==
  /\ stage = "load" /\ job.st = "idle" /\ k <= Len(prog.segs)
  /\ LET s == prog.segs[k] IN
       MapallocPages("map_pages", FloorPage(s.begin), SegPages(s), s.w, TRUE)
  /\ UNCHANGED <<arena_end, mem, toplevel, cr3, cache, vm_arena_head, stage,
                 k, prog, granted>>

\* Its memcpy: a page that is not there is a page fault, which panics.
CopySegment ==
  /\ stage = "load" /\ Returned
  /\ IF \A v \in SegTouched(prog.segs[k]) : Mapped(cr3, v)
     THEN k' = k + 1 /\ job' = Idle /\ UNCHANGED stage
     ELSE stage' = "panic" /\ UNCHANGED <<k, job>>
  /\ UNCHANGED <<arena_head, arena_end, mem, toplevel, cr3, cache,
                 vm_arena_head, walk, prog, role, granted>>

MapUserStack ==
  /\ stage = "load" /\ job.st = "idle" /\ k > Len(prog.segs)
  /\ stage' = "map_stack"
  /\ MapallocPages("map_pages", StackAt(prog.use), CeilPages(prog.use),
                   TRUE, TRUE)
  /\ UNCHANGED <<arena_end, mem, toplevel, cr3, cache, vm_arena_head, k,
                 prog, granted>>

\* argc, the vectors and the strings go onto the new stack.
WriteStack ==
  /\ stage = "map_stack" /\ Returned
  /\ IF \A v \in StackTouched(prog.use) : Mapped(cr3, v)
     THEN stage' = "args" /\ job' = Idle
     ELSE stage' = "panic" /\ UNCHANGED job
  /\ UNCHANGED <<arena_head, arena_end, mem, toplevel, cr3, cache,
                 vm_arena_head, walk, k, prog, role, granted>>

\* The kernel stack of the process.  A NULL is used as if it were a stack.
RequestKernelStack ==
  /\ stage = "args" /\ job.st = "idle"
  /\ \/ /\ CanRequest(StackPages)
        /\ MapallocPages("request_pages", vm_arena_head, StackPages,
                         TRUE, FALSE)
        /\ stage' = "kernel_stack"
     \/ /\ ~CanRequest(StackPages)
        /\ stage' = "wild"
        /\ UNCHANGED <<arena_head, role, job, walk>>
  /\ UNCHANGED <<arena_end, mem, toplevel, cr3, cache, vm_arena_head, k,
                 prog, granted>>

Next ==
  \/ MapStep
  \/ SetupVm \/ MapHhdm \/ ActivateToplevel \/ SetupVmPanics
  \/ MapMmio \/ MmioMapped \/ MadtDone
  \/ RequestPages \/ RequestReturns
  \/ ExecProcess \/ LoadMapping \/ CopySegment
  \/ MapUserStack \/ WriteStack \/ RequestKernelStack

Spec == Init /\ [][Next]_vars

(***************************************************************************)
(* One processor runs this code with nothing to wait for: it always goes   *)
(* on to the next step.                                                    *)
(***************************************************************************)
FairSpec == Spec /\ WF_vars(Next)

-----------------------------------------------------------------------------
(***************************************************************************)
(* Types.  Every variable stays in its domain; the allocator stays within  *)
(* the arena, and the windows of the callers' counters are respected       *)
(* (alloc_pages.c, request_pages.c).                                       *)
(***************************************************************************)
TypeOK ==
  /\ arena_head \in Nat /\ arena_end \in ArenaEnds
  /\ ArenaBegin <= arena_head /\ arena_head <= arena_end
  /\ mem \in [Arena -> [Idx -> PTE]]
  /\ toplevel \in Arena \union {NULL}
  /\ cr3 \in Arena \union {NULL}
  /\ cache \in [2 .. 4 -> [off : Idx, tbl : Arena \union {NULL}]]
  /\ vm_arena_head \in VmBegin .. VmEnd
  /\ job \in [st : {"idle", "map", "ok", "failed"},
              by : {"map_pages", "request_pages"}, v : Nat, p : Nat,
              n : Nat, i : Nat, w : BOOLEAN, u : BOOLEAN, huge : BOOLEAN]
  /\ walk \in [lvl : Levels, tbl : Arena \union {NULL}, fill : BOOLEAN]
  /\ stage \in Stages
  /\ k \in Nat \ {0}
  /\ prog \in Programs \union {NoProg}
  /\ role \in [Arena -> Free .. Data]
  /\ granted \subseteq [v : Nat, n : Nat]

(***************************************************************************)
(* The tables form levels: an entry of a level-l table that is present is  *)
(* a page of the right size (levels 1 and 3) or refers to a frame that was *)
(* allocated as a table of level l - 1; a page of the arena was allocated  *)
(* as data.  So no frame is ever both walked and written as data           *)
(* (walk_table's new_entry against mapalloc_pages' ppages).                *)
(***************************************************************************)
GoodEntry(l, e) ==
  \/ l = 1 /\ ~e.ps /\ (e.f \in Arena => role[e.f] = Data)
  \/ l = 3 /\ e.ps
  \/ l > 1 /\ ~e.ps /\ e.f \in Arena /\ role[e.f] = l - 1

TablesWellFormed ==
  \A t \in Arena : role[t] \in Levels =>
    \A i \in Idx : mem[t][i].p => GoodEntry(role[t], mem[t][i])

(***************************************************************************)
(* Nothing is shared by accident: two entries of page tables that map a    *)
(* frame of the arena are the same entry, a table below the PML4 has one   *)
(* parent, and the tables of two PML4s meet only where exec_process copied *)
(* the upper half, at the same index.                                      *)
(***************************************************************************)
Tables(l) == {t \in Arena : role[t] = l}
SameTarget(t1, i1, t2, i2) ==
  /\ mem[t1][i1].p /\ mem[t2][i2].p
  /\ ~mem[t1][i1].ps /\ ~mem[t2][i2].ps
  /\ mem[t1][i1].f = mem[t2][i2].f
  /\ mem[t1][i1].f \in Arena

NoSharing ==
  \A l \in Levels : \A t1, t2 \in Tables(l) : \A i1, i2 \in Idx :
    SameTarget(t1, i1, t2, i2) =>
      /\ i1 = i2
      /\ t1 = t2 \/ (l = 4 /\ i1 >= L \div 2)

(***************************************************************************)
(* The kernel's half is private: no page at or above Half is ever          *)
(* accessible to user code, in the space in use (the flags that walk_table *)
(* gives to intermediate entries, map_pages.c:21, and the copy of the      *)
(* upper half, exec_process.c:34).                                         *)
(***************************************************************************)
KernelPrivate ==
  cr3 # NULL => \A v \in Half .. (NV - 1) : ~UserReads(cr3, v)

(***************************************************************************)
(* What request_pages gave out stays usable: every page of every           *)
(* successful request is mapped to a frame in the space in use, also after *)
(* exec_process changed it, and two requests never overlap                 *)
(* (request_pages.c:10-22 with map_pages' failures and its caches).        *)
(***************************************************************************)
PagesOf(g) == g.v .. (g.v + g.n - 1)
GrantedStayMapped ==
  /\ \A g \in granted : \A v \in PagesOf(g) :
       Mapped(cr3, v) /\ FrameOf(cr3, v) \in Arena
  /\ \A g, h \in granted :
       g = h \/ PagesOf(g) \intersect PagesOf(h) = {}

(***************************************************************************)
(* When user code starts, it can read every page of its segments and write *)
(* its stack (exec_process.c:38-92, whatever load_mapping returned).       *)
(***************************************************************************)
UserImageAccessible ==
  stage = "user" =>
    /\ \A j \in DOMAIN prog.segs :
         \A v \in SegTouched(prog.segs[j]) : UserReads(cr3, v)
    /\ \A v \in StackTouched(prog.use) : UserWrites(cr3, v)

(***************************************************************************)
(* When user code starts, it can write the segments the program marks      *)
(* PF_W ("Segment is writable", elf.h:743), which exec_elf.c:69-71 turns   *)
(* into PG_WRITE.                                                          *)
(***************************************************************************)
WritableSegments ==
  stage = "user" =>
    \A j \in DOMAIN prog.segs : prog.segs[j].w =>
      \A v \in SegTouched(prog.segs[j]) : UserWrites(cr3, v)

(***************************************************************************)
(* Boot ends: the kernel reaches user code, or stops in a panic or in one  *)
(* of the unchecked allocations (no call of map_pages, and no MADT walk,   *)
(* goes on forever).                                                       *)
(***************************************************************************)
BootEnds == <>(stage \in {"user", "panic", "wild"})

(***************************************************************************)
(* The page tables implement an address space (AddressSpace.tla): each     *)
(* step of map_pages maps exactly the page it is asked for or nothing,     *)
(* whatever the caches hold, and exec_process keeps exactly the upper      *)
(* half.                                                                   *)
(***************************************************************************)
Space ==
  IF toplevel = NULL THEN {}
  ELSE {<<v, FrameOf(toplevel, v)>> :
           v \in {x \in 0 .. (NV - 1) : Mapped(toplevel, x)}}
Req == [st |-> job.st, v |-> job.v, p |-> job.p, n |-> job.n,
        span |-> JobSpan, i |-> job.i]

AS == INSTANCE AddressSpace WITH UpperHalf <- Half .. (NV - 1),
                                 space <- Space, req <- Req
ImplementsAddressSpace == AS!ASSpec
=============================================================================
