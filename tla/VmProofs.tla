------------------------------ MODULE VmProofs ------------------------------
(***************************************************************************)
(* Proofs about Vm for every size of the tables, every arena, every set of *)
(* programs and every list of device registers its assumptions admit.      *)
(* Part one, the frames: the inductive invariant IInv says why frames      *)
(* never get two uses.  The allocator's unused frames are blank and        *)
(* referred to by nobody, the walk and the caches stand on tables of their *)
(* level, and the frames that a mapping under way has yet to map are data  *)
(* that no entry maps.                                                     *)
(* Part two, the address space: what the tables mean, and that they        *)
(* implement AddressSpace.                                                 *)
(***************************************************************************)
EXTENDS Vm, SequenceTheorems, TLAPS

(***************************************************************************)
(* Unused frames carry no role, and only tables carry entries.             *)
(***************************************************************************)
FreshFrames ==
  \A t \in Arena :
    /\ t >= arena_head => role[t] = Free
    /\ role[t] \in {Free, Data} => \A i \in Idx : mem[t][i] = Absent

(***************************************************************************)
(* Where the kernel is in its boot decides whether it has a table, and     *)
(* whether a map_pages call may be in progress.                            *)
(***************************************************************************)
StageSound ==
  /\ stage \notin {"setup_vm", "wild"} => toplevel # NULL
  /\ stage \notin {"setup_vm", "map_kernel", "map_hhdm", "panic", "wild"}
       => cr3 # NULL
  /\ stage \in {"setup_vm", "wild", "panic"} => job.st # "map"
  /\ stage \in {"load", "map_stack"} => prog \in Programs

(***************************************************************************)
(* The table registers, the walk and the path caches refer to tables of    *)
(* the right level.                                                        *)
(***************************************************************************)
WalkSound ==
  /\ toplevel # NULL => role[toplevel] = 4
  /\ cr3 # NULL => role[cr3] = 4
  /\ \A l \in 2 .. 4 : cache[l].tbl # NULL => role[cache[l].tbl] = l - 1
  /\ job.st = "map" =>
       walk.tbl # NULL /\ role[walk.tbl] = walk.lvl /\ walk.lvl >= LeafLevel

(***************************************************************************)
(* The frames a call has yet to map: none of the arena's unless allocated  *)
(* as data and mapped nowhere.                                             *)
(***************************************************************************)
Unmapped(f) ==
  \A t \in Tables(1) : \A i \in Idx : mem[t][i].p => mem[t][i].f # f

Rest == (job.p + job.i) .. (job.p + job.n - 1)

JobSound ==
  /\ job.st = "map" => job.i < job.n
  /\ job.st = "map" /\ ~job.huge =>
       \A f \in Arena : f \in Rest => role[f] = Data /\ Unmapped(f)

(***************************************************************************)
(* A request in progress fits into the window and its sum does not wrap.   *)
(***************************************************************************)
RequestSound ==
  job.by = "request_pages" =>
    job.n \in ReqSizes \union {StackPages} /\ NewHead(job.n) <= VmEnd

(***************************************************************************)
(* User mappings stay in the lower half, so that the entries of the upper  *)
(* half carry no user bit.                                                 *)
(***************************************************************************)
UserJob == job.st = "map" /\ job.u => ~job.huge /\ job.v + job.n <= Half

UpperEntries ==
  \A t \in Tables(4) : \A i \in Idx :
    i >= L \div 2 /\ mem[t][i].p => ~mem[t][i].u

UserSound == UserJob /\ UpperEntries

IInv == /\ TypeOK /\ FreshFrames /\ StageSound /\ WalkSound /\ JobSound
        /\ RequestSound /\ TablesWellFormed /\ NoSharing /\ UserSound

-----------------------------------------------------------------------------
(***************************************************************************)
(* Arithmetic of the table offsets.                                        *)
(***************************************************************************)
LEMMA SpanType == \A l \in Levels : Span[l] \in Nat /\ Span[l] > 0
<1>1. Span[1] = 1 /\ Span[2] = L /\ Span[3] = L * L /\ Span[4] = L * L * L
  BY DEF Span
<1>2. L * L \in Nat /\ L * L > 0
  BY SizeAssumption
<1>3. L * L * L \in Nat /\ L * L * L > 0
  BY <1>2, SizeAssumption
<1>4. QED
  BY <1>1, <1>2, <1>3, SizeAssumption DEF Levels

LEMMA DivType == ASSUME NEW x \in Nat, NEW y \in Nat, y > 0
                 PROVE  x \div y \in Nat
OBVIOUS

LEMMA DivBelow == ASSUME NEW x \in Nat, NEW y \in Nat, y > 0, NEW h \in Nat,
                         x < h * y
                  PROVE  x \div y < h
OBVIOUS

LEMMA DivAbove == ASSUME NEW x \in Nat, NEW y \in Nat, y > 0, NEW h \in Nat,
                         x >= h * y
                  PROVE  x \div y >= h
OBVIOUS

(***************************************************************************)
(* The offset of a page is an index into a table.                          *)
(***************************************************************************)
LEMMA OffType == ASSUME NEW l \in Levels, NEW v \in Nat
                 PROVE  Off(l, v) \in Idx
<1>1. v \div Span[l] \in Nat
  BY SpanType, DivType
<1>2. QED
  BY <1>1, SizeAssumption DEF Off, Idx

(***************************************************************************)
(* Its PML4 offset tells the half a page is in.                            *)
(***************************************************************************)
LEMMA OffHalf == ASSUME NEW v \in Nat, v < NV
                 PROVE  Off(4, v) >= L \div 2 <=> v >= Half
<1> DEFINE M == Span[4]
<1>1. M \in Nat /\ M > 0
  BY SpanType DEF Levels
<1> HIDE DEF M
<1>2. v \div M \in Nat /\ v \div M < L
  BY <1>1, DivType, DivBelow, SizeAssumption DEF NV, M
<1>3. Off(4, v) = v \div M
  BY <1>2, SizeAssumption DEF Off, M
<1>4. L \div 2 \in Nat
  BY SizeAssumption
<1>5. CASE v >= Half
  BY <1>1, <1>3, <1>4, <1>5, DivAbove DEF Half, M
<1>6. CASE v < Half
  <2>1. v \div M < L \div 2
    BY <1>1, <1>4, <1>6, DivBelow DEF Half, M
  <2>2. Half \in Nat
    BY <1>1, <1>4 DEF Half, M
  <2>3. QED
    BY <1>2, <1>3, <1>4, <1>6, <2>1, <2>2
<1>7. Half \in Nat
  BY <1>1, <1>4 DEF Half, M
<1>8. QED
  BY <1>5, <1>6, <1>7

(***************************************************************************)
(* What the arguments of a job amount to.                                  *)
(***************************************************************************)
LEMMA JobTypes == TypeOK => /\ V \in Nat /\ P \in Nat
                            /\ LeafLevel \in {1, 3}
                            /\ JobSpan \in Nat
<1> SUFFICES ASSUME TypeOK PROVE /\ V \in Nat /\ P \in Nat
                                 /\ LeafLevel \in {1, 3} /\ JobSpan \in Nat
  OBVIOUS
<1>1. JobSpan \in Nat
  BY SpanType DEF JobSpan, Levels
<1>2. job.v \in Nat /\ job.p \in Nat /\ job.i \in Nat
  BY DEF TypeOK
<1>3. job.i * JobSpan \in Nat
  BY <1>1, <1>2
<1>4. QED
  BY <1>1, <1>2, <1>3 DEF V, P, LeafLevel

-----------------------------------------------------------------------------
(***************************************************************************)
(* Facts about the helpers of the actions.                                 *)
(***************************************************************************)
\* alloc_pages stays within the arena, gives frames that were free, and
\* gives them their new role.
LEMMA AllocFacts ==
  ASSUME TypeOK, FreshFrames, NEW n \in Nat, NEW r \in Free .. Data,
         CanAlloc(n), AllocPages(n, r)
  PROVE  /\ arena_head' \in Nat /\ ArenaBegin <= arena_head'
         /\ arena_head' <= arena_end
         /\ role' \in [Arena -> Free .. Data]
         /\ \A t \in Arena :
              \/ t \in arena_head .. (arena_head + n - 1)
                   /\ role[t] = Free /\ role'[t] = r /\ t < arena_head'
              \/ t \notin arena_head .. (arena_head + n - 1)
                   /\ role'[t] = role[t]
                   /\ (t >= arena_head' => t >= arena_head)
BY ArenaAssumption DEF TypeOK, FreshFrames, CanAlloc, AllocPages, Arena

LEMMA AllocOne ==
  ASSUME TypeOK, CanAlloc(1)
  PROVE  arena_head \in Arena /\ arena_head # NULL
BY ArenaAssumption DEF TypeOK, CanAlloc, Arena, NULL

LEMMA AllocOneRole ==
  ASSUME TypeOK, CanAlloc(1), NEW r, AllocPages(1, r)
  PROVE  role'[arena_head] = r
<1>1. arena_head \in Arena /\ arena_head \in arena_head .. (arena_head + 1 - 1)
  BY AllocOne DEF TypeOK
<1>2. QED
  BY <1>1 DEF AllocPages

\* The entry under the walk is an entry, and a table it refers to is a
\* table of the next level.
LEMMA EntryFacts ==
  ASSUME TypeOK, WalkSound, TablesWellFormed, job.st = "map"
  PROVE  /\ walk.tbl \in Arena /\ role[walk.tbl] = walk.lvl
         /\ walk.lvl \in Levels
         /\ Off(walk.lvl, V) \in Idx
         /\ Entry \in PTE
         /\ Walking /\ ValidTable(Entry) =>
              Entry.f \in Arena /\ role[Entry.f] = walk.lvl - 1
<1>1. walk.tbl \in Arena /\ role[walk.tbl] = walk.lvl /\ walk.lvl \in Levels
  BY DEF TypeOK, WalkSound
<1>2. Off(walk.lvl, V) \in Idx
  BY <1>1, OffType, JobTypes
<1>3. Entry \in PTE
  BY <1>1, <1>2 DEF TypeOK, Entry
<1>4. ASSUME Walking, ValidTable(Entry)
      PROVE  Entry.f \in Arena /\ role[Entry.f] = walk.lvl - 1
  <2>1. GoodEntry(walk.lvl, Entry)
    BY <1>1, <1>2, <1>4 DEF TablesWellFormed, Entry, ValidTable
  <2>2. walk.lvl > 1
    BY <1>1, <1>4, JobTypes DEF Walking, Levels
  <2>3. QED
    BY <1>4, <2>1, <2>2 DEF GoodEntry, ValidTable
<1>5. QED
  BY <1>1, <1>2, <1>3, <1>4

\* The pages of a segment and of the stack are numbers in the lower half.
LEMMA SegFacts ==
  ASSUME NEW g \in Programs, NEW i \in DOMAIN g.segs
  PROVE  /\ FloorPage(g.segs[i].begin) \in Nat
         /\ SegPages(g.segs[i]) \in Nat
         /\ g.segs[i].w \in BOOLEAN
         /\ FloorPage(g.segs[i].begin) + SegPages(g.segs[i]) <= Half
<1> DEFINE s == g.segs[i]
<1>1. s \in [begin : Nat, end : Nat, w : BOOLEAN] /\ s.begin <= s.end
  <2>1. g.segs \in Seq([begin : Nat, end : Nat, w : BOOLEAN])
    BY ProgramAssumption
  <2>2. i \in 1 .. Len(g.segs)
    BY <2>1
  <2>3. s \in [begin : Nat, end : Nat, w : BOOLEAN]
    BY <2>1, <2>2, ElementOfSeq
  <2>4. QED
    BY <2>3, ProgramAssumption
<1>2. s.end - s.begin \in Nat
  BY <1>1
<1>3. CeilPages(s.end - s.begin) \in Nat
  BY <1>2, SizeAssumption DEF CeilPages
<1>4. FloorPage(s.begin) \in Nat
  BY <1>1, SizeAssumption DEF FloorPage
<1>5. QED
  BY <1>1, <1>3, <1>4, ProgramAssumption DEF SegPages

LEMMA StackFacts ==
  ASSUME NEW g \in Programs
  PROVE  /\ StackAt(g.use) \in Nat /\ CeilPages(g.use) \in Nat
         /\ StackAt(g.use) + CeilPages(g.use) <= Half
<1>1. g.use \in Nat /\ UserStackTop - g.use \in Nat
  BY ProgramAssumption
<1>2. StackAt(g.use) \in Nat
  BY <1>1, SizeAssumption DEF StackAt, FloorPage
<1>3. CeilPages(g.use) \in Nat
  BY <1>1, SizeAssumption DEF CeilPages
<1>4. QED
  BY <1>2, <1>3, ProgramAssumption

(***************************************************************************)
(* What a caller's start of map_pages leaves behind.                       *)
(***************************************************************************)
JobType == [st : {"idle", "map", "ok", "failed"},
            by : {"map_pages", "request_pages"}, v : Nat, p : Nat,
            n : Nat, i : Nat, w : BOOLEAN, u : BOOLEAN, huge : BOOLEAN]
WalkType == [lvl : Levels, tbl : Arena \union {NULL}, fill : BOOLEAN]

LEMMA NewMapType ==
  ASSUME NEW by \in {"map_pages", "request_pages"}, NEW v \in Nat,
         NEW p \in Nat, NEW n \in Nat, NEW w \in BOOLEAN, NEW u \in BOOLEAN,
         NEW huge \in BOOLEAN, NewMap(by, v, p, n, w, u, huge)
  PROVE  job' \in JobType
BY DEF NewMap, JobType

LEMMA StartWalkType ==
  ASSUME NEW top \in Arena \union {NULL}, StartWalk(top)
  PROVE  walk' \in WalkType
BY DEF StartWalk, WalkType, Levels

LEMMA MapallocType ==
  ASSUME TypeOK, FreshFrames,
         NEW by \in {"map_pages", "request_pages"}, NEW v \in Nat,
         NEW n \in Nat, NEW w \in BOOLEAN, NEW u \in BOOLEAN,
         MapallocPages(by, v, n, w, u)
  PROVE  /\ job' \in JobType
         /\ walk' \in WalkType
         /\ arena_head' \in Nat /\ ArenaBegin <= arena_head'
         /\ arena_head' <= arena_end
         /\ role' \in [Arena -> Free .. Data]
<1>1. walk' \in WalkType
  BY StartWalkType DEF MapallocPages, TypeOK
<1>2. CASE /\ CanAlloc(n) /\ AllocPages(n, Data)
           /\ NewMap(by, v, arena_head, n, w, u, FALSE)
  <2>1. job' \in JobType
    BY <1>2 DEF NewMap, JobType, TypeOK
  <2>2. QED
    BY <1>1, <1>2, <2>1, AllocFacts DEF Data, Free
<1>3. CASE /\ job' = [Idle EXCEPT !.st = "failed", !.by = by, !.v = v,
                                  !.n = n]
           /\ UNCHANGED <<arena_head, role>>
  BY <1>1, <1>3 DEF Idle, JobType, TypeOK
<1>4. QED
  BY <1>2, <1>3 DEF MapallocPages

-----------------------------------------------------------------------------
(***************************************************************************)
(* Types are kept.  The steps that need more than their own text are the   *)
(* walk (its tables are tables) and the callers (their pages are numbers). *)
(***************************************************************************)
LEMMA TypeInit == Init => TypeOK
<1> SUFFICES ASSUME Init PROVE TypeOK
  OBVIOUS
<1>1. mem \in [Arena -> [Idx -> PTE]]
  BY DEF Init, Blank, Absent, PTE
<1>2. cache \in [2 .. 4 -> [off : Idx, tbl : Arena \union {NULL}]]
  BY SizeAssumption DEF Init, Idx
<1>3. arena_head \in Nat /\ arena_end \in ArenaEnds
        /\ ArenaBegin <= arena_head /\ arena_head <= arena_end
  BY ArenaAssumption DEF Init
<1>4. vm_arena_head \in VmBegin .. VmEnd
  <2>1. NV \in Nat /\ Half \in Nat
    BY SpanType, SizeAssumption DEF NV, Half, Levels
  <2>2. QED
    BY <2>1, LayoutAssumption DEF Init
<1>5. job \in JobType /\ walk \in WalkType
  BY DEF Init, Idle, JobType, WalkType, Levels
<1>6. QED
  BY <1>1, <1>2, <1>3, <1>4, <1>5
     DEF Init, TypeOK, JobType, WalkType, Stages, Free, Data

LEMMA TypeWalk ==
  ASSUME TypeOK, FreshFrames, WalkSound, TablesWellFormed,
         WalkCached \/ WalkExisting \/ WalkFails \/ PageInUse
  PROVE  TypeOK'
<1> USE DEF TypeOK, JobType, WalkType
<1>1. CASE WalkCached
  <2>1. walk.lvl \in 2 .. 4
    BY <1>1, JobTypes DEF WalkCached, Walking, Levels
  <2>2. walk' \in WalkType
    BY <1>1, <2>1 DEF WalkCached, Descend, Levels
  <2>3. QED
    BY <1>1, <2>2 DEF WalkCached
<1>2. CASE WalkExisting
  <2>1. walk.lvl \in 2 .. 4
    BY <1>2, JobTypes DEF WalkExisting, Walking, Levels
  <2>2. Entry.f \in Arena /\ Off(walk.lvl, V) \in Idx
    BY <1>2, EntryFacts DEF WalkExisting, Walking
  <2>3. walk' \in WalkType
    BY <1>2, <2>1, <2>2 DEF WalkExisting, Descend, Levels
  <2>4. cache' \in [2 .. 4 -> [off : Idx, tbl : Arena \union {NULL}]]
    BY <1>2, <2>1, <2>2 DEF WalkExisting
  <2>5. QED
    BY <1>2, <2>3, <2>4 DEF WalkExisting
<1>3. CASE WalkFails
  BY <1>3 DEF WalkFails
<1>4. CASE PageInUse
  BY <1>4 DEF PageInUse
<1>5. QED
  BY <1>1, <1>2, <1>3, <1>4

LEMMA TypeWalkNew ==
  ASSUME TypeOK, FreshFrames, WalkSound, TablesWellFormed, WalkNew
  PROVE  TypeOK'
<1> USE DEF TypeOK, JobType, WalkType
<1>1. walk.lvl \in 2 .. 4
  BY JobTypes DEF WalkNew, Walking, Levels
<1>2. walk.tbl \in Arena /\ Off(walk.lvl, V) \in Idx
  BY EntryFacts DEF WalkNew, Walking
<1>3. arena_head \in Arena
  BY AllocOne DEF WalkNew
<1>4. NewTable(arena_head) \in PTE
  BY DEF NewTable, PTE
<1>5. mem' \in [Arena -> [Idx -> PTE]]
  BY <1>2, <1>4 DEF WalkNew
<1>6. walk' \in WalkType
  BY <1>1, <1>3 DEF WalkNew, Descend, Levels
<1>7. cache' \in [2 .. 4 -> [off : Idx, tbl : Arena \union {NULL}]]
  BY <1>1, <1>2, <1>3 DEF WalkNew
<1>8. /\ arena_head' \in Nat /\ ArenaBegin <= arena_head'
      /\ arena_head' <= arena_end /\ role' \in [Arena -> Free .. Data]
  <2>1. walk.lvl - 1 \in Free .. Data
    BY <1>1 DEF Free, Data
  <2>2. QED
    BY <2>1, AllocFacts DEF WalkNew
<1>9. QED
  BY <1>5, <1>6, <1>7, <1>8 DEF WalkNew

LEMMA TypeSetPage ==
  ASSUME TypeOK, FreshFrames, WalkSound, TablesWellFormed, SetPage
  PROVE  TypeOK'
<1>1. walk.tbl \in Arena /\ Off(LeafLevel, V) \in Idx
  BY EntryFacts DEF SetPage, AtLeaf
<1>2. NewPage \in PTE
  BY JobTypes DEF NewPage, PTE, TypeOK
<1>3. mem' \in [Arena -> [Idx -> PTE]]
  BY <1>1, <1>2 DEF SetPage, TypeOK
<1>4. job' \in JobType
  <2>1. job \in JobType /\ job.i + 1 \in Nat
    BY DEF JobType, TypeOK
  <2>2. CASE job.i + 1 = job.n
    BY <2>1, <2>2 DEF SetPage, JobType
  <2>3. CASE job.i + 1 # job.n
    BY <2>1, <2>3 DEF SetPage, JobType
  <2>4. QED
    BY <2>2, <2>3
<1>5. walk' \in WalkType
  BY StartWalkType DEF SetPage, TypeOK
<1>6. QED
  BY <1>3, <1>4, <1>5 DEF SetPage, TypeOK, JobType, WalkType

\* setup_vm and init_madt.
LEMMA LayoutTypes == /\ NV \in Nat /\ Half \in Nat
                     /\ KernelText \in Nat /\ KernelPhys \in Nat
                     /\ KernelPages \in Nat /\ HhdmBegin \in Nat
                     /\ HhdmPages \in Nat /\ VmBegin \in Nat /\ VmEnd \in Nat
<1>1. NV \in Nat /\ Half \in Nat
  BY SpanType, SizeAssumption DEF NV, Half, Levels
<1>2. QED
  BY <1>1, LayoutAssumption

LEMMA MmioFacts == ASSUME NEW i \in Nat \ {0}, i <= Len(Mmio)
                   PROVE  Mmio[i].v \in Nat /\ Mmio[i].p \in Nat \ Arena
<1>1. Mmio \in Seq([v : Half .. (NV - 1), p : Nat \ Arena])
  BY LayoutAssumption
<1>2. i \in 1 .. Len(Mmio)
  BY <1>1
<1>3. Mmio[i] \in [v : Half .. (NV - 1), p : Nat \ Arena]
  BY <1>1, <1>2, ElementOfSeq
<1>4. QED
  BY <1>3, LayoutTypes

LEMMA TypeSetup ==
  ASSUME TypeOK, FreshFrames, StageSound,
         \/ SetupVm \/ MapHhdm \/ ActivateToplevel \/ SetupVmPanics
         \/ MapMmio \/ MmioMapped \/ MadtDone
  PROVE  TypeOK'
<1>1. CASE SetupVm
  <2>1. CASE CanAlloc(1) /\ AllocPages(1, 4)
    <3>1. arena_head \in Arena
      BY <2>1, AllocOne
    <3>2. /\ arena_head' \in Nat /\ ArenaBegin <= arena_head'
          /\ arena_head' <= arena_end /\ role' \in [Arena -> Free .. Data]
      BY <2>1, AllocFacts DEF Free, Data
    <3>3. CASE stage' = "map_kernel"
      <4>1. job' \in JobType
        BY <1>1, <3>3, LayoutTypes, NewMapType DEF SetupVm
      <4>2. walk' \in WalkType
        BY <1>1, <3>1, <3>3, StartWalkType DEF SetupVm
      <4>3. QED
        BY <1>1, <2>1, <3>1, <3>2, <3>3, <4>1, <4>2
           DEF SetupVm, TypeOK, JobType, WalkType, Stages
    <3>4. QED
      BY <1>1, <2>1, <3>3 DEF SetupVm
  <2>2. CASE ~CanAlloc(1)
    BY <1>1, <2>2 DEF SetupVm, TypeOK, Stages
  <2>3. QED
    BY <1>1, <2>1, <2>2 DEF SetupVm
<1>2. CASE MapHhdm
  <2>1. job' \in JobType
    BY <1>2, LayoutTypes, NewMapType DEF MapHhdm
  <2>2. walk' \in WalkType
    BY <1>2, StartWalkType DEF MapHhdm, TypeOK
  <2>3. QED
    BY <1>2, <2>1, <2>2 DEF MapHhdm, TypeOK, JobType, WalkType, Stages
<1>3. CASE ActivateToplevel
  <2>1. /\ arena_head' \in Nat /\ ArenaBegin <= arena_head'
        /\ arena_head' <= arena_end /\ role' \in [Arena -> Free .. Data]
    <3>1. CASE CanAlloc(StackPages) /\ AllocPages(StackPages, Data)
      BY <3>1, AllocFacts, SizeAssumption DEF Free, Data
    <3>2. CASE UNCHANGED <<arena_head, role>>
      BY <1>3, <3>2 DEF TypeOK, ActivateToplevel
    <3>3. QED
      BY <1>3, <3>1, <3>2 DEF ActivateToplevel
  <2>2. job' \in JobType
    BY <1>3 DEF ActivateToplevel, Idle, JobType
  <2>3. QED
    BY <1>3, <2>1, <2>2 DEF ActivateToplevel, TypeOK, JobType, Stages
<1>4. CASE SetupVmPanics
  BY <1>4 DEF SetupVmPanics, TypeOK, Stages
<1>5. CASE MapMmio
  <2>1. Mmio[k].v \in Nat /\ Mmio[k].p \in Nat
    BY <1>5, MmioFacts DEF MapMmio, TypeOK
  <2>2. job' \in JobType
    BY <1>5, <2>1, NewMapType DEF MapMmio
  <2>3. walk' \in WalkType
    BY <1>5, StartWalkType DEF MapMmio, TypeOK
  <2>4. QED
    BY <1>5, <2>2, <2>3 DEF MapMmio, TypeOK, JobType, WalkType
<1>6. CASE MmioMapped
  BY <1>6 DEF MmioMapped, NextHeader, Idle, TypeOK
<1>7. CASE MadtDone
  BY SMTT(30), <1>7 DEF MadtDone, TypeOK, Stages
<1>8. QED
  BY <1>1, <1>2, <1>3, <1>4, <1>5, <1>6, <1>7

\* A request that fits does not wrap: the head stays in the window.
LEMMA HeadFacts ==
  ASSUME TypeOK, NEW n \in ReqSizes \union {StackPages}, NewHead(n) <= VmEnd
  PROVE  /\ n \in Nat /\ NewHead(n) = vm_arena_head + n
         /\ NewHead(n) \in VmBegin .. VmEnd
<1>1. n \in Nat /\ VmEnd + n < NV
  BY RequestAssumption, SizeAssumption
<1>2. vm_arena_head \in Nat /\ vm_arena_head >= VmBegin
        /\ vm_arena_head <= VmEnd
  BY LayoutTypes DEF TypeOK
<1>3. vm_arena_head + n \in 0 .. (NV - 1)
  BY <1>1, <1>2, LayoutTypes
<1>4. (vm_arena_head + n) % NV = vm_arena_head + n
  BY <1>3, LayoutTypes
<1>5. QED
  BY <1>1, <1>2, <1>4, LayoutTypes DEF NewHead

LEMMA TypeRequest ==
  ASSUME TypeOK, FreshFrames, StageSound, RequestSound,
         RequestPages \/ RequestReturns \/ RequestKernelStack
  PROVE  TypeOK'
<1>0. vm_arena_head \in Nat
  BY LayoutTypes DEF TypeOK
<1>1. CASE RequestPages
  <2>1. PICK n \in ReqSizes :
          MapallocPages("request_pages", vm_arena_head, n, TRUE, FALSE)
    BY <1>1 DEF RequestPages
  <2>2. n \in Nat
    BY RequestAssumption
  <2>3. /\ job' \in JobType /\ walk' \in WalkType
        /\ arena_head' \in Nat /\ ArenaBegin <= arena_head'
        /\ arena_head' <= arena_end /\ role' \in [Arena -> Free .. Data]
    BY <1>0, <2>1, <2>2, MapallocType
  <2>4. QED
    BY <1>1, <2>3 DEF RequestPages, TypeOK, JobType, WalkType
<1>2. CASE RequestReturns
  <2>1. NewHead(job.n) \in VmBegin .. VmEnd
    BY <1>2, HeadFacts DEF RequestReturns, RequestSound
  <2>2. granted' \subseteq [v : Nat, n : Nat]
    BY <1>2 DEF RequestReturns, TypeOK
  <2>3. QED
    BY <1>2, <2>1, <2>2 DEF RequestReturns, TypeOK, Idle, Stages
<1>3. CASE RequestKernelStack
  <2>1. CASE CanRequest(StackPages)
    <3>1. StackPages \in Nat
      BY SizeAssumption
    <3>2. /\ job' \in JobType /\ walk' \in WalkType
          /\ arena_head' \in Nat /\ ArenaBegin <= arena_head'
          /\ arena_head' <= arena_end /\ role' \in [Arena -> Free .. Data]
      BY <1>0, <1>3, <2>1, <3>1, MapallocType DEF RequestKernelStack
    <3>3. QED
      BY <1>3, <2>1, <3>2
         DEF RequestKernelStack, TypeOK, JobType, WalkType, Stages
  <2>2. CASE ~CanRequest(StackPages)
    BY <1>3, <2>2 DEF RequestKernelStack, TypeOK, Stages
  <2>3. QED
    BY <2>1, <2>2
<1>4. QED
  BY <1>1, <1>2, <1>3

\* exec_process.
LEMMA TypeExec ==
  ASSUME TypeOK, FreshFrames, StageSound,
         \/ ExecProcess \/ LoadMapping \/ CopySegment
         \/ MapUserStack \/ WriteStack
  PROVE  TypeOK'
<1>1. CASE ExecProcess
  <2>1. CASE CanAlloc(1)
    <3>1. arena_head \in Arena
      BY <2>1, AllocOne
    <3>2. cr3 \in Arena
      BY <1>1 DEF ExecProcess, StageSound, TypeOK
    <3>3. /\ arena_head' \in Nat /\ ArenaBegin <= arena_head'
          /\ arena_head' <= arena_end /\ role' \in [Arena -> Free .. Data]
      BY <1>1, <2>1, AllocFacts DEF ExecProcess, Free, Data
    <3>4. mem' \in [Arena -> [Idx -> PTE]]
      BY <1>1, <2>1, <3>1, <3>2 DEF ExecProcess, TypeOK
    <3>5. QED
      BY <1>1, <2>1, <3>1, <3>3, <3>4 DEF ExecProcess, TypeOK, Stages
  <2>2. CASE ~CanAlloc(1)
    BY <1>1, <2>2 DEF ExecProcess, TypeOK, Stages
  <2>3. QED
    BY <2>1, <2>2
<1>2. CASE LoadMapping
  <2>1. prog \in Programs
    BY <1>2 DEF LoadMapping, StageSound
  <2>2. k \in DOMAIN prog.segs
    <3>1. prog.segs \in Seq([begin : Nat, end : Nat, w : BOOLEAN])
      BY <2>1, ProgramAssumption
    <3>2. QED
      BY <1>2, <3>1 DEF LoadMapping, TypeOK
  <2>3. /\ FloorPage(prog.segs[k].begin) \in Nat
        /\ SegPages(prog.segs[k]) \in Nat /\ prog.segs[k].w \in BOOLEAN
    BY <2>1, <2>2, SegFacts
  <2>4. MapallocPages("map_pages", FloorPage(prog.segs[k].begin),
                      SegPages(prog.segs[k]), prog.segs[k].w, TRUE)
    BY <1>2 DEF LoadMapping
  <2>5. /\ job' \in JobType /\ walk' \in WalkType
        /\ arena_head' \in Nat /\ ArenaBegin <= arena_head'
        /\ arena_head' <= arena_end /\ role' \in [Arena -> Free .. Data]
    BY <2>3, <2>4, MapallocType
  <2>6. QED
    BY <1>2, <2>5 DEF LoadMapping, TypeOK, JobType, WalkType
<1>3. CASE CopySegment
  <2>1. k' \in Nat \ {0} /\ job' \in JobType /\ stage' \in Stages
    <3>1. CASE k' = k + 1 /\ job' = Idle /\ UNCHANGED stage
      BY <3>1 DEF TypeOK, Idle, JobType
    <3>2. CASE stage' = "panic" /\ UNCHANGED <<k, job>>
      BY <3>2 DEF TypeOK, JobType, Stages
    <3>3. QED
      BY <1>3, <3>1, <3>2 DEF CopySegment
  <2>2. QED
    BY <1>3, <2>1 DEF CopySegment, TypeOK, JobType
<1>4. CASE MapUserStack
  <2>1. StackAt(prog.use) \in Nat /\ CeilPages(prog.use) \in Nat
    BY <1>4, StackFacts DEF MapUserStack, StageSound
  <2>2. /\ job' \in JobType /\ walk' \in WalkType
        /\ arena_head' \in Nat /\ ArenaBegin <= arena_head'
        /\ arena_head' <= arena_end /\ role' \in [Arena -> Free .. Data]
    BY <1>4, <2>1, MapallocType DEF MapUserStack
  <2>3. QED
    BY <1>4, <2>2 DEF MapUserStack, TypeOK, JobType, WalkType, Stages
<1>5. CASE WriteStack
  <2>1. job' \in JobType /\ stage' \in Stages
    <3>1. CASE stage' = "args" /\ job' = Idle
      BY <3>1 DEF Idle, JobType, Stages
    <3>2. CASE stage' = "panic" /\ UNCHANGED job
      BY <3>2 DEF TypeOK, JobType, Stages
    <3>3. QED
      BY <1>5, <3>1, <3>2 DEF WriteStack
  <2>2. QED
    BY <1>5, <2>1 DEF WriteStack, TypeOK, JobType
<1>6. QED
  BY <1>1, <1>2, <1>3, <1>4, <1>5

(***************************************************************************)
(* Seen from the allocator, a step of the kernel takes fresh frames for    *)
(* one purpose or none at all; so roles only change from Free.             *)
(***************************************************************************)
Allocates == \E n \in Nat, r \in 1 .. Data : CanAlloc(n) /\ AllocPages(n, r)
AllocStep == Allocates \/ UNCHANGED <<arena_head, role>>
RolesKept == \A t \in Arena : role[t] # Free => role'[t] = role[t]

LEMMA NextAllocStep ==
  ASSUME TypeOK, StageSound, Next
  PROVE  AllocStep
<1>1. ASSUME NEW by, NEW v, NEW n \in Nat, NEW w, NEW u,
             MapallocPages(by, v, n, w, u)
      PROVE  AllocStep
  <2>1. CASE CanAlloc(n) /\ AllocPages(n, Data)
    <3>1. Data \in 1 .. Data
      BY DEF Data
    <3>2. QED
      BY <2>1, <3>1 DEF AllocStep, Allocates
  <2>2. CASE UNCHANGED <<arena_head, role>>
    BY <2>2 DEF AllocStep
  <2>3. QED
    BY <1>1, <2>1, <2>2 DEF MapallocPages
<1>2. CASE WalkNew
  <2>1. walk.lvl - 1 \in 1 .. Data
    BY <1>2, JobTypes DEF WalkNew, Walking, TypeOK, Levels, Data
  <2>2. QED
    BY <1>2, <2>1 DEF WalkNew, AllocStep, Allocates
<1>3. CASE SetupVm \/ ActivateToplevel \/ ExecProcess
  <2>1. 4 \in 1 .. Data /\ Data \in 1 .. Data /\ 1 \in Nat
          /\ StackPages \in Nat
    BY SizeAssumption DEF Data
  <2>2. CASE SetupVm
    BY <2>1, <2>2 DEF SetupVm, AllocStep, Allocates
  <2>3. CASE ActivateToplevel
    BY <2>1, <2>3 DEF ActivateToplevel, AllocStep, Allocates
  <2>4. CASE ExecProcess
    BY <2>1, <2>4 DEF ExecProcess, AllocStep, Allocates
  <2>5. QED
    BY <1>3, <2>2, <2>3, <2>4
<1>4. CASE RequestPages \/ RequestKernelStack
  BY <1>1, <1>4, RequestAssumption, SizeAssumption
     DEF RequestPages, RequestKernelStack, AllocStep
<1>5. CASE LoadMapping
  <2>1. prog.segs \in Seq([begin : Nat, end : Nat, w : BOOLEAN])
    BY <1>5, ProgramAssumption DEF LoadMapping, StageSound
  <2>2. k \in DOMAIN prog.segs
    BY <1>5, <2>1 DEF LoadMapping, TypeOK
  <2>3. SegPages(prog.segs[k]) \in Nat
    BY <1>5, <2>2, SegFacts DEF LoadMapping, StageSound
  <2>4. QED
    BY <1>1, <1>5, <2>3 DEF LoadMapping
<1>6. CASE MapUserStack
  <2>1. CeilPages(prog.use) \in Nat
    BY <1>6, StackFacts DEF MapUserStack, StageSound
  <2>2. QED
    BY <1>1, <1>6, <2>1 DEF MapUserStack
<1>7. QED
  BY <1>2, <1>3, <1>4, <1>5, <1>6
     DEF Next, MapStep, WalkCached, WalkExisting, WalkFails, SetPage,
         PageInUse, MapHhdm, SetupVmPanics, MapMmio, MmioMapped, MadtDone,
         RequestReturns, CopySegment, WriteStack, AllocStep

LEMMA AllocStepKeepsRoles ==
  ASSUME TypeOK, FreshFrames, AllocStep
  PROVE  /\ RolesKept
         /\ \A t \in Arena : t >= arena_head' => role'[t] = Free
         /\ \A t \in Arena : role'[t] = Free => role[t] = Free
<1>1. CASE Allocates
  <2>1. PICK n \in Nat, r \in 1 .. Data : CanAlloc(n) /\ AllocPages(n, r)
    BY <1>1 DEF Allocates
  <2>2. \A t \in Arena :
          \/ t \in arena_head .. (arena_head + n - 1)
               /\ role[t] = Free /\ role'[t] = r /\ t < arena_head'
          \/ t \notin arena_head .. (arena_head + n - 1)
               /\ role'[t] = role[t]
               /\ (t >= arena_head' => t >= arena_head)
    BY <2>1, AllocFacts DEF Free, Data
  <2>3. arena_head' \in Nat
    BY <2>1, AllocFacts DEF Free, Data
  <2>4. ASSUME NEW t \in Arena
        PROVE  /\ role[t] # Free => role'[t] = role[t]
               /\ t >= arena_head' => role'[t] = Free
               /\ role'[t] = Free => role[t] = Free
    <3>1. t \in Int
      BY ArenaAssumption DEF Arena
    <3>2. CASE role[t] = Free /\ role'[t] = r /\ t < arena_head'
      BY <2>3, <3>1, <3>2
    <3>3. CASE role'[t] = role[t] /\ (t >= arena_head' => t >= arena_head)
      BY <3>3 DEF FreshFrames
    <3>4. QED
      BY <2>2, <3>2, <3>3
  <2>5. QED
    BY <2>4 DEF RolesKept
<1>2. CASE UNCHANGED <<arena_head, role>>
  BY <1>2 DEF RolesKept, FreshFrames
<1>3. QED
  BY <1>1, <1>2 DEF AllocStep

(***************************************************************************)
(* FreshFrames is kept: entries are written into tables only, and the one  *)
(* frame that exec_process fills becomes a table in the same step.         *)
(***************************************************************************)
LEMMA NextMemStep ==
  Next => WalkNew \/ SetPage \/ ExecProcess \/ UNCHANGED mem
BY DEF Next, MapStep, WalkCached, WalkExisting, WalkFails, PageInUse, SetupVm,
       MapHhdm, ActivateToplevel, SetupVmPanics, MapMmio, MmioMapped,
       MadtDone, RequestPages, RequestReturns, LoadMapping, CopySegment,
       MapUserStack, WriteStack, RequestKernelStack

\* The entry that a walk or a mapping writes is in a table.
LEMMA WriteFacts ==
  ASSUME TypeOK, FreshFrames, WalkSound, TablesWellFormed, WalkNew \/ SetPage
  PROVE  /\ walk.tbl \in Arena /\ role[walk.tbl] = walk.lvl
         /\ walk.lvl \in Levels /\ Off(walk.lvl, V) \in Idx
         /\ \A t \in Arena, i \in Idx :
              (t # walk.tbl \/ i # Off(walk.lvl, V)) =>
                mem'[t][i] = mem[t][i]
         /\ WalkNew => mem'[walk.tbl][Off(walk.lvl, V)] = NewTable(arena_head)
         /\ SetPage => /\ mem'[walk.tbl][Off(walk.lvl, V)] = NewPage
                       /\ walk.lvl = LeafLevel
<1>1. job.st = "map"
  BY DEF WalkNew, SetPage, Walking, AtLeaf
<1>2. /\ walk.tbl \in Arena /\ role[walk.tbl] = walk.lvl
      /\ walk.lvl \in Levels /\ Off(walk.lvl, V) \in Idx
  BY <1>1, EntryFacts
<1>3. CASE WalkNew
  <2>1. mem' = [mem EXCEPT ![walk.tbl][Off(walk.lvl, V)] =
                  NewTable(arena_head)]
    BY <1>3 DEF WalkNew
  <2>2. walk.lvl > LeafLevel /\ ~SetPage
    BY <1>2, <1>3, JobTypes DEF WalkNew, Walking, SetPage, AtLeaf, Levels
  <2>3. QED
    BY <1>2, <2>1, <2>2 DEF TypeOK
<1>4. CASE SetPage
  <2>1. mem' = [mem EXCEPT ![walk.tbl][Off(LeafLevel, V)] = NewPage]
          /\ walk.lvl = LeafLevel
    BY <1>4 DEF SetPage, AtLeaf
  <2>2. ~WalkNew
    <3>1. ~Walking
      BY <1>2, <2>1, JobTypes DEF Walking, Levels
    <3>2. QED
      BY <3>1 DEF WalkNew
  <2>3. QED
    BY <1>2, <1>4, <2>1, <2>2 DEF TypeOK
<1>5. QED
  BY <1>3, <1>4

LEMMA FreshFramesStep ==
  ASSUME TypeOK, FreshFrames, StageSound, WalkSound, TablesWellFormed, Next
  PROVE  FreshFrames'
<1>1. /\ RolesKept
      /\ \A t \in Arena : t >= arena_head' => role'[t] = Free
      /\ \A t \in Arena : role'[t] = Free => role[t] = Free
  BY NextAllocStep, AllocStepKeepsRoles
<1>2. ASSUME NEW t \in Arena, role'[t] \in {Free, Data}, NEW i \in Idx
      PROVE  mem'[t][i] = Absent
  <2>1. role[t] \in {Free, Data}
    BY <1>1, <1>2 DEF RolesKept
  <2>2. mem[t][i] = Absent
    BY <2>1 DEF FreshFrames
  <2>3. CASE WalkNew \/ SetPage
    <3>1. t # walk.tbl
      BY <2>1, <2>3, WriteFacts DEF Levels, Free, Data
    <3>2. QED
      BY <2>2, <2>3, <3>1, WriteFacts
  <2>4. CASE ExecProcess
    <3>1. CASE CanAlloc(1)
      <4>1. arena_head \in Arena
        BY <3>1, AllocOne
      <4>2. role'[arena_head] = 4
        BY <2>4, <3>1, <4>1 DEF ExecProcess, AllocPages, TypeOK
      <4>3. t # arena_head
        BY <1>2, <4>2 DEF Free, Data
      <4>4. QED
        BY <2>2, <2>4, <3>1, <4>1, <4>3 DEF ExecProcess, TypeOK
    <3>2. CASE ~CanAlloc(1)
      BY <2>2, <2>4, <3>2 DEF ExecProcess
    <3>3. QED
      BY <3>1, <3>2
  <2>5. CASE UNCHANGED mem
    BY <2>2, <2>5
  <2>6. QED
    BY <2>3, <2>4, <2>5, NextMemStep
<1>3. QED
  BY <1>1, <1>2 DEF FreshFrames

\* StageSound says in which stages the kernel has a table, a call and a
\* program.
LEMMA StageStep ==
  ASSUME TypeOK, StageSound, Next
  PROVE  StageSound'
<1> USE DEF StageSound, NULL
<1>1. CASE MapStep
  BY <1>1 DEF MapStep, WalkCached, WalkExisting, WalkNew, WalkFails, SetPage,
              PageInUse, Walking, AtLeaf
<1>2. CASE SetupVm
  BY <1>2, AllocOne DEF SetupVm, NULL
<1>3. CASE MapHhdm \/ ActivateToplevel \/ SetupVmPanics
  BY <1>3 DEF MapHhdm, ActivateToplevel, SetupVmPanics, Idle
<1>4. CASE MapMmio \/ MmioMapped \/ MadtDone
  BY <1>4 DEF MapMmio, MmioMapped, MadtDone, Idle
<1>5. CASE RequestPages \/ RequestReturns \/ RequestKernelStack
  <2>1. CASE RequestPages
    BY <2>1 DEF RequestPages
  <2>2. CASE RequestReturns
    <3>1. stage' \in {stage, "user", "wild"} /\ job' = Idle
            /\ (stage' # stage => stage = "kernel_stack")
      BY <2>2 DEF RequestReturns
    <3>2. UNCHANGED <<toplevel, cr3, prog>>
      BY <2>2 DEF RequestReturns
    <3>3. QED
      BY <3>1, <3>2 DEF Idle
  <2>3. CASE RequestKernelStack
    BY <2>3 DEF RequestKernelStack
  <2>4. QED
    BY <1>5, <2>1, <2>2, <2>3
<1>6. CASE ExecProcess
  BY <1>6, AllocOne DEF ExecProcess, NULL
<1>7. CASE LoadMapping \/ MapUserStack
  BY <1>7 DEF LoadMapping, MapUserStack
<1>8. CASE CopySegment \/ WriteStack
  <2>1. stage \in {"load", "map_stack"} /\ job.st # "map"
    BY <1>8 DEF CopySegment, WriteStack, Returned
  <2>2. job'.st # "map"
    BY <1>8, <2>1 DEF CopySegment, WriteStack, Idle
  <2>3. stage' \in {"load", "args", "panic"}
          /\ (stage' = "load" => stage = "load")
    BY <1>8 DEF CopySegment, WriteStack
  <2>4. UNCHANGED <<toplevel, cr3, prog>>
    BY <1>8 DEF CopySegment, WriteStack
  <2>5. QED
    BY <2>1, <2>2, <2>3, <2>4
<1>9. QED
  BY <1>1, <1>2, <1>3, <1>4, <1>5, <1>6, <1>7, <1>8 DEF Next

(***************************************************************************)
(* WalkSound is kept.                                                      *)
(***************************************************************************)
\* A table that was sound stays so: its role never changes again.
LEMMA RoleOfTable ==
  ASSUME RolesKept, NEW t \in Arena, NEW l \in 1 .. Data, role[t] = l
  PROVE  role'[t] = l
BY DEF RolesKept, Free, Data

\* A walk that starts at the toplevel table stands on a PML4.
LEMMA WalkStart ==
  ASSUME TypeOK, RolesKept, NEW top \in Arena, role[top] = 4 \/ role'[top] = 4,
         StartWalk(top)
  PROVE  walk'.tbl # NULL /\ role'[walk'.tbl] = walk'.lvl
           /\ walk'.lvl >= LeafLevel'
<1>1. role'[top] = 4
  BY RoleOfTable DEF Data
<1>2. LeafLevel' \in {1, 3}
  BY DEF LeafLevel
<1>3. top # NULL
  BY ArenaAssumption DEF Arena, NULL
<1>4. QED
  BY <1>1, <1>2, <1>3 DEF StartWalk

\* What the parts of WalkSound say of the next state when a step does not
\* touch them.
LEMMA WalkFrame ==
  ASSUME TypeOK, WalkSound, RolesKept
  PROVE  /\ toplevel' = toplevel =>
              (toplevel' # NULL => role'[toplevel'] = 4)
         /\ cr3' = cr3 => (cr3' # NULL => role'[cr3'] = 4)
         /\ cache' = cache =>
              \A l \in 2 .. 4 :
                cache'[l].tbl # NULL => role'[cache'[l].tbl] = l - 1
<1>1. ASSUME NEW t \in Arena \union {NULL}, NEW l \in 1 .. Data,
             t # NULL => role[t] = l
      PROVE  t # NULL => role'[t] = l
  BY <1>1, RoleOfTable
<1>2. toplevel # NULL => role'[toplevel] = 4
  BY <1>1 DEF WalkSound, TypeOK, Data
<1>3. cr3 # NULL => role'[cr3] = 4
  BY <1>1 DEF WalkSound, TypeOK, Data
<1>4. ASSUME NEW l \in 2 .. 4
      PROVE  cache[l].tbl # NULL => role'[cache[l].tbl] = l - 1
  <2>1. l - 1 \in 1 .. Data /\ cache[l].tbl \in Arena \union {NULL}
    BY DEF Data, TypeOK
  <2>2. QED
    BY <1>1, <2>1 DEF WalkSound
<1>5. QED
  BY <1>2, <1>3, <1>4

LEMMA WalkStepMap ==
  ASSUME TypeOK, FreshFrames, StageSound, WalkSound, TablesWellFormed,
         RolesKept, MapStep
  PROVE  WalkSound'
<1>1. /\ UNCHANGED <<toplevel, cr3>> /\ job.st = "map"
      /\ toplevel \in Arena /\ role[toplevel] = 4
  BY DEF MapStep, WalkCached, WalkExisting, WalkNew, WalkFails, SetPage,
         PageInUse, Walking, AtLeaf, StageSound, WalkSound, TypeOK
<1>2. LeafLevel \in {1, 3} /\ walk.lvl \in Levels
  BY JobTypes DEF TypeOK
<1>3. CASE WalkCached \/ WalkExisting \/ WalkNew
  <2>1. walk.lvl \in 2 .. 4 /\ walk.lvl - 1 >= LeafLevel /\ walk.lvl - 1 \in Int
    <3>1. walk.lvl > LeafLevel
      BY <1>3 DEF WalkCached, WalkExisting, WalkNew, Walking
    <3>2. QED
      BY <1>2, <3>1 DEF Levels
  <2>2. UNCHANGED job /\ LeafLevel' = LeafLevel
    BY <1>3 DEF WalkCached, WalkExisting, WalkNew, LeafLevel
  <2>3. CASE WalkCached
    <3>1. cache[walk.lvl].tbl \in Arena
            /\ role[cache[walk.lvl].tbl] = walk.lvl - 1
      BY <2>1, <2>3 DEF WalkCached, Hit, WalkSound, TypeOK
    <3>2. role'[cache[walk.lvl].tbl] = walk.lvl - 1
      BY <2>1, <3>1, RoleOfTable DEF Data
    <3>3. walk' = [lvl |-> walk.lvl - 1, tbl |-> cache[walk.lvl].tbl,
                   fill |-> walk.fill]
            /\ cache' = cache
      BY <2>3 DEF WalkCached, Descend
    <3>4. cache[walk.lvl].tbl # NULL
      BY <2>3 DEF WalkCached, Hit
    <3>5. QED
      BY <1>1, <2>1, <2>2, <3>2, <3>3, <3>4, WalkFrame DEF WalkSound
  <2>4. ASSUME NEW t \in Arena, role'[t] = walk.lvl - 1,
               Descend(t, TRUE),
               cache' = [cache EXCEPT ![walk.lvl] =
                           [off |-> Off(walk.lvl, V), tbl |-> t]]
        PROVE  WalkSound'
    <3>1. t # NULL
      BY ArenaAssumption DEF Arena, NULL
    <3>2. walk' = [lvl |-> walk.lvl - 1, tbl |-> t, fill |-> TRUE]
      BY <2>4 DEF Descend
    <3>3. ASSUME NEW l \in 2 .. 4
          PROVE  cache'[l].tbl # NULL => role'[cache'[l].tbl] = l - 1
      <4>1. CASE l = walk.lvl
        BY <2>1, <2>4, <4>1 DEF TypeOK
      <4>2. CASE l # walk.lvl
        <5>1. cache'[l] = cache[l]
          BY <2>4, <4>2 DEF TypeOK
        <5>2. l - 1 \in 1 .. Data /\ cache[l].tbl \in Arena \union {NULL}
          BY DEF Data, TypeOK
        <5>3. QED
          BY <5>1, <5>2, RoleOfTable DEF WalkSound
      <4>3. QED
        BY <4>1, <4>2
    <3>4. QED
      BY <1>1, <2>1, <2>2, <2>4, <3>1, <3>2, <3>3, WalkFrame DEF WalkSound
  <2>5. CASE WalkExisting
    <3>1. Entry.f \in Arena /\ role[Entry.f] = walk.lvl - 1
      BY <1>1, <2>5, EntryFacts DEF WalkExisting
    <3>2. role'[Entry.f] = walk.lvl - 1
      BY <2>1, <3>1, RoleOfTable DEF Data
    <3>3. QED
      BY <2>4, <2>5, <3>1, <3>2 DEF WalkExisting
  <2>6. CASE WalkNew
    <3>1. arena_head \in Arena
      BY <2>6, AllocOne DEF WalkNew
    <3>2. role'[arena_head] = walk.lvl - 1
      BY <2>6, <3>1 DEF WalkNew, AllocPages, TypeOK
    <3>3. QED
      BY <2>4, <2>6, <3>1, <3>2 DEF WalkNew
  <2>7. QED
    BY <1>3, <2>3, <2>5, <2>6
<1>4. CASE SetPage
  <2>1. cache' = cache /\ StartWalk(toplevel)
    BY <1>4 DEF SetPage
  <2>2. QED
    BY <1>1, <2>1, WalkStart, WalkFrame DEF WalkSound
<1>5. CASE WalkFails \/ PageInUse
  <2>1. cache' = cache /\ job'.st = "failed"
    BY <1>5 DEF WalkFails, PageInUse, TypeOK
  <2>2. QED
    BY <1>1, <2>1, WalkFrame DEF WalkSound
<1>6. QED
  BY <1>3, <1>4, <1>5 DEF MapStep

LEMMA WalkStepCallers ==
  ASSUME TypeOK, FreshFrames, StageSound, WalkSound, RolesKept, Next, ~MapStep
  PROVE  WalkSound'
<1>1. CASE SetupVm
  <2>1. CASE CanAlloc(1)
    <3>1. arena_head \in Arena
      BY <2>1, AllocOne
    <3>2. role'[arena_head] = 4
      <4>1. AllocPages(1, 4)
        BY <1>1, <2>1 DEF SetupVm
      <4>2. QED
        BY <2>1, <4>1, AllocOneRole
    <3>3. StartWalk(arena_head) /\ toplevel' = arena_head
            /\ UNCHANGED <<cr3, cache>>
      BY <1>1, <2>1 DEF SetupVm
    <3>4. QED
      BY <3>1, <3>2, <3>3, WalkStart, WalkFrame DEF WalkSound
  <2>2. CASE ~CanAlloc(1)
    <3>1. UNCHANGED <<toplevel, cr3, cache, job>>
      BY <1>1, <2>2 DEF SetupVm
    <3>2. job'.st # "map"
      BY <1>1, <3>1 DEF SetupVm, StageSound
    <3>3. QED
      BY <3>1, <3>2, WalkFrame DEF WalkSound
  <2>3. QED
    BY <2>1, <2>2
<1>2. CASE ExecProcess
  <2>1. job'.st # "map" /\ cache' = cache
    BY <1>2 DEF ExecProcess
  <2>2. CASE CanAlloc(1)
    <3>1. arena_head \in Arena
      BY <2>2, AllocOne
    <3>2. role'[arena_head] = 4
      <4>1. AllocPages(1, 4)
        BY <1>2, <2>2 DEF ExecProcess
      <4>2. QED
        BY <2>2, <4>1, AllocOneRole
    <3>3. QED
      BY <1>2, <2>1, <2>2, <3>2, WalkFrame DEF ExecProcess, WalkSound
  <2>3. CASE ~CanAlloc(1)
    BY <1>2, <2>1, <2>3, WalkFrame DEF ExecProcess, WalkSound
  <2>4. QED
    BY <2>2, <2>3
<1>3. CASE ActivateToplevel
  <2>1. UNCHANGED <<toplevel, cache>> /\ cr3' = toplevel /\ job' = Idle
    BY <1>3 DEF ActivateToplevel
  <2>2. QED
    BY <2>1, WalkFrame DEF WalkSound, Idle
<1>4. ASSUME UNCHANGED <<toplevel, cr3, cache>>, toplevel # NULL,
             StartWalk(toplevel)
      PROVE  WalkSound'
  <2>1. toplevel \in Arena /\ role[toplevel] = 4
    BY <1>4 DEF TypeOK, WalkSound
  <2>2. QED
    BY <1>4, <2>1, WalkStart, WalkFrame DEF WalkSound
<1>5. CASE MapHhdm \/ MapMmio \/ RequestPages \/ LoadMapping \/ MapUserStack
  <2>1. UNCHANGED <<toplevel, cr3, cache>> /\ StartWalk(toplevel)
    BY <1>5 DEF MapHhdm, MapMmio, RequestPages, LoadMapping, MapUserStack,
                MapallocPages
  <2>2. toplevel # NULL
    BY <1>5 DEF MapHhdm, MapMmio, RequestPages, LoadMapping, MapUserStack,
                StageSound
  <2>3. QED
    BY <1>4, <2>1, <2>2
<1>6. ASSUME UNCHANGED <<toplevel, cr3, cache>>, job'.st # "map"
      PROVE  WalkSound'
  BY <1>6, WalkFrame DEF WalkSound
<1>7. CASE RequestKernelStack
  <2>1. UNCHANGED <<toplevel, cr3, cache>> /\ toplevel # NULL
    BY <1>7 DEF RequestKernelStack, StageSound
  <2>2. CASE StartWalk(toplevel)
    BY <1>4, <2>1, <2>2
  <2>3. CASE UNCHANGED job
    BY <1>6, <1>7, <2>1, <2>3 DEF RequestKernelStack
  <2>4. QED
    BY <1>7, <2>2, <2>3 DEF RequestKernelStack, MapallocPages
<1>8. CASE \/ SetupVmPanics \/ MmioMapped \/ MadtDone \/ RequestReturns
           \/ CopySegment \/ WriteStack
  <2>1. UNCHANGED <<toplevel, cr3, cache>>
    BY <1>8 DEF SetupVmPanics, MmioMapped, MadtDone, RequestReturns,
                CopySegment, WriteStack
  <2>2. job' \in {job, Idle} /\ job.st # "map"
    BY <1>8 DEF SetupVmPanics, MmioMapped, MadtDone, RequestReturns,
                CopySegment, WriteStack, Returned
  <2>3. QED
    BY <1>6, <2>1, <2>2 DEF Idle
<1>9. QED
  BY <1>1, <1>2, <1>3, <1>5, <1>7, <1>8 DEF Next

LEMMA WalkStep ==
  ASSUME TypeOK, FreshFrames, StageSound, WalkSound, TablesWellFormed,
         RolesKept, Next
  PROVE  WalkSound'
BY WalkStepMap, WalkStepCallers

(***************************************************************************)
(* TablesWellFormed is kept.                                               *)
(***************************************************************************)
LEMMA GoodKept ==
  ASSUME RolesKept, NEW l \in Levels, NEW e \in PTE, GoodEntry(l, e)
  PROVE  GoodEntry(l, e)'
<1>1. CASE l = 1 /\ ~e.ps /\ (e.f \in Arena => role[e.f] = Data)
  BY <1>1 DEF GoodEntry, RolesKept, Free, Data
<1>2. CASE l = 3 /\ e.ps
  BY <1>2 DEF GoodEntry
<1>3. CASE l > 1 /\ ~e.ps /\ e.f \in Arena /\ role[e.f] = l - 1
  <2>1. role'[e.f] = l - 1
    BY <1>3 DEF RolesKept, Free, Levels
  <2>2. QED
    BY <1>3, <2>1 DEF GoodEntry
<1>4. QED
  BY <1>1, <1>2, <1>3 DEF GoodEntry

\* A present entry is in a frame that is a table already.
LEMMA PresentInTable ==
  ASSUME TypeOK, FreshFrames, RolesKept, NEW t \in Arena, NEW i \in Idx,
         NEW l \in Levels, role'[t] = l, mem[t][i].p
  PROVE  role[t] = l
<1>1. role[t] # Free
  BY DEF FreshFrames, Absent
<1>2. QED
  BY <1>1 DEF RolesKept

\* The page that SetPage maps is the next one of the job.
LEMMA NextPageFacts ==
  ASSUME TypeOK, JobSound, SetPage
  PROVE  /\ NewPage \in PTE /\ NewPage.ps = job.huge /\ NewPage.f = P
         /\ ~job.huge =>
              /\ P = job.p + job.i
              /\ P \in Arena => role[P] = Data /\ Unmapped(P)
<1>1. job.p + job.i \in Rest /\ job.st = "map"
  BY DEF SetPage, AtLeaf, JobSound, Rest, TypeOK
<1>2. NewPage \in PTE /\ NewPage.ps = job.huge /\ NewPage.f = P
  BY JobTypes DEF NewPage, PTE, TypeOK
<1>3. ASSUME ~job.huge
      PROVE  P = job.p + job.i
  BY <1>3 DEF P, JobSpan, TypeOK
<1>4. QED
  BY <1>1, <1>2, <1>3 DEF JobSound

LEMMA TablesStep ==
  ASSUME TypeOK, FreshFrames, StageSound, WalkSound, JobSound,
         TablesWellFormed, RolesKept, Next
  PROVE  TablesWellFormed'
<1> SUFFICES ASSUME NEW t \in Arena, role'[t] \in Levels, NEW i \in Idx,
                    mem'[t][i].p
             PROVE  GoodEntry(role[t], mem[t][i])'
  BY DEF TablesWellFormed
<1>1. ASSUME NEW s \in Arena, NEW j \in Idx, mem[s][j].p,
             role'[s] = role'[t], mem'[t][i] = mem[s][j]
      PROVE  GoodEntry(role[t], mem[t][i])'
  <2>1. role[s] = role'[t]
    BY <1>1, PresentInTable
  <2>2. PICK l \in Levels, e \in PTE : l = role'[t] /\ e = mem[s][j]
    BY DEF TypeOK
  <2>3. GoodEntry(l, e)
    BY <1>1, <2>1, <2>2 DEF TablesWellFormed
  <2>4. GoodEntry(l, e)'
    BY <2>3, GoodKept
  <2>5. QED
    BY <1>1, <2>2, <2>4 DEF GoodEntry
<1>2. CASE WalkNew \/ SetPage
  <2>1. CASE t # walk.tbl \/ i # Off(walk.lvl, V)
    <3>1. mem'[t][i] = mem[t][i]
      BY <1>2, <2>1, WriteFacts
    <3>2. QED
      BY <1>1, <3>1
  <2>2. CASE t = walk.tbl /\ i = Off(walk.lvl, V)
    <3>1. walk.lvl \in Levels /\ role'[t] = walk.lvl
      BY <1>2, <2>2, WriteFacts, RoleOfTable DEF Levels, Data
    <3>2. CASE WalkNew
      <4>1. arena_head \in Arena /\ AllocPages(1, walk.lvl - 1)
        BY <3>2, AllocOne DEF WalkNew
      <4>2. role'[arena_head] = walk.lvl - 1
        BY <3>2, <4>1, AllocOneRole DEF WalkNew
      <4>3. walk.lvl > LeafLevel
        BY <3>2 DEF WalkNew, Walking
      <4>4. walk.lvl > 1
        BY <3>1, <4>3, JobTypes DEF Levels
      <4>5. mem'[t][i] = NewTable(arena_head)
        BY <1>2, <2>2, <3>2, WriteFacts
      <4>6. QED
        BY <3>1, <4>1, <4>2, <4>4, <4>5 DEF GoodEntry, NewTable
    <3>3. CASE SetPage
      <4>1. mem'[t][i] = NewPage /\ walk.lvl = LeafLevel
        BY <1>2, <2>2, <3>3, WriteFacts
      <4>2. CASE job.huge
        BY <3>1, <3>3, <4>1, <4>2, NextPageFacts DEF GoodEntry, LeafLevel
      <4>3. CASE ~job.huge
        <5>1. NewPage.f \in Arena => role'[NewPage.f] = Data
          BY <3>3, <4>3, NextPageFacts DEF RolesKept, Free, Data
        <5>2. QED
          BY <3>1, <3>3, <4>1, <4>3, <5>1, NextPageFacts
             DEF GoodEntry, LeafLevel
      <4>4. QED
        BY <4>2, <4>3
    <3>4. QED
      BY <1>2, <3>2, <3>3
  <2>3. QED
    BY <2>1, <2>2
<1>3. CASE ExecProcess
  <2>1. CASE CanAlloc(1) /\ t = arena_head
    <3>1. cr3 \in Arena /\ role[cr3] = 4
      BY <1>3 DEF ExecProcess, StageSound, WalkSound, TypeOK
    <3>2. AllocPages(1, 4)
      BY <1>3, <2>1 DEF ExecProcess
    <3>3. role'[t] = 4 /\ role'[cr3] = 4
      BY <2>1, <3>1, <3>2, AllocOneRole, RoleOfTable DEF Data
    <3>4. mem[t][i] = Absent
      BY <2>1 DEF FreshFrames, TypeOK, Free
    <3>5. mem'[t][i] = IF i >= L \div 2 THEN mem[cr3][i] ELSE mem[t][i]
      BY <1>3, <2>1 DEF ExecProcess, TypeOK
    <3>6. mem'[t][i] = mem[cr3][i]
      BY <3>4, <3>5 DEF Absent
    <3>7. QED
      BY <1>1, <3>1, <3>3, <3>6
  <2>2. CASE ~CanAlloc(1) \/ t # arena_head
    <3>1. mem'[t][i] = mem[t][i]
      BY <1>3, <2>2 DEF ExecProcess, TypeOK
    <3>2. QED
      BY <1>1, <3>1
  <2>3. QED
    BY <2>1, <2>2
<1>4. CASE UNCHANGED mem
  BY <1>1, <1>4
<1>5. QED
  BY <1>2, <1>3, <1>4, NextMemStep

(***************************************************************************)
(* NoSharing is kept: a new table and a newly mapped frame were referred   *)
(* to by no entry, and exec_process copies entries to the same index.      *)
(***************************************************************************)
LEMMA NoReferrer ==
  ASSUME TypeOK, FreshFrames, TablesWellFormed, NEW f \in Arena,
         role[f] = Free, NEW t \in Arena, role[t] \in Levels, NEW i \in Idx,
         mem[t][i].p, ~mem[t][i].ps
  PROVE  mem[t][i].f # f
<1>1. GoodEntry(role[t], mem[t][i])
  BY DEF TablesWellFormed
<1>2. QED
  BY <1>1 DEF GoodEntry, Levels, Free, Data

\* Two entries that a step left in place, under the same PML4 or not.
LEMMA OldEntries ==
  ASSUME TypeOK, FreshFrames, NoSharing, RolesKept,
         NEW l \in Levels, NEW t1 \in Arena, NEW t2 \in Arena,
         role'[t1] = l, role'[t2] = l, NEW i1 \in Idx, NEW i2 \in Idx,
         SameTarget(t1, i1, t2, i2)
  PROVE  i1 = i2 /\ (t1 = t2 \/ (l = 4 /\ i1 >= L \div 2))
<1>1. role[t1] = l /\ role[t2] = l
  BY PresentInTable DEF SameTarget
<1>2. QED
  BY <1>1 DEF NoSharing, Tables

\* What WalkNew and SetPage write refers to no frame that another table of
\* the level refers to.
LEMMA NewEntryUnshared ==
  ASSUME TypeOK, FreshFrames, WalkSound, JobSound, TablesWellFormed,
         WalkNew \/ SetPage,
         NEW t \in Arena, role[t] = walk.lvl, NEW i \in Idx,
         mem[t][i].p, ~mem[t][i].ps, mem[t][i].f \in Arena,
         ~mem'[walk.tbl][Off(walk.lvl, V)].ps
  PROVE  mem[t][i].f # mem'[walk.tbl][Off(walk.lvl, V)].f
<1>1. CASE WalkNew
  <2>1. arena_head \in Arena /\ role[arena_head] = Free
    BY <1>1, AllocOne DEF WalkNew, FreshFrames, TypeOK
  <2>2. mem'[walk.tbl][Off(walk.lvl, V)].f = arena_head
    BY <1>1, WriteFacts DEF NewTable
  <2>3. role[t] \in Levels
    BY DEF TypeOK
  <2>4. QED
    BY <2>1, <2>2, <2>3, NoReferrer
<1>2. CASE SetPage
  <2>1. mem'[walk.tbl][Off(walk.lvl, V)] = NewPage /\ walk.lvl = LeafLevel
    BY <1>2, WriteFacts
  <2>2. ~job.huge
    BY <1>2, <2>1, NextPageFacts
  <2>3. walk.lvl = 1
    BY <2>1, <2>2 DEF LeafLevel
  <2>4. P \in Arena => Unmapped(P)
    BY <1>2, <2>2, NextPageFacts
  <2>5. NewPage.f = P
    BY <1>2, NextPageFacts
  <2>6. QED
    BY <2>1, <2>3, <2>4, <2>5 DEF Unmapped, Tables
<1>3. QED
  BY <1>1, <1>2

LEMMA SharingStep ==
  ASSUME TypeOK, FreshFrames, StageSound, WalkSound, JobSound,
         TablesWellFormed, NoSharing, RolesKept, Next
  PROVE  NoSharing'
<1> SUFFICES ASSUME NEW l \in Levels, NEW t1 \in Arena, NEW t2 \in Arena,
                    role'[t1] = l, role'[t2] = l,
                    NEW i1 \in Idx, NEW i2 \in Idx,
                    mem'[t1][i1].p, mem'[t2][i2].p,
                    ~mem'[t1][i1].ps, ~mem'[t2][i2].ps,
                    mem'[t1][i1].f = mem'[t2][i2].f, mem'[t1][i1].f \in Arena
             PROVE  i1 = i2 /\ (t1 = t2 \/ (l = 4 /\ i1 >= L \div 2))
  BY DEF NoSharing, SameTarget, Tables
<1>1. CASE mem'[t1][i1] = mem[t1][i1] /\ mem'[t2][i2] = mem[t2][i2]
  BY <1>1, OldEntries DEF SameTarget
<1>2. CASE WalkNew \/ SetPage
  <2> DEFINE o == Off(walk.lvl, V)
  <2>1. /\ walk.tbl \in Arena /\ o \in Idx /\ role[walk.tbl] = walk.lvl
        /\ walk.lvl \in Levels
        /\ \A t \in Arena, i \in Idx :
             (t # walk.tbl \/ i # o) => mem'[t][i] = mem[t][i]
    BY <1>2, WriteFacts
  <2>2. role'[walk.tbl] = walk.lvl
    BY <2>1, RoleOfTable DEF Levels, Data
  <2>3. ASSUME NEW t \in Arena, role'[t] = walk.lvl, NEW i \in Idx,
               mem'[t][i].p, ~mem'[t][i].ps, mem'[t][i].f \in Arena,
               ~mem'[walk.tbl][o].ps, t # walk.tbl \/ i # o
        PROVE  mem'[t][i].f # mem'[walk.tbl][o].f
    <3>1. mem'[t][i] = mem[t][i]
      BY <2>1, <2>3
    <3>2. role[t] = walk.lvl
      BY <2>1, <2>3, <3>1, PresentInTable
    <3>3. QED
      BY <1>2, <2>3, <3>1, <3>2, NewEntryUnshared
  <2> HIDE DEF o
  <2>4. CASE t1 = walk.tbl /\ i1 = o
    BY <2>2, <2>3, <2>4
  <2>5. CASE t2 = walk.tbl /\ i2 = o
    BY <2>2, <2>3, <2>5
  <2>6. QED
    BY <1>1, <2>1, <2>4, <2>5
<1>3. CASE ExecProcess /\ CanAlloc(1)
  <2>1. cr3 \in Arena /\ role[cr3] = 4 /\ arena_head \in Arena
    BY <1>3, AllocOne DEF ExecProcess, StageSound, WalkSound, TypeOK
  <2>2. role'[arena_head] = 4
    <3>1. AllocPages(1, 4)
      BY <1>3 DEF ExecProcess
    <3>2. QED
      BY <1>3, <3>1, AllocOneRole
  <2>3. role'[cr3] = 4
    BY <2>1, RoleOfTable DEF Data
  <2>4. ASSUME NEW t \in Arena, NEW i \in Idx, mem'[t][i].p
        PROVE  \/ t # arena_head /\ mem'[t][i] = mem[t][i]
               \/ t = arena_head /\ mem'[t][i] = mem[cr3][i] /\ i >= L \div 2
    <3>1. CASE t # arena_head
      BY <1>3, <3>1 DEF ExecProcess, TypeOK
    <3>2. CASE t = arena_head
      <4>1. mem[t][i] = Absent
        BY <2>1, <3>2 DEF FreshFrames, TypeOK
      <4>2. mem'[t][i] = IF i >= L \div 2 THEN mem[cr3][i] ELSE mem[t][i]
        BY <1>3, <2>1, <3>2 DEF ExecProcess, TypeOK
      <4>3. QED
        BY <2>4, <3>2, <4>1, <4>2 DEF Absent
    <3>3. QED
      BY <3>1, <3>2
  <2>5. CASE t1 # arena_head /\ t2 # arena_head
    BY <1>1, <2>4, <2>5
  <2>6. CASE t1 = arena_head \/ t2 = arena_head
    <3> DEFINE Src(t) == IF t = arena_head THEN cr3 ELSE t
    <3>1. /\ Src(t1) \in Arena /\ Src(t2) \in Arena
          /\ mem'[t1][i1] = mem[Src(t1)][i1]
          /\ mem'[t2][i2] = mem[Src(t2)][i2]
      BY <2>1, <2>4
    <3>2. l = 4 /\ role'[Src(t1)] = 4 /\ role'[Src(t2)] = 4
      BY <2>2, <2>3, <2>6
    <3>3. SameTarget(Src(t1), i1, Src(t2), i2)
      BY <3>1 DEF SameTarget
    <3>4. i1 = i2
      BY <3>1, <3>2, <3>3, OldEntries DEF Levels
    <3>5. i1 >= L \div 2
      BY <2>4, <2>6, <3>4
    <3>6. QED
      BY <3>2, <3>4, <3>5
  <2>7. QED
    BY <2>5, <2>6
<1>4. CASE ExecProcess /\ ~CanAlloc(1)
  BY <1>1, <1>4 DEF ExecProcess
<1>5. CASE UNCHANGED mem
  BY <1>1, <1>5
<1>6. QED
  BY <1>2, <1>3, <1>4, <1>5, NextMemStep

(***************************************************************************)
(* JobSound is kept: a call starts on frames that are not the arena's or   *)
(* were allocated just now, and goes on one page at a time.                *)
(***************************************************************************)
LEMMA NewMapSound ==
  ASSUME NEW by, NEW v, NEW p \in Nat, NEW n \in Nat, NEW w, NEW u,
         NEW huge \in BOOLEAN, NewMap(by, v, p, n, w, u, huge),
         huge \/ \A f \in Arena : f \notin p .. (p + n - 1)
  PROVE  JobSound'
<1>1. /\ job'.n = n /\ job'.i = 0 /\ job'.p = p /\ job'.huge = huge
      /\ job'.st = "map" => n # 0
  BY DEF NewMap
<1>2. p + 0 = p
  OBVIOUS
<1>3. QED
  BY <1>1, <1>2 DEF JobSound, Rest

LEMMA MapallocSound ==
  ASSUME TypeOK, FreshFrames, TablesWellFormed, RolesKept, UNCHANGED mem,
         NEW by, NEW v, NEW n \in Nat, NEW w, NEW u,
         MapallocPages(by, v, n, w, u)
  PROVE  JobSound'
<1>1. CASE CanAlloc(n) /\ AllocPages(n, Data)
             /\ NewMap(by, v, arena_head, n, w, u, FALSE)
  <2>1. /\ job'.n = n /\ job'.i = 0 /\ job'.p = arena_head
        /\ job'.st = "map" => n # 0
    BY <1>1 DEF NewMap
  <2>2. ASSUME NEW f \in Arena, f \in arena_head .. (arena_head + n - 1)
        PROVE  role'[f] = Data /\ Unmapped(f)'
    <3>1. role[f] = Free
      BY <2>2 DEF FreshFrames, TypeOK
    <3>2. role'[f] = Data
      BY <1>1, <2>2 DEF AllocPages
    <3>3. ASSUME NEW t \in Arena, role'[t] = 1, NEW i \in Idx, mem[t][i].p
          PROVE  mem[t][i].f # f
      <4>1. role[t] = 1
        BY <3>3, PresentInTable DEF Levels
      <4>2. GoodEntry(1, mem[t][i])
        BY <3>3, <4>1 DEF TablesWellFormed, Levels
      <4>3. QED
        BY <3>1, <4>2 DEF GoodEntry, Free, Data
    <3>4. QED
      BY <3>2, <3>3 DEF Unmapped, Tables
  <2>3. arena_head + 0 = arena_head
    BY DEF TypeOK
  <2>4. QED
    BY <2>1, <2>2, <2>3 DEF JobSound, Rest
<1>2. CASE job' = [Idle EXCEPT !.st = "failed", !.by = by, !.v = v, !.n = n]
  BY <1>2 DEF JobSound, Idle
<1>3. QED
  BY <1>1, <1>2 DEF MapallocPages

\* Frames with no entry get none from the building of tables.
LEMMA UnmappedKept ==
  ASSUME TypeOK, FreshFrames, WalkSound, TablesWellFormed, RolesKept,
         WalkNew \/ SetPage \/ UNCHANGED mem,
         NEW f \in Arena, role[f] = Data, Unmapped(f),
         SetPage => NewPage.f # f
  PROVE  Unmapped(f)'
<1> SUFFICES ASSUME NEW t \in Arena, role'[t] = 1, NEW i \in Idx,
                    mem'[t][i].p
             PROVE  mem'[t][i].f # f
  BY DEF Unmapped, Tables
<1>1. CASE mem'[t][i] = mem[t][i]
  <2>1. role[t] = 1
    BY <1>1, PresentInTable DEF Levels
  <2>2. QED
    BY <1>1, <2>1 DEF Unmapped, Tables
<1>2. CASE ~(mem'[t][i] = mem[t][i]) /\ (WalkNew \/ SetPage)
  <2>1. t = walk.tbl /\ i = Off(walk.lvl, V)
    BY <1>2, WriteFacts
  <2>2. CASE WalkNew
    <3>1. mem'[t][i].f = arena_head
      BY <2>1, <2>2, WriteFacts DEF NewTable
    <3>2. role[arena_head] = Free
      BY <2>2, AllocOne DEF WalkNew, FreshFrames, TypeOK
    <3>3. QED
      BY <3>1, <3>2 DEF Free, Data
  <2>3. CASE SetPage
    BY <2>1, <2>3, WriteFacts
  <2>4. QED
    BY <1>2, <2>2, <2>3
<1>3. QED
  BY <1>1, <1>2

LEMMA JobStepMap ==
  ASSUME TypeOK, FreshFrames, WalkSound, JobSound, TablesWellFormed,
         RolesKept, MapStep
  PROVE  JobSound'
<1>1. CASE WalkCached \/ WalkExisting \/ WalkNew
  <2>1. UNCHANGED job /\ (WalkNew \/ UNCHANGED mem)
    BY <1>1 DEF WalkCached, WalkExisting, WalkNew
  <2>2. ~SetPage
    <3>1. walk.lvl > LeafLevel
      BY <1>1 DEF WalkCached, WalkExisting, WalkNew, Walking
    <3>2. walk.lvl # LeafLevel
      BY <3>1, JobTypes DEF TypeOK, Levels
    <3>3. QED
      BY <3>2 DEF SetPage, AtLeaf
  <2>3. ASSUME job.st = "map", ~job.huge, NEW f \in Arena, f \in Rest
        PROVE  role'[f] = Data /\ Unmapped(f)'
    <3>1. role[f] = Data /\ Unmapped(f)
      BY <2>3 DEF JobSound
    <3>2. Unmapped(f)'
      BY <2>1, <2>2, <3>1, UnmappedKept
    <3>3. QED
      BY <3>1, <3>2, RoleOfTable DEF Data
  <2>4. QED
    BY <2>1, <2>3 DEF JobSound, Rest
<1>2. CASE SetPage
  <2>1. job.st = "map" /\ job.i \in Nat /\ job.n \in Nat /\ job.p \in Nat
    BY <1>2 DEF SetPage, AtLeaf, TypeOK
  <2>2. /\ job'.i = job.i + 1 /\ job'.n = job.n /\ job'.p = job.p
        /\ job'.huge = job.huge
        /\ job'.st = "map" => job.i + 1 # job.n
    BY <1>2 DEF SetPage, TypeOK
  <2>3. job.i < job.n
    BY <2>1 DEF JobSound
  <2>4. ASSUME ~job.huge, NEW f \in Arena,
               f \in (job.p + job.i + 1) .. (job.p + job.n - 1)
        PROVE  role'[f] = Data /\ Unmapped(f)'
    <3>1. f \in Rest /\ f # job.p + job.i
      BY <2>1, <2>4 DEF Rest
    <3>2. role[f] = Data /\ Unmapped(f)
      BY <2>1, <2>4, <3>1 DEF JobSound
    <3>3. NewPage.f # f
      BY <1>2, <2>4, <3>1, NextPageFacts
    <3>4. Unmapped(f)'
      BY <1>2, <3>2, <3>3, UnmappedKept
    <3>5. QED
      BY <3>2, <3>4, RoleOfTable DEF Data
  <2>5. job'.st = "map" => job'.i < job'.n
    BY <2>1, <2>2, <2>3
  <2>6. job.p + (job.i + 1) = job.p + job.i + 1
    BY <2>1
  <2>7. QED
    BY <2>2, <2>4, <2>5, <2>6 DEF JobSound, Rest
<1>3. CASE WalkFails \/ PageInUse
  <2>1. job'.st = "failed"
    BY <1>3 DEF WalkFails, PageInUse, TypeOK
  <2>2. QED
    BY <2>1 DEF JobSound
<1>4. QED
  BY <1>1, <1>2, <1>3 DEF MapStep

LEMMA JobStepCallers ==
  ASSUME TypeOK, FreshFrames, StageSound, TablesWellFormed, JobSound,
         RolesKept, Next, ~MapStep
  PROVE  JobSound'
<1>1. CASE SetupVm
  <2>1. CASE NewMap("map_pages", KernelText, KernelPhys, KernelPages,
                    TRUE, FALSE, FALSE)
    <3>1. \A f \in Arena : f \notin KernelPhys .. (KernelPhys + KernelPages - 1)
      <4>1. ASSUME NEW f \in Arena,
                   f \in KernelPhys .. (KernelPhys + KernelPages - 1)
            PROVE  FALSE
        <5>1. f - KernelPhys \in 0 .. (KernelPages - 1)
                /\ KernelPhys + (f - KernelPhys) = f
          BY <4>1, LayoutTypes
        <5>2. QED
          BY <4>1, <5>1, LayoutAssumption
      <4>2. QED
        BY <4>1
    <3>2. QED
      BY <2>1, <3>1, NewMapSound, LayoutTypes
  <2>2. CASE job' = job
    BY <1>1, <2>2 DEF SetupVm, StageSound, JobSound
  <2>3. QED
    BY <1>1, <2>1, <2>2 DEF SetupVm
<1>2. CASE MapHhdm
  BY <1>2, NewMapSound, LayoutTypes DEF MapHhdm
<1>3. CASE MapMmio
  <2>1. Mmio[k].p \in Nat \ Arena
    BY <1>3, MmioFacts DEF MapMmio, TypeOK
  <2>2. \A f \in Arena : f \notin Mmio[k].p .. (Mmio[k].p + 1 - 1)
    <3>1. Mmio[k].p .. (Mmio[k].p + 1 - 1) = {Mmio[k].p}
      BY <2>1
    <3>2. QED
      BY <2>1, <3>1
  <2>3. NewMap("map_pages", Mmio[k].v, Mmio[k].p, 1, TRUE, FALSE, FALSE)
    BY <1>3 DEF MapMmio
  <2>4. QED
    BY <2>1, <2>2, <2>3, NewMapSound
<1>4. CASE RequestPages
  <2>1. PICK n \in ReqSizes :
          MapallocPages("request_pages", vm_arena_head, n, TRUE, FALSE)
    BY <1>4 DEF RequestPages
  <2>2. n \in Nat /\ UNCHANGED mem
    BY <1>4, RequestAssumption DEF RequestPages
  <2>3. QED
    BY <2>1, <2>2, MapallocSound
<1>5. CASE LoadMapping
  <2>1. prog.segs \in Seq([begin : Nat, end : Nat, w : BOOLEAN])
    BY <1>5, ProgramAssumption DEF LoadMapping, StageSound
  <2>2. k \in DOMAIN prog.segs /\ prog \in Programs
    BY <1>5, <2>1 DEF LoadMapping, TypeOK, StageSound
  <2>3. SegPages(prog.segs[k]) \in Nat /\ UNCHANGED mem
    BY <1>5, <2>2, SegFacts DEF LoadMapping
  <2>4. MapallocPages("map_pages", FloorPage(prog.segs[k].begin),
                      SegPages(prog.segs[k]), prog.segs[k].w, TRUE)
    BY <1>5 DEF LoadMapping
  <2>5. QED
    BY <2>3, <2>4, MapallocSound
<1>6. CASE MapUserStack
  <2>1. CeilPages(prog.use) \in Nat /\ UNCHANGED mem
    BY <1>6, StackFacts DEF MapUserStack, StageSound
  <2>2. MapallocPages("map_pages", StackAt(prog.use), CeilPages(prog.use),
                      TRUE, TRUE)
    BY <1>6 DEF MapUserStack
  <2>3. QED
    BY <2>1, <2>2, MapallocSound
<1>7. ASSUME job'.st # "map"
      PROVE  JobSound'
  BY <1>7 DEF JobSound
<1>8. CASE RequestKernelStack
  <2>1. StackPages \in Nat /\ UNCHANGED mem
    BY <1>8, SizeAssumption DEF RequestKernelStack
  <2>2. CASE MapallocPages("request_pages", vm_arena_head, StackPages,
                           TRUE, FALSE)
    BY <2>1, <2>2, MapallocSound
  <2>3. CASE UNCHANGED job
    BY <1>7, <1>8, <2>3 DEF RequestKernelStack
  <2>4. QED
    BY <1>8, <2>2, <2>3 DEF RequestKernelStack
<1>9. CASE \/ ActivateToplevel \/ SetupVmPanics \/ MmioMapped \/ MadtDone
           \/ RequestReturns \/ ExecProcess \/ CopySegment \/ WriteStack
  <2>1. job' \in {job, Idle}
    BY <1>9 DEF ActivateToplevel, SetupVmPanics, MmioMapped, MadtDone,
                RequestReturns, ExecProcess, CopySegment, WriteStack
  <2>2. job.st # "map" \/ job' = Idle
    BY <1>9 DEF ActivateToplevel, SetupVmPanics, MmioMapped, MadtDone,
                RequestReturns, ExecProcess, CopySegment, WriteStack, Returned
  <2>3. QED
    BY <1>7, <2>1, <2>2 DEF Idle
<1>10. QED
  BY <1>1, <1>2, <1>3, <1>4, <1>5, <1>6, <1>8, <1>9 DEF Next

(***************************************************************************)
(* What a new job keeps of the call that starts it.                        *)
(***************************************************************************)
LEMMA NewMapArgs ==
  ASSUME NEW by, NEW v, NEW p, NEW n, NEW w, NEW u, NEW huge,
         NewMap(by, v, p, n, w, u, huge)
  PROVE  job'.by = by /\ job'.n = n /\ job'.v = v /\ job'.u = u
         /\ job'.huge = huge
BY DEF NewMap

LEMMA MapallocArgs ==
  ASSUME NEW by, NEW v, NEW n, NEW w, NEW u, MapallocPages(by, v, n, w, u)
  PROVE  /\ job'.by = by /\ job'.n = n /\ job'.v = v
         /\ job'.u \in {u, FALSE} /\ job'.huge = FALSE
<1>1. CASE NewMap(by, v, arena_head, n, w, u, FALSE)
  BY <1>1, NewMapArgs
<1>2. CASE job' = [Idle EXCEPT !.st = "failed", !.by = by, !.v = v, !.n = n]
  BY <1>2 DEF Idle
<1>3. QED
  BY <1>1, <1>2 DEF MapallocPages

(***************************************************************************)
(* RequestSound is kept.                                                   *)
(***************************************************************************)
LEMMA RequestStep ==
  ASSUME TypeOK, StageSound, RequestSound, Next
  PROVE  RequestSound'
<1>1. ASSUME job'.by # "request_pages"
      PROVE  RequestSound'
  BY <1>1 DEF RequestSound
<1>2. ASSUME job'.by = job.by, job'.n = job.n, UNCHANGED vm_arena_head
      PROVE  RequestSound'
  BY <1>2 DEF RequestSound, NewHead
<1>3. CASE MapStep
  <2>1. job'.by = job.by /\ job'.n = job.n /\ UNCHANGED vm_arena_head
    BY <1>3 DEF MapStep, WalkCached, WalkExisting, WalkNew, WalkFails,
                SetPage, PageInUse, TypeOK
  <2>2. QED
    BY <1>2, <2>1
<1>4. ASSUME NEW n \in ReqSizes \union {StackPages}, CanRequest(n),
             MapallocPages("request_pages", vm_arena_head, n, TRUE, FALSE),
             UNCHANGED vm_arena_head
      PROVE  RequestSound'
  <2>1. job'.n = n
    BY <1>4, MapallocArgs
  <2>2. QED
    BY <1>4, <2>1 DEF RequestSound, CanRequest, NewHead
<1>5. CASE RequestPages
  BY <1>4, <1>5 DEF RequestPages
<1>6. CASE RequestKernelStack
  <2>1. CASE CanRequest(StackPages)
    BY <1>4, <1>6, <2>1 DEF RequestKernelStack
  <2>2. CASE ~CanRequest(StackPages)
    BY <1>2, <1>6, <2>2 DEF RequestKernelStack
  <2>3. QED
    BY <2>1, <2>2
<1>7. CASE SetupVm \/ MapHhdm \/ MapMmio \/ LoadMapping \/ MapUserStack
  <2>1. CASE SetupVm
    <3>1. CASE NewMap("map_pages", KernelText, KernelPhys, KernelPages,
                      TRUE, FALSE, FALSE)
      <4>1. job'.by = "map_pages"
        BY <3>1, NewMapArgs
      <4>2. QED
        BY <1>1, <4>1
    <3>2. CASE UNCHANGED <<job, vm_arena_head>>
      BY <1>2, <3>2
    <3>3. QED
      BY <2>1, <3>1, <3>2 DEF SetupVm
  <2>2. CASE MapHhdm \/ MapMmio
    <3>1. PICK v, p, n, huge :
             NewMap("map_pages", v, p, n, TRUE, FALSE, huge)
      BY <2>2 DEF MapHhdm, MapMmio
    <3>2. job'.by = "map_pages"
      BY <3>1, NewMapArgs
    <3>3. QED
      BY <1>1, <3>2
  <2>3. CASE LoadMapping
    <3>1. MapallocPages("map_pages", FloorPage(prog.segs[k].begin),
                        SegPages(prog.segs[k]), prog.segs[k].w, TRUE)
      BY <2>3 DEF LoadMapping
    <3>2. job'.by = "map_pages"
      BY <3>1, MapallocArgs
    <3>3. QED
      BY <1>1, <3>2
  <2>4. CASE MapUserStack
    BY <1>1, <2>4, MapallocArgs DEF MapUserStack
  <2>5. QED
    BY <1>7, <2>1, <2>2, <2>3, <2>4
<1>8. CASE \/ ActivateToplevel \/ SetupVmPanics \/ MmioMapped \/ MadtDone
           \/ RequestReturns \/ ExecProcess \/ CopySegment \/ WriteStack
  <2>1. job' = Idle \/ (UNCHANGED job /\ UNCHANGED vm_arena_head)
    BY <1>8 DEF ActivateToplevel, SetupVmPanics, MmioMapped, MadtDone,
                RequestReturns, ExecProcess, CopySegment, WriteStack
  <2>2. QED
    BY <1>1, <1>2, <2>1 DEF Idle
<1>9. QED
  BY <1>3, <1>5, <1>6, <1>7, <1>8 DEF Next

(***************************************************************************)
(* UserSound is kept.  First the job: only exec_process asks for pages     *)
(* with PG_USER, and those lie in the lower half.                          *)
(***************************************************************************)
LEMMA UserJobStep ==
  ASSUME TypeOK, StageSound, UserJob, Next
  PROVE  UserJob'
<1>1. ASSUME ~job'.u
      PROVE  UserJob'
  BY <1>1 DEF UserJob
<1>2. ASSUME NEW n \in Nat, NEW v \in Nat, v + n <= Half,
             NEW by, NEW w, MapallocPages(by, v, n, w, TRUE)
      PROVE  UserJob'
  <2>1. job'.n = n /\ job'.v = v /\ job'.huge = FALSE
    BY <1>2, MapallocArgs
  <2>2. QED
    BY <1>2, <2>1 DEF UserJob, Half
<1>3. CASE MapStep
  <2>1. /\ job'.v = job.v /\ job'.n = job.n /\ job'.u = job.u
        /\ job'.huge = job.huge /\ (job'.st = "map" => job.st = "map")
    BY ZenonT(60), <1>3 DEF MapStep, WalkCached, WalkExisting, WalkNew, WalkFails,
                SetPage, PageInUse, TypeOK, Walking, AtLeaf
  <2>2. QED
    BY <2>1 DEF UserJob, Half
<1>4. CASE SetupVm
  <2>1. CASE NewMap("map_pages", KernelText, KernelPhys, KernelPages,
                    TRUE, FALSE, FALSE)
    BY <1>1, <2>1, NewMapArgs
  <2>2. CASE UNCHANGED job
    BY <2>2 DEF UserJob, Half
  <2>3. QED
    BY <1>4, <2>1, <2>2 DEF SetupVm
<1>5. CASE MapHhdm \/ MapMmio
  BY <1>1, <1>5, NewMapArgs DEF MapHhdm, MapMmio
<1>6. CASE RequestPages
  <2>1. PICK n \in ReqSizes :
           MapallocPages("request_pages", vm_arena_head, n, TRUE, FALSE)
    BY <1>6 DEF RequestPages
  <2>2. ~job'.u
    BY <2>1, MapallocArgs
  <2>3. QED
    BY <1>1, <2>2
<1>7. CASE RequestKernelStack
  <2>1. CASE MapallocPages("request_pages", vm_arena_head, StackPages,
                           TRUE, FALSE)
    <3>1. ~job'.u
      BY <2>1, MapallocArgs
    <3>2. QED
      BY <1>1, <3>1
  <2>2. CASE UNCHANGED job
    BY <2>2 DEF UserJob, Half
  <2>3. QED
    BY <1>7, <2>1, <2>2 DEF RequestKernelStack
<1>8. CASE LoadMapping
  <2>1. prog.segs \in Seq([begin : Nat, end : Nat, w : BOOLEAN])
    BY <1>8, ProgramAssumption DEF LoadMapping, StageSound
  <2>2. k \in DOMAIN prog.segs /\ prog \in Programs
    BY <1>8, <2>1 DEF LoadMapping, TypeOK, StageSound
  <2>3. MapallocPages("map_pages", FloorPage(prog.segs[k].begin),
                      SegPages(prog.segs[k]), prog.segs[k].w, TRUE)
    BY <1>8 DEF LoadMapping
  <2>4. QED
    BY <1>2, <2>2, <2>3, SegFacts
<1>9. CASE MapUserStack
  <2>1. MapallocPages("map_pages", StackAt(prog.use), CeilPages(prog.use),
                      TRUE, TRUE)
    BY <1>9 DEF MapUserStack
  <2>2. prog \in Programs
    BY <1>9 DEF MapUserStack, StageSound
  <2>3. QED
    BY <1>2, <2>1, <2>2, StackFacts
<1>10. CASE \/ ActivateToplevel \/ SetupVmPanics \/ MmioMapped \/ MadtDone
            \/ RequestReturns \/ ExecProcess \/ CopySegment \/ WriteStack
  <2>1. job' = Idle \/ UNCHANGED job
    BY <1>10 DEF ActivateToplevel, SetupVmPanics, MmioMapped, MadtDone,
                 RequestReturns, ExecProcess, CopySegment, WriteStack
  <2>2. QED
    BY <1>1, <2>1 DEF Idle, UserJob, Half
<1>11. QED
  BY <1>3, <1>4, <1>5, <1>6, <1>7, <1>8, <1>9, <1>10 DEF Next

(***************************************************************************)
(* Then the entries: those a walk for such a job writes into a PML4 are in *)
(* its lower half, and exec_process copies entries of the upper half.      *)
(***************************************************************************)
LEMMA HalfFacts == Half <= NV /\ Half \in Nat /\ NV \in Nat
<1>1. Span[4] \in Nat /\ L \div 2 \in Nat /\ L \in Nat /\ L \div 2 <= L
  BY SpanType, SizeAssumption DEF Levels
<1>2. (L \div 2) * Span[4] <= L * Span[4]
  BY <1>1
<1>3. QED
  BY <1>1, <1>2, LayoutTypes DEF Half, NV

LEMMA UserEntryLow ==
  ASSUME TypeOK, JobSound, UserJob, job.st = "map", job.u
  PROVE  ~(Off(4, V) >= L \div 2)
<1>1. ~job.huge /\ job.v + job.n <= Half /\ job.i < job.n
  BY DEF UserJob, JobSound
<1>2. V = job.v + job.i
  BY <1>1 DEF V, JobSpan, TypeOK
<1>3. V \in Nat /\ V < Half
  BY <1>1, <1>2, HalfFacts DEF TypeOK
<1>4. V < NV /\ ~(V >= Half)
  BY <1>3, HalfFacts
<1>5. QED
  BY <1>3, <1>4, OffHalf

LEMMA UpperEntriesStep ==
  ASSUME TypeOK, FreshFrames, StageSound, WalkSound, JobSound,
         TablesWellFormed, RolesKept, UserJob, UpperEntries, Next
  PROVE  UpperEntries'
<1> SUFFICES ASSUME NEW t \in Arena, role'[t] = 4, NEW i \in Idx,
                    i >= L \div 2, mem'[t][i].p
             PROVE  ~mem'[t][i].u
  BY DEF UpperEntries, Tables
<1>1. CASE mem'[t][i] = mem[t][i]
  <2>1. role[t] = 4
    BY <1>1, PresentInTable DEF Levels
  <2>2. QED
    BY <1>1, <2>1 DEF UpperEntries, Tables
<1>2. CASE WalkNew \/ SetPage
  <2>1. CASE t = walk.tbl /\ i = Off(walk.lvl, V)
    <3>1. walk.lvl = 4
      BY <1>2, <2>1, WriteFacts, RoleOfTable DEF Levels, Data
    <3>2. ~SetPage
      BY <3>1 DEF SetPage, AtLeaf, LeafLevel
    <3>3. WalkNew /\ job.st = "map"
      BY <1>2, <3>2 DEF WalkNew, Walking
    <3>4. mem'[t][i].u = job.u
      BY <2>1, <3>3, WriteFacts DEF NewTable
    <3>5. job.u \in BOOLEAN
      BY DEF TypeOK
    <3>6. QED
      BY <2>1, <3>1, <3>3, <3>4, <3>5, UserEntryLow
  <2>2. CASE t # walk.tbl \/ i # Off(walk.lvl, V)
    BY <1>1, <1>2, <2>2, WriteFacts
  <2>3. QED
    BY <2>1, <2>2
<1>3. CASE ExecProcess
  <2>1. CASE CanAlloc(1) /\ t = arena_head
    <3>1. cr3 \in Arena /\ role[cr3] = 4
      BY <1>3 DEF ExecProcess, StageSound, WalkSound, TypeOK
    <3>2. mem'[t][i] = mem[cr3][i]
      BY <1>3, <2>1 DEF ExecProcess, TypeOK
    <3>3. QED
      BY <3>1, <3>2 DEF UpperEntries, Tables
  <2>2. CASE ~CanAlloc(1) \/ t # arena_head
    <3>1. mem'[t][i] = mem[t][i]
      BY <1>3, <2>2 DEF ExecProcess, TypeOK
    <3>2. QED
      BY <1>1, <3>1
  <2>3. QED
    BY <2>1, <2>2
<1>4. CASE UNCHANGED mem
  BY <1>1, <1>4
<1>5. QED
  BY <1>2, <1>3, <1>4, NextMemStep

-----------------------------------------------------------------------------
(***************************************************************************)
(* The invariant holds at the start and is kept by every step.             *)
(***************************************************************************)
LEMMA InitIInv == Init => IInv
<1> SUFFICES ASSUME Init PROVE IInv
  OBVIOUS
<1>1. TypeOK
  BY TypeInit
<1>2. \A t \in Arena : role[t] = Free /\ \A i \in Idx : mem[t][i] = Absent
  BY DEF Init, Blank
<1>3. \A t \in Arena : role[t] \notin Levels
  BY <1>2 DEF Free, Levels
<1>4. job = Idle /\ toplevel = NULL /\ cr3 = NULL /\ stage = "setup_vm"
        /\ \A l \in 2 .. 4 : cache[l].tbl = NULL
  BY DEF Init
<1>5. job.st = "idle" /\ job.by = "map_pages"
  BY <1>4 DEF Idle
<1>6. FreshFrames
  BY <1>2 DEF FreshFrames
<1>7. StageSound /\ WalkSound /\ JobSound /\ RequestSound
  BY <1>4, <1>5 DEF StageSound, WalkSound, JobSound, RequestSound
<1>8. TablesWellFormed
  BY <1>3 DEF TablesWellFormed
<1>9. \A l \in Levels : Tables(l) = {}
  BY <1>3 DEF Tables
<1>10. NoSharing
  BY <1>9 DEF NoSharing
<1>11. UserSound
  BY <1>5, <1>9 DEF UserSound, UserJob, UpperEntries, Levels
<1>12. QED
  BY <1>1, <1>6, <1>7, <1>8, <1>10, <1>11 DEF IInv

LEMMA TypeStep == IInv /\ Next => TypeOK'
<1> SUFFICES ASSUME IInv, Next PROVE TypeOK'
  OBVIOUS
<1>1. /\ TypeOK /\ FreshFrames /\ StageSound /\ WalkSound /\ RequestSound
      /\ TablesWellFormed
  BY DEF IInv
<1>2. CASE MapStep
  BY <1>1, <1>2, TypeWalk, TypeWalkNew, TypeSetPage DEF MapStep
<1>3. CASE ~MapStep
  BY <1>1, <1>3, TypeSetup, TypeRequest, TypeExec DEF Next
<1>4. QED
  BY <1>2, <1>3

LEMMA StutterIInv == IInv /\ UNCHANGED vars => IInv'
<1> SUFFICES ASSUME IInv, UNCHANGED vars PROVE IInv'
  OBVIOUS
<1> USE DEF vars
<1>1. TypeOK'
  BY DEF IInv, TypeOK
<1>2. FreshFrames' /\ StageSound'
  BY DEF IInv, FreshFrames, StageSound
<1>3. WalkSound'
  BY DEF IInv, WalkSound, LeafLevel
<1>4. JobSound'
  BY DEF IInv, JobSound, Rest, Unmapped, Tables
<1>5. RequestSound'
  BY DEF IInv, RequestSound, NewHead
<1>6. TablesWellFormed'
  BY DEF IInv, TablesWellFormed, GoodEntry
<1>7. NoSharing'
  BY DEF IInv, NoSharing, Tables, SameTarget
<1>8. UserSound'
  BY DEF IInv, UserSound, UserJob, UpperEntries, Tables, Half
<1>9. QED
  BY <1>1, <1>2, <1>3, <1>4, <1>5, <1>6, <1>7, <1>8 DEF IInv

LEMMA NextIInv == IInv /\ [Next]_vars => IInv'
<1>1. ASSUME IInv, Next
      PROVE  IInv'
  <2>1. /\ TypeOK /\ FreshFrames /\ StageSound /\ WalkSound /\ JobSound
        /\ RequestSound /\ TablesWellFormed /\ NoSharing
    BY <1>1 DEF IInv
  <2>2. UserJob /\ UpperEntries
    BY <1>1 DEF IInv, UserSound
  <2>3. RolesKept
    BY <1>1, <2>1, NextAllocStep, AllocStepKeepsRoles
  <2>4. TypeOK'
    BY <1>1, TypeStep
  <2>5. FreshFrames' /\ StageSound'
    BY <1>1, <2>1, FreshFramesStep, StageStep
  <2>6. WalkSound' /\ TablesWellFormed'
    BY <1>1, <2>1, <2>3, WalkStep, TablesStep
  <2>7. JobSound' /\ RequestSound'
    BY <1>1, <2>1, <2>3, JobStepMap, JobStepCallers, RequestStep
  <2>8. NoSharing'
    BY <1>1, <2>1, <2>3, SharingStep
  <2>9. UserJob' /\ UpperEntries'
    BY <1>1, <2>1, <2>2, <2>3, UserJobStep, UpperEntriesStep
  <2>10. UserSound'
    BY <2>9 DEF UserSound
  <2>11. QED
    BY <2>4, <2>5, <2>6, <2>7, <2>8, <2>10 DEF IInv
<1>2. QED
  BY <1>1, StutterIInv

(***************************************************************************)
(* The inductive invariant holds in every reachable state, for every size  *)
(* of table and arena: frames have one use, the walk and its caches stand  *)
(* on tables of their level (alloc_pages.c, map_pages.c).                  *)
(***************************************************************************)
THEOREM Inductive == Spec => []IInv
BY InitIInv, NextIInv, PTL DEF Spec

(***************************************************************************)
(* Type correctness: the allocator stays inside the arena, the walk and    *)
(* the table registers inside its frames, and the head of request_pages    *)
(* inside its window (alloc_pages.c:12, request_pages.c:10).               *)
(***************************************************************************)
THEOREM TypeCorrect == Spec => []TypeOK
<1>1. IInv => TypeOK
  BY DEF IInv
<1>2. QED
  BY <1>1, Inductive, PTL

(***************************************************************************)
(* The page tables stay a hierarchy: no frame is ever both a table and a   *)
(* data page, or a table of two levels (map_pages.c:9-25, 111, 130).       *)
(***************************************************************************)
THEOREM TablesStayWellFormed == Spec => []TablesWellFormed
<1>1. IInv => TablesWellFormed
  BY DEF IInv
<1>2. QED
  BY <1>1, Inductive, PTL

(***************************************************************************)
(* No frame of the arena is mapped by two entries, and no table has two    *)
(* parents but through the copy of the upper half (map_pages.c,            *)
(* exec_process.c:34), whatever the path caches hold.                      *)
(***************************************************************************)
THEOREM NothingShared == Spec => []NoSharing
<1>1. IInv => NoSharing
  BY DEF IInv
<1>2. QED
  BY <1>1, Inductive, PTL

(***************************************************************************)
(* User code never reaches a page of the kernel's half: no PML4 entry      *)
(* there gets PG_USER, although walk_table gives an intermediate entry the *)
(* flags of the mapping under way (map_pages.c:21).                        *)
(***************************************************************************)
THEOREM KernelStaysPrivate == Spec => []KernelPrivate
<1>1. IInv => KernelPrivate
  <2> SUFFICES ASSUME IInv, cr3 # NULL, NEW v \in Half .. (NV - 1)
               PROVE  ~UserReads(cr3, v)
    BY DEF KernelPrivate
  <2>1. cr3 \in Arena /\ role[cr3] = 4
    BY DEF IInv, TypeOK, WalkSound
  <2>2. v \in Nat /\ v < NV /\ v >= Half
    BY HalfFacts
  <2>3. Off(4, v) \in Idx /\ Off(4, v) >= L \div 2
    BY <2>2, OffType, OffHalf DEF Levels
  <2>4. Pml4e(cr3, v).p => ~Pml4e(cr3, v).u
    BY <2>1, <2>3 DEF IInv, UserSound, UpperEntries, Tables, Pml4e
  <2>5. QED
    BY <2>4 DEF UserReads, Mapped
<1>2. QED
  BY <1>1, Inductive, PTL

-----------------------------------------------------------------------------
(***************************************************************************)
(* What the page tables that Vm builds mean, for every size of the tables, *)
(* arena, layout and set of programs.  The path caches of map_page lead    *)
(* where the tables lead, so each page is entered into the table that the  *)
(* processor finds for it.  From this: what request_pages granted stays    *)
(* mapped; a program finds its image and its stack; and the tables, caches *)
(* and allocator implement an address space (AddressSpace.tla).            *)
(* A cached table may be off its page's path, after a walk that ran out of *)
(* frames and after a huge page; the invariants say when, and that no walk *)
(* uses it then.                                                           *)
(***************************************************************************)

(***************************************************************************)
(* Paths through tables ts, the contents of the frames: the table of level *)
(* l that the processor passes on its way from the PML4 top to page v.     *)
(***************************************************************************)
Refers(ts, t, o, c) ==
  t \in Arena /\ o \in Idx /\ ValidTable(ts[t][o]) /\ ts[t][o].f = c

Path(ts, top, l, v, t) ==
  \/ l = 4 /\ t = top /\ t \in Arena
  \/ l = 3 /\ Refers(ts, top, Off(4, v), t)
  \/ l = 2 /\ \E a \in Arena :
       Refers(ts, top, Off(4, v), a) /\ Refers(ts, a, Off(3, v), t)
  \/ l = 1 /\ \E a, b \in Arena :
       /\ Refers(ts, top, Off(4, v), a) /\ Refers(ts, a, Off(3, v), b)
       /\ Refers(ts, b, Off(2, v), t)

SameAbove(l, v, w) == \A m \in 2 .. 4 : m > l => Off(m, v) = Off(m, w)

\* A path goes on through an entry, and came through one.
LEMMA PathDown ==
  ASSUME NEW ts, NEW top, NEW l \in 2 .. 4, NEW v, NEW t, NEW c,
         Path(ts, top, l, v, t), Refers(ts, t, Off(l, v), c)
  PROVE  Path(ts, top, l - 1, v, c)
<1>1. CASE l = 4
  BY <1>1 DEF Path
<1>2. CASE l = 3
  BY <1>2 DEF Path, Refers
<1>3. CASE l = 2
  BY <1>3 DEF Path, Refers
<1> QED BY <1>1, <1>2, <1>3

LEMMA PathUp ==
  ASSUME NEW ts, NEW top, NEW l \in 2 .. 4, NEW v, NEW c,
         Path(ts, top, l - 1, v, c)
  PROVE  \E t \in Arena : Path(ts, top, l, v, t) /\ Refers(ts, t, Off(l, v), c)
<1>1. CASE l = 4
  BY <1>1 DEF Path, Refers
<1>2. CASE l = 3
  BY <1>2 DEF Path
<1>3. CASE l = 2
  BY <1>3 DEF Path
<1> QED BY <1>1, <1>2, <1>3

\* There is one table of each level on a path.
LEMMA PathOnce ==
  ASSUME NEW ts, NEW top, NEW l \in Levels, NEW v, NEW t, NEW u,
         Path(ts, top, l, v, t), Path(ts, top, l, v, u)
  PROVE  t = u
BY DEF Path, Refers, Levels

\* Pages whose offsets agree on the levels above share the table.
LEMMA PathShared ==
  ASSUME NEW ts, NEW top, NEW l \in Levels, NEW v, NEW w, NEW t,
         Path(ts, top, l, v, t), SameAbove(l, v, w)
  PROVE  Path(ts, top, l, w, t)
BY DEF Path, SameAbove, Levels

\* Paths stay where every entry that refers to a table stays.
LEMMA PathKept ==
  ASSUME NEW ts, NEW us, NEW top, NEW l, NEW v, NEW t,
         \A a \in Arena, o \in Idx : \A c :
           Refers(ts, a, o, c) => Refers(us, a, o, c),
         Path(ts, top, l, v, t)
  PROVE  Path(us, top, l, v, t)
BY DEF Path, Refers

-----------------------------------------------------------------------------
(***************************************************************************)
(* The paths in use.                                                       *)
(***************************************************************************)
Child(t, o, c) == Refers(mem, t, o, c)
Leads(l, v, t) == Path(mem, toplevel, l, v, t)

\* They pass a table of each level.
LEMMA ChildLevel ==
  ASSUME IInv, NEW l \in 2 .. 4, NEW t, NEW o, NEW c, Child(t, o, c),
         role[t] = l
  PROVE  c \in Arena /\ role[c] = l - 1
<1>1. t \in Arena /\ o \in Idx /\ ValidTable(mem[t][o]) /\ mem[t][o].f = c
  BY DEF Child, Refers
<1>2. GoodEntry(l, mem[t][o])
  BY <1>1 DEF IInv, TablesWellFormed, Levels, ValidTable
<1> QED BY <1>1, <1>2 DEF GoodEntry, ValidTable

LEMMA LeadsLevel ==
  ASSUME IInv, NEW l \in Levels, NEW v, NEW t, Leads(l, v, t)
  PROVE  t \in Arena /\ role[t] = l /\ toplevel \in Arena
<1>1. toplevel \in Arena /\ role[toplevel] = 4
  <2>1. toplevel \in Arena
    BY DEF Leads, Path, Refers
  <2>2. toplevel # NULL
    BY <2>1, ArenaAssumption DEF Arena, NULL
  <2> QED BY <2>1, <2>2 DEF IInv, WalkSound
<1>2. ASSUME NEW c, NEW o, Child(toplevel, o, c)
      PROVE  c \in Arena /\ role[c] = 3
  BY <1>1, <1>2, ChildLevel
<1>3. ASSUME NEW a, NEW b, NEW o, NEW m, NEW c, Child(toplevel, o, a),
             Child(a, m, b)
      PROVE  b \in Arena /\ role[b] = 2
  <2>1. role[a] = 3
    BY <1>2, <1>3
  <2> QED BY <1>3, <2>1, ChildLevel
<1>4. CASE l = 4
  BY <1>1, <1>4 DEF Leads, Path
<1>5. CASE l = 3
  BY <1>1, <1>2, <1>5 DEF Leads, Path, Child
<1>6. CASE l = 2
  BY <1>1, <1>3, <1>6 DEF Leads, Path, Child
<1>7. CASE l = 1
  <2>1. PICK a, b \in Arena : /\ Child(toplevel, Off(4, v), a)
                              /\ Child(a, Off(3, v), b)
                              /\ Child(b, Off(2, v), t)
    BY <1>7 DEF Leads, Path, Child
  <2>2. role[b] = 2
    BY <1>3, <2>1
  <2> QED BY <1>1, <1>7, <2>1, <2>2, ChildLevel
<1> QED BY <1>4, <1>5, <1>6, <1>7 DEF Levels

\* No other page's path comes to a table than those that agree above it.
LEMMA LeadsApart ==
  ASSUME IInv, NEW l \in Levels, NEW v, NEW w, NEW t,
         Leads(l, v, t), Leads(l, w, t)
  PROVE  SameAbove(l, v, w)
<1>1. ASSUME NEW m \in 2 .. 4, NEW c, Leads(m - 1, v, c), Leads(m - 1, w, c)
      PROVE  Off(m, v) = Off(m, w) /\ \E a \in Arena : Leads(m, v, a) /\ Leads(m, w, a)
  <2>1. PICK a \in Arena : Leads(m, v, a) /\ Child(a, Off(m, v), c)
    BY <1>1, PathUp DEF Leads, Child
  <2>2. PICK b \in Arena : Leads(m, w, b) /\ Child(b, Off(m, w), c)
    BY <1>1, PathUp DEF Leads, Child
  <2>3. role[a] = m /\ role[b] = m /\ m \in Levels
    BY <2>1, <2>2, LeadsLevel DEF Levels
  <2>4. c \in Arena
    BY <2>1, <2>3, ChildLevel
  <2>5. SameTarget(a, Off(m, v), b, Off(m, w))
    BY <2>1, <2>2, <2>4 DEF SameTarget, Child, Refers, ValidTable
  <2>6. Off(m, v) \in Idx /\ Off(m, w) \in Idx
    BY <2>1, <2>2 DEF Child, Refers
  <2>7. a \in Tables(m) /\ b \in Tables(m)
    BY <2>1, <2>2, <2>3 DEF Tables
  <2>8. NoSharing
    BY DEF IInv
  <2>9. Off(m, v) = Off(m, w) /\ (a = b \/ m = 4)
    BY <2>3, <2>5, <2>6, <2>7, <2>8 DEF NoSharing
  <2>10. a = b
    BY <2>1, <2>2, <2>9 DEF Leads, Path
  <2> QED BY <2>1, <2>2, <2>9, <2>10
<1>2. CASE l = 4
  BY <1>2 DEF SameAbove
<1>3. CASE l = 3
  <2>1. Off(4, v) = Off(4, w)
    BY <1>1, <1>3
  <2> QED BY <1>3, <2>1 DEF SameAbove
<1>4. CASE l = 2
  <2>1. PICK a \in Arena : Off(3, v) = Off(3, w) /\ Leads(3, v, a) /\ Leads(3, w, a)
    BY <1>1, <1>4
  <2>2. Off(4, v) = Off(4, w)
    BY <1>1, <2>1
  <2> QED BY <1>4, <2>1, <2>2 DEF SameAbove
<1>5. CASE l = 1
  <2>1. PICK b \in Arena : Off(2, v) = Off(2, w) /\ Leads(2, v, b) /\ Leads(2, w, b)
    BY <1>1, <1>5
  <2>2. PICK a \in Arena : Off(3, v) = Off(3, w) /\ Leads(3, v, a) /\ Leads(3, w, a)
    BY <1>1, <2>1
  <2>3. Off(4, v) = Off(4, w)
    BY <1>1, <2>2
  <2> QED BY <1>5, <2>1, <2>2, <2>3 DEF SameAbove
<1> QED BY <1>2, <1>3, <1>4, <1>5 DEF Levels

(***************************************************************************)
(* Entries that refer to tables stay for good: a walk replaces only an     *)
(* entry that does not, a mapping only one that is absent.                 *)
(***************************************************************************)
LEMMA ChildKept ==
  ASSUME IInv, Next, NEW t, NEW o, NEW c, Child(t, o, c)
  PROVE  Refers(mem', t, o, c)
<1>1. /\ TypeOK /\ FreshFrames /\ WalkSound /\ TablesWellFormed
      /\ t \in Arena /\ o \in Idx /\ ValidTable(mem[t][o]) /\ mem[t][o].f = c
  BY DEF IInv, Child, Refers
<1>2. CASE WalkNew
  <2>1. ~ValidTable(mem[walk.tbl][Off(walk.lvl, V)])
    BY <1>2 DEF WalkNew, Entry
  <2>2. mem'[t][o] = mem[t][o]
    BY <1>1, <1>2, <2>1, WriteFacts
  <2> QED BY <1>1, <2>2 DEF Refers
<1>3. CASE SetPage
  <2>1. ~mem[walk.tbl][Off(walk.lvl, V)].p
    BY <1>3 DEF SetPage, AtLeaf, LeafEntry
  <2>2. mem'[t][o] = mem[t][o]
    BY <1>1, <1>3, <2>1, WriteFacts DEF ValidTable
  <2> QED BY <1>1, <2>2 DEF Refers
<1>4. CASE ExecProcess
  <2>1. CASE CanAlloc(1)
    <3>1. arena_head \in Arena
      BY <1>1, <2>1, AllocOne
    <3>2. \A i \in Idx : mem[arena_head][i] = Absent
      BY <1>1, <3>1 DEF FreshFrames, TypeOK
    <3>3. t # arena_head
      BY <1>1, <3>2 DEF ValidTable, Absent
    <3>4. mem'[t] = mem[t]
      BY <1>1, <1>4, <2>1, <3>1, <3>3 DEF ExecProcess, TypeOK
    <3> QED BY <1>1, <3>4 DEF Refers
  <2>2. CASE ~CanAlloc(1)
    BY <1>1, <1>4, <2>2 DEF ExecProcess, Refers
  <2> QED BY <2>1, <2>2
<1>5. CASE UNCHANGED mem
  BY <1>1, <1>5 DEF Refers
<1> QED BY <1>2, <1>3, <1>4, <1>5, NextMemStep

LEMMA LeadsKept ==
  ASSUME IInv, Next, toplevel' = toplevel, NEW l, NEW v, NEW t, Leads(l, v, t)
  PROVE  Path(mem', toplevel', l, v, t)
<1>1. \A a \in Arena, o \in Idx : \A c :
           Refers(mem, a, o, c) => Refers(mem', a, o, c)
  BY ChildKept DEF Child
<1> QED BY <1>1, PathKept DEF Leads

-----------------------------------------------------------------------------
(***************************************************************************)
(* The caches.  That of the top level is an entry of the PML4 in use, of   *)
(* its upper half as long as a new process may come to copy that.          *)
(***************************************************************************)
Early == {"setup_vm", "map_kernel", "map_hhdm", "init_madt"}

CacheTop ==
  /\ stage = "setup_vm" => \A l \in 2 .. 4 : cache[l].tbl = NULL
  /\ cache[4].tbl # NULL /\ toplevel # NULL =>
       /\ Child(toplevel, cache[4].off, cache[4].tbl)
       /\ stage \in Early \union {"kernel"} => cache[4].off >= L \div 2

(***************************************************************************)
(* The others are entries of the table in the cache above them, but for    *)
(* the level at which a walk is filling them, and below a huge page.  This *)
(* ends when a walk fails; there are no frames then, so the only mappings  *)
(* after that are those of init_madt, which allocates nothing, and huge    *)
(* ones, which do not use these caches.                                    *)
(***************************************************************************)
Trusted == CanAlloc(1) \/ (job.st = "map" /\ ~job.huge /\ stage # "init_madt")

Filled(l) ==
  /\ cache[l].tbl # NULL
  /\ ~(job.st = "map" /\ walk.fill /\ walk.lvl = l)
  /\ l = 3 => cache[4].off \notin HhdmSlots

CacheLinks ==
  Trusted => \A l \in 2 .. 3 : Filled(l) =>
    Child(cache[l + 1].tbl, cache[l].off, cache[l].tbl)

(***************************************************************************)
(* Those that init_madt may use lead to the device registers.              *)
(***************************************************************************)
CachesOfRegisters ==
  stage \in Early => \A v \in Registers : \A l \in 2 .. 3 :
    cache[l].tbl # NULL /\ cache[l].off = Off(l, v) =>
      Leads(l - 1, v, cache[l].tbl)

(***************************************************************************)
(* A walk is on the path of its page, and so are the caches of the levels  *)
(* that it has passed.                                                     *)
(***************************************************************************)
OnPath ==
  job.st = "map" =>
    /\ Leads(walk.lvl, V, walk.tbl)
    /\ \A m \in 2 .. 4 : m > walk.lvl =>
         /\ cache[m].tbl # NULL /\ cache[m].off = Off(m, V)
         /\ Leads(m - 1, V, cache[m].tbl)

(***************************************************************************)
(* What each stage of the boot asks of map_pages.                          *)
(***************************************************************************)
RequestStages == {"kernel", "args", "user", "kernel_stack"}

JobArgs ==
  /\ job.st = "map" =>
       /\ job.huge <=> stage = "map_hhdm"
       /\ job.u <=> stage \in {"load", "map_stack"}
       /\ stage = "map_kernel" => job.v = KernelText /\ job.n = KernelPages
       /\ stage = "map_hhdm" => job.v = HhdmBegin /\ job.n = HhdmPages
       /\ stage = "init_madt" => job.v \in Registers /\ job.n = 1
       /\ stage \in {"load", "map_stack"} => job.v + job.n <= Half
       /\ stage \in RequestStages =>
            /\ job.by = "request_pages"
            /\ ArenaBegin <= job.p /\ job.p + job.n <= RamEnd
  /\ job.by = "request_pages" =>
       job.st # "idle" /\ stage \in RequestStages /\ job.v = vm_arena_head
  /\ job.st = "ok" => job.i = job.n

-----------------------------------------------------------------------------
(***************************************************************************)
(* Steps of the walk that enter a cache, in one form.                      *)
(***************************************************************************)
Walked(t) ==
  /\ t \in Arena /\ walk.lvl \in 2 .. 4 /\ walk.lvl > LeafLevel
  /\ job.st = "map"
  /\ cache' = [cache EXCEPT ![walk.lvl] = [off |-> Off(walk.lvl, V), tbl |-> t]]
  /\ walk' = [lvl |-> walk.lvl - 1, tbl |-> t, fill |-> TRUE]
  /\ Refers(mem', walk.tbl, Off(walk.lvl, V), t)
  /\ UNCHANGED <<job, stage, toplevel, cr3, arena_end, vm_arena_head, k, prog,
                 granted>>

LEMMA WalkedOn ==
  ASSUME IInv, Next, WalkExisting \/ WalkNew
  PROVE  \E t \in Arena : Walked(t)
<1>1. /\ TypeOK /\ FreshFrames /\ WalkSound /\ TablesWellFormed
      /\ job.st = "map" /\ Walking
  BY DEF IInv, WalkExisting, WalkNew, Walking
<1>2. walk.lvl \in 2 .. 4 /\ walk.lvl > LeafLevel
  <2>1. walk.lvl > LeafLevel /\ LeafLevel \in {1, 3} /\ walk.lvl \in Levels
    BY <1>1, JobTypes DEF Walking, TypeOK
  <2> QED BY <2>1 DEF Levels
<1>3. CASE WalkExisting
  <2>1. Child(walk.tbl, Off(walk.lvl, V), Entry.f) /\ Entry.f \in Arena
    BY <1>1, <1>3, EntryFacts DEF WalkExisting, Child, Refers, Entry
  <2>2. Refers(mem', walk.tbl, Off(walk.lvl, V), Entry.f)
    BY <2>1, ChildKept
  <2>3. Walked(Entry.f)
    BY <1>1, <1>2, <1>3, <2>1, <2>2 DEF Walked, WalkExisting, Descend
  <2> QED BY <2>1, <2>3
<1>4. CASE WalkNew
  <2>1. arena_head \in Arena
    BY <1>1, <1>4, AllocOne DEF WalkNew
  <2>2. Refers(mem', walk.tbl, Off(walk.lvl, V), arena_head)
    BY <1>1, <1>4, WriteFacts DEF Refers, NewTable, ValidTable
  <2>3. Walked(arena_head)
    BY <1>1, <1>2, <1>4, <2>1, <2>2 DEF Walked, WalkNew, Descend
  <2> QED BY <2>1, <2>3
<1> QED BY <1>3, <1>4

LEMMA NextCacheStep ==
  Next => WalkExisting \/ WalkNew \/ UNCHANGED cache
BY DEF Next, MapStep, WalkCached, WalkFails, SetPage, PageInUse, SetupVm,
       MapHhdm, ActivateToplevel, SetupVmPanics, MapMmio, MmioMapped,
       MadtDone, RequestPages, RequestReturns, ExecProcess, LoadMapping,
       CopySegment, MapUserStack, WriteStack, RequestKernelStack

\* The tables in use change when there are first ones, and for a process.
LEMMA NextToplevelStep ==
  Next => SetupVm \/ ExecProcess \/ UNCHANGED toplevel
BY DEF Next, MapStep, WalkCached, WalkExisting, WalkNew, WalkFails, SetPage,
       PageInUse, MapHhdm, ActivateToplevel, SetupVmPanics, MapMmio,
       MmioMapped, MadtDone, RequestPages, RequestReturns, LoadMapping,
       CopySegment, MapUserStack, WriteStack, RequestKernelStack

\* No stage comes back.
LEMMA StageBack ==
  ASSUME Next
  PROVE  /\ stage' = "setup_vm" => stage = "setup_vm" /\ ~SetupVm
         /\ stage' \in Early => stage \in Early /\ ~ExecProcess
         /\ stage' \in Early \union {"kernel"} =>
              stage \in Early \union {"kernel"}
BY DEF Next, MapStep, WalkCached, WalkExisting, WalkNew, WalkFails, SetPage,
       PageInUse, SetupVm, MapHhdm, ActivateToplevel, SetupVmPanics, MapMmio,
       MmioMapped, MadtDone, RequestPages, RequestReturns, ExecProcess,
       LoadMapping, CopySegment, MapUserStack, WriteStack,
       RequestKernelStack, Early

-----------------------------------------------------------------------------
(***************************************************************************)
(* Where the pages that the stages map are.                                *)
(***************************************************************************)
\* A page above the middle has an entry in the upper half of the PML4.
LEMMA UpperOff ==
  ASSUME NEW v \in Half .. (NV - 1)
  PROVE  Off(4, v) >= L \div 2
BY OffHalf, HalfFacts

LEMMA RegisterFacts ==
  ASSUME NEW v \in Registers
  PROVE  v \in Half .. (NV - 1)
<1>1. PICK i \in 1 .. Len(Mmio) : v = Mmio[i].v
  BY DEF Registers
<1>2. Mmio \in Seq([v : Half .. (NV - 1), p : Nat \ Arena])
  BY LayoutAssumption
<1>3. Mmio[i] \in [v : Half .. (NV - 1), p : Nat \ Arena]
  BY <1>1, <1>2, ElementOfSeq
<1> QED BY <1>1, <1>3

LEMMA HhdmPage ==
  ASSUME NEW h \in 0 .. (HhdmPages - 1)
  PROVE  /\ HhdmBegin + h * Span[3] \in Half .. (NV - 1)
         /\ Off(4, HhdmBegin + h * Span[3]) \in HhdmSlots
<1> DEFINE S == Span[3]
<1>1. S \in Nat /\ S > 0
  BY SpanType DEF Levels
<1>2. /\ h \in Nat /\ HhdmPages \in Nat /\ h + 1 <= HhdmPages
      /\ HhdmBegin \in Nat /\ HhdmBegin >= Half /\ Half \in Nat /\ NV \in Nat
      /\ HhdmBegin + HhdmPages * S <= NV
  BY LayoutAssumption, LayoutTypes
<1>3. Off(4, HhdmBegin + h * Span[3]) \in HhdmSlots
  BY DEF HhdmSlots
<1> HIDE DEF S
<1>4. h * S \in Nat /\ (h + 1) * S <= HhdmPages * S /\ (h + 1) * S = h * S + S
  BY <1>1, <1>2
<1>5. HhdmPages * S \in Nat
  BY <1>1, <1>2
<1>6. HhdmBegin + h * S \in Half .. (NV - 1)
  BY <1>1, <1>2, <1>4, <1>5
<1> QED BY <1>3, <1>6 DEF S

\* The pages of a walk: those of the early stages are above the middle, and
\* only huge ones are in the direct map.
LEMMA PageFacts ==
  ASSUME IInv, JobArgs, job.st = "map"
  PROVE  /\ V \in Nat /\ V < NV
         /\ stage \in Early \union RequestStages => V >= Half
         /\ stage \notin Early \union RequestStages => V < Half
         /\ job.huge => Off(4, V) \in HhdmSlots
         /\ ~job.huge => Off(4, V) \notin HhdmSlots
         /\ ~job.huge => V = job.v + job.i
         /\ stage = "map_kernel" => V \in KernelImage
         /\ stage = "init_madt" => V \in Registers
<1>1. /\ TypeOK /\ job.i \in Nat /\ job.n \in Nat /\ job.i < job.n
      /\ job.v \in Nat /\ stage \notin {"setup_vm", "wild", "panic"}
  BY DEF IInv, TypeOK, JobSound, StageSound
<1>2. ~job.huge => V = job.v + job.i
  BY <1>1 DEF V, JobSpan
<1>3. Half \in Nat /\ NV \in Nat /\ Half <= NV
  BY HalfFacts
<1>4. \A h \in 0 .. (HhdmPages - 1) :
        /\ HhdmBegin + h * Span[3] \in Half .. (NV - 1)
        /\ HhdmBegin + h * Span[3] >= HhdmBegin
  BY HhdmPage, LayoutTypes, SpanType DEF Levels
<1>5. CASE stage = "map_kernel"
  <2>1. ~job.huge /\ V \in KernelImage
    BY <1>1, <1>2, <1>5, LayoutTypes DEF JobArgs, KernelImage
  <2>2. KernelImage \subseteq Half .. (NV - 1)
    BY <1>3, LayoutAssumption DEF KernelImage
  <2> QED BY <1>2, <1>3, <1>5, <2>1, <2>2, SlotAssumption DEF Early
<1>6. CASE stage = "map_hhdm"
  <2>1. job.huge /\ V = HhdmBegin + job.i * Span[3] /\ job.i \in 0 .. (HhdmPages - 1)
    BY <1>1, <1>6, LayoutTypes DEF JobArgs, V, JobSpan
  <2>2. V \in Half .. (NV - 1) /\ Off(4, V) \in HhdmSlots
    BY <2>1, HhdmPage
  <2> QED BY <1>3, <1>6, <2>1, <2>2 DEF Early
<1>7. CASE stage = "init_madt"
  <2>1. ~job.huge /\ V = job.v /\ V \in Registers
    BY <1>1, <1>2, <1>7 DEF JobArgs
  <2> QED BY <1>2, <1>3, <1>7, <2>1, RegisterFacts, SlotAssumption DEF Early
<1>8. CASE stage \in RequestStages
  <2>1. ~job.huge /\ job.by = "request_pages" /\ job.v = vm_arena_head
    BY <1>8 DEF JobArgs, RequestStages
  <2>2. job.n \in ReqSizes \union {StackPages} /\ NewHead(job.n) <= VmEnd
    BY <2>1 DEF IInv, RequestSound
  <2>3. vm_arena_head + job.n <= VmEnd /\ vm_arena_head >= VmBegin
    BY <1>1, <2>2, HeadFacts, LayoutTypes DEF TypeOK
  <2>4. V \in Window
    BY <1>1, <1>2, <2>1, <2>3, LayoutTypes DEF Window
  <2>5. V \in Half .. (NV - 1)
    BY <1>3, <2>4, LayoutAssumption, LayoutTypes DEF Window
  <2> QED BY <1>2, <1>3, <1>8, <2>1, <2>4, <2>5, SlotAssumption
          DEF Early, RequestStages
<1>9. CASE stage \in {"load", "map_stack"}
  <2>1. ~job.huge /\ V < Half
    BY <1>1, <1>2, <1>3, <1>9 DEF JobArgs
  <2>2. V \in Nat /\ V < NV
    BY <1>1, <1>2, <1>3, <2>1
  <2>3. ~(Off(4, V) >= L \div 2)
    BY <1>3, <2>1, <2>2, OffHalf
  <2>4. \A s \in HhdmSlots : s >= L \div 2
    BY <1>4, UpperOff DEF HhdmSlots
  <2> QED BY <1>2, <1>9, <2>1, <2>2, <2>3, <2>4 DEF Early, RequestStages
<1> QED BY <1>1, <1>5, <1>6, <1>7, <1>8, <1>9
        DEF TypeOK, Stages, RequestStages

-----------------------------------------------------------------------------
(***************************************************************************)
(* The cache of the top level is kept right.                               *)
(***************************************************************************)
LEMMA CacheTopStep ==
  ASSUME IInv, CacheTop, OnPath, JobArgs, cr3 # NULL => cr3 = toplevel, Next
  PROVE  CacheTop'
<1>1. TypeOK /\ FreshFrames /\ StageSound
  BY DEF IInv
<1>2. CASE \E t \in Arena : Walked(t)
  <2>1. PICK t \in Arena : Walked(t)
    BY <1>2
  <2>2. /\ stage' = stage /\ toplevel' = toplevel /\ job.st = "map"
        /\ stage # "setup_vm"
    BY <1>1, <2>1 DEF Walked, StageSound
  <2>3. CASE walk.lvl = 4
    <3>1. walk.tbl = toplevel
      BY <2>2, <2>3 DEF OnPath, Leads, Path
    <3>2. cache'[4].off = Off(4, V) /\ cache'[4].tbl = t
      BY <1>1, <2>1, <2>3 DEF Walked, TypeOK
    <3>3. Refers(mem', toplevel', cache'[4].off, cache'[4].tbl)
      BY <2>1, <2>2, <2>3, <3>1, <3>2 DEF Walked
    <3>4. ASSUME stage \in Early \union {"kernel"}
          PROVE  Off(4, V) >= L \div 2
      <4>1. V \in Half .. (NV - 1)
        BY <2>2, <3>4, PageFacts, HalfFacts DEF Early, RequestStages
      <4> QED BY <4>1, UpperOff
    <3> QED BY <2>2, <3>2, <3>3, <3>4 DEF CacheTop, Child
  <2>4. CASE walk.lvl # 4
    <3>1. cache'[4] = cache[4]
      BY <1>1, <2>1, <2>4 DEF Walked, TypeOK
    <3> QED BY <2>2, <3>1, ChildKept DEF CacheTop, Child
  <2> QED BY <2>3, <2>4
<1>3. CASE SetupVm
  <2>1. stage = "setup_vm" /\ cache' = cache /\ stage' # "setup_vm"
    BY <1>3 DEF SetupVm
  <2> QED BY <2>1 DEF CacheTop
<1>4. CASE ExecProcess
  <2>1. stage = "kernel" /\ cache' = cache /\ stage' \notin Early \union {"kernel"}
    BY <1>4 DEF ExecProcess, Early
  <2>2. CASE CanAlloc(1)
    <3>1. cr3 = toplevel /\ toplevel \in Arena
      BY <1>1, <2>1 DEF StageSound, TypeOK
    <3>2. arena_head \in Arena /\ toplevel' = arena_head
      BY <1>1, <1>4, <2>2, AllocOne DEF ExecProcess
    <3>3. ASSUME cache[4].tbl # NULL
          PROVE  Refers(mem', toplevel', cache[4].off, cache[4].tbl)
      <4>1. /\ Child(toplevel, cache[4].off, cache[4].tbl)
            /\ cache[4].off >= L \div 2 /\ toplevel # NULL
        BY <1>1, <2>1, <3>3 DEF CacheTop, StageSound
      <4>2. mem'[arena_head][cache[4].off] = mem[toplevel][cache[4].off]
        BY <1>1, <1>4, <2>2, <3>1, <3>2, <4>1 DEF ExecProcess, TypeOK, Child, Refers
      <4> QED BY <3>2, <4>1, <4>2 DEF Child, Refers
    <3> QED BY <2>1, <3>3 DEF CacheTop, Child, Early
  <2>3. CASE ~CanAlloc(1)
    <3>1. UNCHANGED <<mem, toplevel>>
      BY <1>4, <2>3 DEF ExecProcess
    <3> QED BY <2>1, <3>1 DEF CacheTop, Child, Early
  <2> QED BY <2>2, <2>3
<1>5. CASE UNCHANGED <<cache, toplevel>>
  BY <1>5, ChildKept, StageBack DEF CacheTop, Child
<1> QED BY <1>2, <1>3, <1>4, <1>5, WalkedOn, NextCacheStep, NextToplevelStep
        DEF SetupVm, ExecProcess

(***************************************************************************)
(* The other caches.  Nothing makes a level trusted again, as frames are   *)
(* never freed and a call that needs some asks for them first.             *)
(***************************************************************************)
\* Steps of a call keep what it was asked for.
LEMMA MapStepFacts ==
  ASSUME TypeOK, MapStep
  PROVE  /\ job.st = "map"
         /\ UNCHANGED <<stage, toplevel, cr3, arena_end, vm_arena_head, k, prog,
                        granted>>
         /\ \A f \in {"by", "v", "p", "n", "w", "u", "huge"} : job'[f] = job[f]
         /\ SetPage \/ job'.i = job.i
         /\ SetPage \/ WalkFails \/ PageInUse \/ job' = job
BY ZenonT(60) DEF MapStep, WalkCached, WalkExisting, WalkNew, WalkFails, SetPage,
       PageInUse, Walking, AtLeaf, TypeOK

\* A caller's step has no call in progress before it.
LEMMA CallerFacts ==
  ASSUME StageSound, Next, ~MapStep
  PROVE  job.st # "map"
BY DEF StageSound, Next, SetupVm, MapHhdm, ActivateToplevel, SetupVmPanics,
       MapMmio, MmioMapped, MadtDone, RequestPages, RequestReturns,
       ExecProcess, LoadMapping, CopySegment, MapUserStack, WriteStack,
       RequestKernelStack, Returned

LEMMA MapallocNeeds ==
  ASSUME TypeOK, NEW by, NEW v, NEW n \in Nat, NEW w, NEW u,
         MapallocPages(by, v, n, w, u), job'.st = "map"
  PROVE  CanAlloc(1)
<1>1. CASE CanAlloc(n) /\ NewMap(by, v, arena_head, n, w, u, FALSE)
  <2>1. n # 0
    BY <1>1 DEF NewMap
  <2> QED BY <1>1, <2>1, ArenaAssumption DEF CanAlloc, TypeOK
<1>2. CASE job' = [Idle EXCEPT !.st = "failed", !.by = by, !.v = v, !.n = n]
  BY <1>2 DEF Idle
<1> QED BY <1>1, <1>2 DEF MapallocPages

LEMMA FewerFrames ==
  ASSUME NEW h \in Nat, NEW h1 \in Nat, h <= h1, NEW e \in Nat, h1 + 1 <= e
  PROVE  h + 1 <= e
OBVIOUS

LEMMA TrustedBack ==
  ASSUME IInv, JobArgs, Next, Trusted'
  PROVE  Trusted
<1>1. TypeOK /\ FreshFrames /\ StageSound
  BY DEF IInv
<1>2. /\ arena_head \in Nat /\ arena_head' \in Nat
      /\ arena_head <= arena_head'
      /\ arena_end' = arena_end /\ arena_end \in Nat
  <2>1. arena_end' = arena_end
    BY DEF Next, MapStep, WalkCached, WalkExisting, WalkNew, WalkFails,
           SetPage, PageInUse, SetupVm, MapHhdm, ActivateToplevel,
           SetupVmPanics, MapMmio, MmioMapped, MadtDone, RequestPages,
           RequestReturns, ExecProcess, LoadMapping, CopySegment,
           MapUserStack, WriteStack, RequestKernelStack
  <2>2. AllocStep
    BY <1>1, NextAllocStep
  <2>3. CASE Allocates
    <3>1. PICK n \in Nat : arena_head' = arena_head + n
      BY <2>3 DEF Allocates, AllocPages
    <3> QED BY <1>1, <2>1, <3>1, ArenaAssumption DEF TypeOK
  <2>4. CASE arena_head' = arena_head
    BY <1>1, <2>1, <2>4, ArenaAssumption DEF TypeOK
  <2> QED BY <2>2, <2>3, <2>4 DEF AllocStep
<1>3. ASSUME arena_head' + 1 <= arena_end'
      PROVE  Trusted
  BY <1>2, <1>3, FewerFrames DEF CanAlloc, Trusted
<1>4. CASE job'.st = "map" /\ ~job'.huge /\ stage' # "init_madt"
  <2>1. CASE MapStep
    BY <1>1, <1>4, <2>1, MapStepFacts DEF Trusted
  <2>2. CASE SetupVm
    BY <1>1, <1>4, <2>2 DEF SetupVm, Trusted, StageSound
  <2>3. CASE RequestPages \/ RequestKernelStack
    <3>1. PICK n \in Nat : \/ MapallocPages("request_pages", vm_arena_head, n, TRUE, FALSE)
                           \/ job' = job
      BY <2>3, RequestAssumption, SizeAssumption DEF RequestPages, RequestKernelStack
    <3> QED BY <1>1, <1>4, <2>3, <3>1, MapallocNeeds
            DEF RequestPages, RequestKernelStack, Trusted
  <2>4. CASE LoadMapping
    <3>1. prog.segs \in Seq([begin : Nat, end : Nat, w : BOOLEAN])
      BY <1>1, <2>4, ProgramAssumption DEF LoadMapping, StageSound
    <3>2. k \in DOMAIN prog.segs
      BY <1>1, <2>4, <3>1 DEF LoadMapping, TypeOK
    <3>3. SegPages(prog.segs[k]) \in Nat
      BY <1>1, <2>4, <3>2, SegFacts DEF LoadMapping, StageSound
    <3> QED BY <1>1, <1>4, <2>4, <3>3, MapallocNeeds DEF LoadMapping, Trusted
  <2>5. CASE MapUserStack
    <3>1. CeilPages(prog.use) \in Nat
      BY <1>1, <2>5, StackFacts DEF MapUserStack, StageSound
    <3> QED BY <1>1, <1>4, <2>5, <3>1, MapallocNeeds DEF MapUserStack, Trusted
  <2>6. CASE MapHhdm \/ MapMmio
    BY <1>4, <2>6 DEF MapHhdm, MapMmio, NewMap
  <2>7. CASE \/ ActivateToplevel \/ MmioMapped \/ RequestReturns
             \/ CopySegment \/ WriteStack
    BY <1>1, <1>4, <2>7
       DEF ActivateToplevel, MmioMapped, RequestReturns, CopySegment, WriteStack,
           Idle, Returned, StageSound
  <2>8. CASE SetupVmPanics \/ MadtDone \/ ExecProcess
    BY <1>4, <2>8 DEF SetupVmPanics, MadtDone, ExecProcess
  <2> QED BY <2>1, <2>2, <2>3, <2>4, <2>5, <2>6, <2>7, <2>8 DEF Next
<1> QED BY <1>3, <1>4 DEF Trusted, CanAlloc

LEMMA CacheLinksStep ==
  ASSUME IInv, CacheLinks, OnPath, JobArgs, Next
  PROVE  CacheLinks'
<1>1. TypeOK /\ FreshFrames /\ StageSound
  BY DEF IInv
<1> SUFFICES ASSUME Trusted', NEW l \in 2 .. 3, Filled(l)'
             PROVE  Refers(mem', cache'[l + 1].tbl, cache'[l].off, cache'[l].tbl)
  BY DEF CacheLinks, Child
<1>2. Trusted
  BY TrustedBack
<1>3. CASE \E t \in Arena : Walked(t)
  <2>1. PICK t \in Arena : Walked(t)
    BY <1>3
  <2>2. job.st = "map" /\ job' = job /\ walk' = [lvl |-> walk.lvl - 1, tbl |-> t, fill |-> TRUE]
          /\ walk.lvl \in 2 .. 4
    BY <2>1 DEF Walked
  <2>3. l # walk.lvl - 1
    BY <2>2 DEF Filled
  <2>4. CASE l = walk.lvl
    <3>1. cache'[l].off = Off(l, V) /\ cache'[l].tbl = t /\ cache'[l + 1] = cache[l + 1]
      BY <1>1, <2>1, <2>4 DEF Walked, TypeOK
    <3>2. Leads(l, V, walk.tbl) /\ Leads(l, V, cache[l + 1].tbl)
      <4>1. l + 1 \in 2 .. 4 /\ l + 1 > walk.lvl /\ (l + 1) - 1 = l
        BY <2>4
      <4> QED BY <2>2, <2>4, <4>1 DEF OnPath
    <3>3. walk.tbl = cache[l + 1].tbl
      BY <3>2, PathOnce DEF Leads, Levels
    <3> QED BY <2>1, <2>4, <3>1, <3>3 DEF Walked
  <2>5. CASE l # walk.lvl
    <3>1. cache'[l] = cache[l] /\ cache'[l + 1] = cache[l + 1]
      BY <1>1, <2>1, <2>2, <2>3, <2>5 DEF Walked, TypeOK
    <3>2. Filled(l)
      BY <2>5, <3>1 DEF Filled
    <3>3. Child(cache[l + 1].tbl, cache[l].off, cache[l].tbl)
      BY <1>2, <3>2 DEF CacheLinks
    <3> QED BY <3>1, <3>3, ChildKept
  <2> QED BY <2>4, <2>5
<1>4. CASE cache' = cache
  <2>1. CASE job.st = "map" /\ walk.fill /\ walk.lvl = l
    <3>1. MapStep
      BY <1>1, <2>1, CallerFacts
    <3>2. ~WalkCached
      BY <2>1 DEF WalkCached, Hit
    <3>3. CASE WalkFails
      BY <1>2, <2>1, <3>3 DEF WalkFails, Trusted, Filled, CanAlloc
    <3>4. CASE SetPage \/ PageInUse
      <4>1. l = 3 /\ job.huge
        BY <2>1, <3>4 DEF SetPage, PageInUse, AtLeaf, LeafLevel
      <4>2. cache[4].off \in HhdmSlots
        BY <2>1, <4>1, PageFacts DEF OnPath
      <4> QED BY <1>4, <4>1, <4>2 DEF Filled
    <3>5. CASE WalkExisting \/ WalkNew
      BY <1>3, <3>5, WalkedOn
    <3> QED BY <3>1, <3>2, <3>3, <3>4, <3>5 DEF MapStep
  <2>2. CASE ~(job.st = "map" /\ walk.fill /\ walk.lvl = l)
    <3>1. Filled(l)
      BY <1>4, <2>2 DEF Filled
    <3>2. Child(cache[l + 1].tbl, cache[l].off, cache[l].tbl)
      BY <1>2, <3>1 DEF CacheLinks
    <3> QED BY <1>4, <3>2, ChildKept
  <2> QED BY <2>1, <2>2
<1> QED BY <1>3, <1>4, WalkedOn, NextCacheStep

(***************************************************************************)
(* The caches of the device registers' path.                               *)
(***************************************************************************)
LEMMA CachesOfRegistersStep ==
  ASSUME IInv, CacheTop, CachesOfRegisters, OnPath, JobArgs, Next
  PROVE  CachesOfRegisters'
<1>1. TypeOK /\ FreshFrames /\ StageSound
  BY DEF IInv
<1> SUFFICES ASSUME stage' \in Early, NEW v \in Registers, NEW l \in 2 .. 3,
                    cache'[l].tbl # NULL, cache'[l].off = Off(l, v)
             PROVE  Path(mem', toplevel', l - 1, v, cache'[l].tbl)
  BY DEF CachesOfRegisters, Leads
<1>2. stage \in Early /\ ~ExecProcess
  BY StageBack
<1>3. CASE \E t \in Arena : Walked(t)
  <2>1. PICK t \in Arena : Walked(t)
    BY <1>3
  <2>2. toplevel' = toplevel /\ job.st = "map" /\ walk.lvl \in 2 .. 4
          /\ walk.lvl > LeafLevel
    BY <2>1 DEF Walked
  <2>3. CASE l = walk.lvl
    <3>1. cache'[l].off = Off(l, V) /\ cache'[l].tbl = t
      BY <1>1, <2>1, <2>3 DEF Walked, TypeOK
    <3>2. ~job.huge
      BY <2>2, <2>3 DEF LeafLevel
    <3>3. stage = "init_madt"
      <4>1. ASSUME stage = "map_kernel" PROVE FALSE
        <5>1. V \in KernelImage
          BY <2>2, <4>1, PageFacts
        <5>2. Off(l, V) # Off(l, v)
          BY <5>1, SlotAssumption
        <5> QED BY <3>1, <5>2
      <4>2. stage # "map_hhdm" /\ stage # "setup_vm"
        BY <1>1, <2>2, <3>2 DEF JobArgs, StageSound
      <4> QED BY <1>2, <4>1, <4>2 DEF Early
    <3>4. V \in Registers
      BY <2>2, <3>3, PageFacts
    <3>5. SameAbove(l, V, v) /\ Off(l, V) = Off(l, v)
      BY <3>4, SlotAssumption DEF SameAbove
    <3>6. Path(mem', toplevel', l, V, walk.tbl)
      BY <2>2, <2>3, LeadsKept DEF OnPath
    <3>7. Path(mem', toplevel', l, v, walk.tbl)
      BY <3>5, <3>6, PathShared DEF Levels
    <3>8. Refers(mem', walk.tbl, Off(l, v), t)
      BY <2>1, <2>3, <3>5 DEF Walked
    <3>9. l \in 2 .. 4
      OBVIOUS
    <3> QED BY <3>1, <3>7, <3>8, <3>9, PathDown
  <2>4. CASE l # walk.lvl
    <3>1. cache'[l] = cache[l]
      BY <1>1, <2>1, <2>2, <2>4 DEF Walked, TypeOK
    <3>2. Leads(l - 1, v, cache[l].tbl)
      BY <1>2, <3>1 DEF CachesOfRegisters
    <3> QED BY <2>2, <3>1, <3>2, LeadsKept
  <2> QED BY <2>3, <2>4
<1>4. CASE cache' = cache
  <2>1. stage # "setup_vm"
    BY <1>4 DEF CacheTop
  <2>2. toplevel' = toplevel
    BY <1>2, <2>1, NextToplevelStep DEF SetupVm
  <2>3. Leads(l - 1, v, cache[l].tbl)
    BY <1>2, <1>4 DEF CachesOfRegisters
  <2> QED BY <1>4, <2>2, <2>3, LeadsKept
<1> QED BY <1>3, <1>4, WalkedOn, NextCacheStep

(***************************************************************************)
(* Walks stay on the path of their page.                                   *)
(***************************************************************************)
\* A walk that begins is at the top of every path.
LEMMA OnPathStart ==
  ASSUME toplevel' \in Arena, walk'.lvl = 4, walk'.tbl = toplevel'
  PROVE  OnPath'
BY DEF OnPath, Leads, Path

\* A cache that is hit is on the path.
LEMMA HitOnPath ==
  ASSUME IInv, CacheTop, CacheLinks, CachesOfRegisters, OnPath, JobArgs, WalkCached
  PROVE  /\ cache[walk.lvl].tbl # NULL
         /\ cache[walk.lvl].off = Off(walk.lvl, V)
         /\ walk.lvl \in 2 .. 4
         /\ Leads(walk.lvl - 1, V, cache[walk.lvl].tbl)
<1>1. TypeOK /\ StageSound
  BY DEF IInv
<1>2. /\ job.st = "map" /\ walk.lvl > LeafLevel /\ ~walk.fill
      /\ cache[walk.lvl].off = Off(walk.lvl, V) /\ cache[walk.lvl].tbl # NULL
  BY DEF WalkCached, Walking, Hit
<1>3. walk.lvl \in 2 .. 4
  BY <1>1, <1>2, JobTypes DEF TypeOK, Levels
<1>4. Leads(walk.lvl, V, walk.tbl)
  BY <1>2 DEF OnPath
<1>5. CASE walk.lvl = 4
  <2>1. walk.tbl = toplevel /\ toplevel # NULL
    BY <1>1, <1>2, <1>4, <1>5 DEF Leads, Path, StageSound
  <2>2. Child(toplevel, Off(4, V), cache[4].tbl)
    BY <1>2, <1>5, <2>1 DEF CacheTop
  <2> QED BY <1>2, <1>3, <1>4, <1>5, <2>1, <2>2, PathDown DEF Leads, Child
<1>6. CASE walk.lvl \in 2 .. 3
  <2>1. ~job.huge
    BY <1>2, <1>6 DEF LeafLevel
  <2>2. CASE Trusted
    <3> DEFINE l == walk.lvl
    <3>1. /\ cache[l + 1].tbl # NULL /\ cache[l + 1].off = Off(l + 1, V)
          /\ Leads(l, V, cache[l + 1].tbl)
      <4>1. l + 1 \in 2 .. 4 /\ l + 1 > walk.lvl /\ (l + 1) - 1 = l
        BY <1>6
      <4> QED BY <1>2, <4>1 DEF OnPath
    <3>2. l = 3 => cache[4].off \notin HhdmSlots
      BY <1>2, <2>1, <3>1, PageFacts
    <3>3. Child(cache[l + 1].tbl, cache[l].off, cache[l].tbl)
      BY <1>2, <1>6, <2>2, <3>2 DEF CacheLinks, Filled
    <3>4. Leads(l - 1, V, cache[l].tbl)
      BY <1>2, <1>3, <3>1, <3>3, PathDown DEF Leads, Child
    <3> QED BY <1>2, <1>3, <3>4
  <2>3. CASE ~Trusted
    <3>1. stage = "init_madt"
      BY <1>2, <2>1, <2>3 DEF Trusted
    <3>2. V \in Registers
      BY <1>2, <3>1, PageFacts
    <3> QED BY <1>2, <1>3, <1>6, <3>1, <3>2 DEF CachesOfRegisters, Early
  <2> QED BY <2>2, <2>3
<1> QED BY <1>3, <1>5, <1>6

LEMMA OnPathStep ==
  ASSUME IInv, CacheTop, CacheLinks, CachesOfRegisters, OnPath, JobArgs, Next
  PROVE  OnPath'
<1>1. TypeOK /\ FreshFrames /\ StageSound
  BY DEF IInv
<1>2. CASE \E t \in Arena : Walked(t)
  <2>1. PICK t \in Arena : Walked(t)
    BY <1>2
  <2>2. /\ job' = job /\ job.st = "map" /\ V' = V /\ toplevel' = toplevel
        /\ walk.lvl \in 2 .. 4
        /\ walk'.lvl = walk.lvl - 1 /\ walk'.tbl = t
    BY <2>1 DEF Walked, V, JobSpan
  <2>3. Path(mem', toplevel', walk.lvl - 1, V, t)
    <3>1. Path(mem', toplevel', walk.lvl, V, walk.tbl)
      BY <2>2, LeadsKept DEF OnPath
    <3> QED BY <2>1, <2>2, <3>1, PathDown DEF Walked
  <2>4. ASSUME NEW m \in 2 .. 4, m > walk'.lvl
        PROVE  /\ cache'[m].tbl # NULL /\ cache'[m].off = Off(m, V)
               /\ Path(mem', toplevel', m - 1, V, cache'[m].tbl)
    <3>1. CASE m = walk.lvl
      <4>1. cache'[m].off = Off(m, V) /\ cache'[m].tbl = t
        BY <1>1, <2>1, <3>1 DEF Walked, TypeOK
      <4>2. t # NULL
        BY ArenaAssumption DEF Arena, NULL
      <4> QED BY <2>3, <3>1, <4>1, <4>2
    <3>2. CASE m # walk.lvl
      <4>1. cache'[m] = cache[m] /\ m > walk.lvl
        BY <1>1, <2>1, <2>2, <2>4, <3>2 DEF Walked, TypeOK
      <4>2. /\ cache[m].tbl # NULL /\ cache[m].off = Off(m, V)
            /\ Leads(m - 1, V, cache[m].tbl)
        BY <2>2, <4>1 DEF OnPath
      <4> QED BY <2>2, <4>1, <4>2, LeadsKept
    <3> QED BY <3>1, <3>2
  <2> QED BY <2>2, <2>3, <2>4 DEF OnPath, Leads
<1>3. CASE WalkCached
  <2>1. /\ job' = job /\ cache' = cache /\ mem' = mem /\ toplevel' = toplevel
        /\ walk'.lvl = walk.lvl - 1 /\ walk'.tbl = cache[walk.lvl].tbl
        /\ V' = V /\ job.st = "map"
    BY <1>3 DEF WalkCached, Descend, V, JobSpan, Walking
  <2>2. /\ cache[walk.lvl].tbl # NULL
        /\ cache[walk.lvl].off = Off(walk.lvl, V)
        /\ walk.lvl \in 2 .. 4
        /\ Leads(walk.lvl - 1, V, cache[walk.lvl].tbl)
    BY <1>3, HitOnPath
  <2>3. ASSUME NEW m \in 2 .. 4, m > walk'.lvl
        PROVE  cache[m].tbl # NULL /\ cache[m].off = Off(m, V)
                 /\ Leads(m - 1, V, cache[m].tbl)
    <3>1. CASE m = walk.lvl
      BY <2>2, <3>1
    <3>2. CASE m > walk.lvl
      BY <2>1, <3>2 DEF OnPath
    <3> QED BY <2>1, <2>2, <2>3, <3>1, <3>2
  <2> QED BY <2>1, <2>2, <2>3 DEF OnPath, Leads
<1>4. CASE SetPage
  BY <1>1, <1>4, OnPathStart DEF SetPage, AtLeaf, StartWalk, StageSound, TypeOK
<1>5. CASE WalkFails \/ PageInUse
  BY <1>1, <1>5 DEF WalkFails, PageInUse, OnPath, TypeOK
<1>6. CASE SetupVm
  <2>1. CASE CanAlloc(1) /\ toplevel' = arena_head /\ StartWalk(arena_head)
    BY <1>1, <2>1, AllocOne, OnPathStart DEF StartWalk
  <2>2. CASE job' = job
    BY <1>1, <1>6, <2>2 DEF SetupVm, OnPath, StageSound
  <2> QED BY <1>6, <2>1, <2>2 DEF SetupVm
<1>7. CASE MapHhdm \/ MapMmio
  <2>1. toplevel \in Arena
    BY <1>1, <1>7 DEF MapHhdm, MapMmio, StageSound, TypeOK
  <2>2. toplevel' = toplevel /\ StartWalk(toplevel)
    BY <1>7 DEF MapHhdm, MapMmio
  <2> QED BY <2>1, <2>2, OnPathStart DEF StartWalk
<1>8. ASSUME NEW by, NEW v, NEW n, NEW w, NEW u, MapallocPages(by, v, n, w, u),
             toplevel' = toplevel, toplevel \in Arena
      PROVE  OnPath'
  BY <1>8, OnPathStart DEF MapallocPages, StartWalk
<1>9. CASE RequestPages \/ LoadMapping \/ MapUserStack \/ RequestKernelStack
  <2>1. toplevel' = toplevel /\ toplevel \in Arena
    BY <1>1, <1>9 DEF RequestPages, LoadMapping, MapUserStack, RequestKernelStack,
                      StageSound, TypeOK
  <2>2. CASE \E by, v, n, w, u : MapallocPages(by, v, n, w, u)
    BY <1>8, <2>1, <2>2
  <2>3. CASE job' = job /\ job.st = "idle"
    BY <2>3 DEF OnPath
  <2> QED BY <1>9, <2>2, <2>3
          DEF RequestPages, LoadMapping, MapUserStack, RequestKernelStack
<1>10. CASE \/ ActivateToplevel \/ MmioMapped \/ RequestReturns
            \/ CopySegment \/ WriteStack \/ SetupVmPanics \/ MadtDone \/ ExecProcess
  BY <1>10 DEF ActivateToplevel, MmioMapped, RequestReturns, CopySegment,
               WriteStack, SetupVmPanics, MadtDone, ExecProcess, Idle,
               Returned, OnPath
<1> QED BY <1>2, <1>3, <1>4, <1>5, <1>6, <1>7, <1>9, <1>10, WalkedOn
        DEF Next, MapStep

(***************************************************************************)
(* What is asked of map_pages stays what the stages ask.                   *)
(***************************************************************************)
LEMMA MapallocJob ==
  ASSUME TypeOK, NEW by, NEW v, NEW n \in Nat, NEW w, NEW u \in BOOLEAN,
         MapallocPages(by, v, n, w, u)
  PROVE  /\ job'.by = by /\ job'.v = v /\ job'.n = n
         /\ job'.st = "map" =>
              /\ job'.huge = FALSE /\ job'.u = u
              /\ ArenaBegin <= job'.p /\ job'.p + job'.n <= RamEnd
         /\ job'.st = "ok" => job'.i = job'.n
         /\ walk' = [lvl |-> 4, tbl |-> toplevel, fill |-> FALSE]
<1>1. CASE CanAlloc(n) /\ NewMap(by, v, arena_head, n, w, u, FALSE)
  <2>1. arena_head + n <= arena_end /\ arena_end <= RamEnd
        /\ ArenaBegin <= arena_head
    BY <1>1, ArenaAssumption DEF CanAlloc, TypeOK
  <2>2. arena_head + n <= RamEnd
    BY <2>1, ArenaAssumption DEF TypeOK
  <2> QED BY <1>1, <2>1, <2>2 DEF NewMap, MapallocPages, StartWalk
<1>2. CASE job' = [Idle EXCEPT !.st = "failed", !.by = by, !.v = v, !.n = n]
  BY <1>2 DEF Idle, MapallocPages, StartWalk
<1> QED BY <1>1, <1>2 DEF MapallocPages

LEMMA JobArgsStep ==
  ASSUME IInv, JobArgs, Next
  PROVE  JobArgs'
<1>1. TypeOK /\ StageSound /\ RequestSound
  BY DEF IInv
<1>2. CASE MapStep
  <2>1. /\ job'.by = job.by /\ job'.v = job.v /\ job'.p = job.p /\ job'.n = job.n
        /\ job'.u = job.u /\ job'.huge = job.huge
        /\ stage' = stage /\ vm_arena_head' = vm_arena_head /\ job.st = "map"
    BY <1>1, <1>2, MapStepFacts
  <2>2. (job'.st = "ok" => job'.i = job'.n) /\ job'.st # "idle"
    BY <1>1, <1>2 DEF MapStep, WalkCached, WalkExisting, WalkNew, WalkFails,
                      SetPage, PageInUse, Walking, TypeOK
  <2> QED BY <2>1, <2>2 DEF JobArgs
<1>3. CASE SetupVm
  BY <1>1, <1>3 DEF SetupVm, NewMap, JobArgs, StageSound, RequestStages
<1>4. CASE MapHhdm
  BY <1>4 DEF MapHhdm, NewMap, JobArgs, RequestStages
<1>5. CASE MapMmio
  <2>1. k \in 1 .. Len(Mmio)
    BY <1>1, <1>5, LayoutAssumption DEF MapMmio, TypeOK
  <2>2. Mmio[k].v \in Registers
    BY <2>1 DEF Registers
  <2> QED BY <1>5, <2>2 DEF MapMmio, NewMap, JobArgs, RequestStages
<1>6. CASE RequestPages \/ RequestKernelStack
  <2>1. CASE /\ \E n \in Nat : MapallocPages("request_pages", vm_arena_head, n, TRUE, FALSE)
             /\ stage' \in RequestStages /\ vm_arena_head' = vm_arena_head
    <3>1. PICK n \in Nat : MapallocPages("request_pages", vm_arena_head, n, TRUE, FALSE)
      BY <2>1
    <3>2. job'.st # "idle"
      <4>1. CASE NewMap("request_pages", vm_arena_head, arena_head, n, TRUE, FALSE, FALSE)
        BY <4>1 DEF NewMap
      <4>2. CASE job' = [Idle EXCEPT !.st = "failed", !.by = "request_pages",
                                     !.v = vm_arena_head, !.n = n]
        BY <4>2 DEF Idle
      <4> QED BY <3>1, <4>1, <4>2 DEF MapallocPages
    <3>3. /\ job'.by = "request_pages" /\ job'.v = vm_arena_head
          /\ job'.st = "map" =>
               /\ job'.huge = FALSE /\ job'.u = FALSE
               /\ ArenaBegin <= job'.p /\ job'.p + job'.n <= RamEnd
          /\ job'.st = "ok" => job'.i = job'.n
      BY <1>1, <3>1, MapallocJob
    <3> QED BY <2>1, <3>2, <3>3 DEF JobArgs, RequestStages
  <2>2. CASE job' = job /\ stage' = "wild" /\ stage = "args" /\ job.st = "idle"
    BY <1>6, <2>2 DEF JobArgs, RequestStages
  <2>3. (\A n \in ReqSizes : n \in Nat) /\ StackPages \in Nat
    BY RequestAssumption, SizeAssumption
  <2>4. CASE RequestPages
    BY <2>1, <2>3, <2>4 DEF RequestPages, RequestStages
  <2>5. CASE RequestKernelStack
    BY <2>1, <2>2, <2>3, <2>5 DEF RequestKernelStack, RequestStages
  <2> QED BY <1>6, <2>4, <2>5
<1>7. CASE LoadMapping
  <2>1. prog \in Programs /\ prog.segs \in Seq([begin : Nat, end : Nat, w : BOOLEAN])
    BY <1>1, <1>7, ProgramAssumption DEF LoadMapping, StageSound
  <2>2. k \in DOMAIN prog.segs
    BY <1>1, <1>7, <2>1 DEF LoadMapping, TypeOK
  <2>3. /\ FloorPage(prog.segs[k].begin) \in Nat /\ SegPages(prog.segs[k]) \in Nat
        /\ FloorPage(prog.segs[k].begin) + SegPages(prog.segs[k]) <= Half
    BY <2>1, <2>2, SegFacts
  <2> QED BY <1>1, <1>7, <2>3, MapallocJob DEF LoadMapping, JobArgs, RequestStages
<1>8. CASE MapUserStack
  <2>1. /\ StackAt(prog.use) \in Nat /\ CeilPages(prog.use) \in Nat
        /\ StackAt(prog.use) + CeilPages(prog.use) <= Half
    BY <1>1, <1>8, StackFacts DEF MapUserStack, StageSound
  <2> QED BY <1>1, <1>8, <2>1, MapallocJob DEF MapUserStack, JobArgs, RequestStages
<1>9. CASE ActivateToplevel \/ MmioMapped \/ RequestReturns
  BY <1>9 DEF ActivateToplevel, MmioMapped, RequestReturns, Idle, JobArgs
<1>10. CASE CopySegment \/ WriteStack
  BY <1>1, <1>10 DEF CopySegment, WriteStack, Idle, JobArgs, Returned, RequestStages
<1>11. CASE SetupVmPanics \/ MadtDone \/ ExecProcess
  BY <1>11 DEF SetupVmPanics, MadtDone, ExecProcess, JobArgs, RequestStages
<1> QED BY <1>2, <1>3, <1>4, <1>5, <1>6, <1>7, <1>8, <1>9, <1>10, <1>11 DEF Next

-----------------------------------------------------------------------------
(***************************************************************************)
(* What request_pages granted.  The processor uses the tables of toplevel; *)
(* the pages of a request lie below the head of the window, and each has   *)
(* its entry on its path; so have those that the request under way has     *)
(* mapped so far.                                                          *)
(***************************************************************************)
Bound(v) == \E t \in Arena :
  /\ Leads(1, v, t)
  /\ mem[t][Off(1, v)].p /\ mem[t][Off(1, v)].f \in Arena

ActiveTables ==
  /\ cr3 # NULL => cr3 = toplevel /\ stage # "setup_vm"
  /\ granted # {} => cr3 # NULL

GrantedBound ==
  /\ \A g \in granted :
       /\ VmBegin <= g.v /\ g.v + g.n <= vm_arena_head
       /\ \A v \in PagesOf(g) : Bound(v)
  /\ \A g, h \in granted : g = h \/ PagesOf(g) \intersect PagesOf(h) = {}

RequestBound ==
  job.by = "request_pages" /\ job.st \in {"map", "ok"} =>
    \A i \in 0 .. (job.i - 1) : Bound(job.v + i)

SpaceInv ==
  /\ IInv /\ CacheTop /\ CacheLinks /\ CachesOfRegisters /\ OnPath /\ JobArgs
  /\ ActiveTables /\ GrantedBound /\ RequestBound

LEMMA ActiveTablesStep ==
  ASSUME IInv, JobArgs, ActiveTables, Next
  PROVE  ActiveTables'
<1>1. TypeOK /\ StageSound
  BY DEF IInv
<1>2. CASE SetupVm
  BY <1>2 DEF SetupVm, ActiveTables
<1>3. CASE ActivateToplevel
  BY <1>1, <1>3 DEF ActivateToplevel, ActiveTables, StageSound
<1>4. CASE ExecProcess
  BY <1>1, <1>4, AllocOne DEF ExecProcess, ActiveTables
<1>5. CASE RequestReturns
  <2>1. stage \in RequestStages
    BY <1>5 DEF RequestReturns, JobArgs
  <2>2. cr3 # NULL /\ UNCHANGED <<cr3, toplevel>> /\ stage' # "setup_vm"
    BY <1>1, <1>5, <2>1 DEF RequestReturns, StageSound, RequestStages
  <2> QED BY <2>2 DEF ActiveTables
<1>6. CASE UNCHANGED <<cr3, toplevel, granted>>
  BY <1>6, StageBack DEF ActiveTables
<1> QED BY <1>2, <1>3, <1>4, <1>5, <1>6
        DEF Next, MapStep, WalkCached, WalkExisting, WalkNew, WalkFails,
            SetPage, PageInUse, MapHhdm, SetupVmPanics, MapMmio, MmioMapped,
            MadtDone, RequestPages, LoadMapping, CopySegment, MapUserStack,
            WriteStack, RequestKernelStack

\* A page that is mapped in a page table stays mapped there.
LEMMA LeafKept ==
  ASSUME IInv, Next, NEW t \in Arena, NEW o \in Idx, role[t] = 1, mem[t][o].p
  PROVE  mem'[t][o] = mem[t][o]
<1>1. TypeOK /\ FreshFrames /\ WalkSound /\ TablesWellFormed
  BY DEF IInv
<1>2. CASE WalkNew
  <2>1. walk.lvl > 1
    BY <1>1, <1>2, JobTypes DEF WalkNew, Walking, TypeOK, Levels
  <2>2. t # walk.tbl
    BY <1>1, <1>2, <2>1, WriteFacts
  <2> QED BY <1>1, <1>2, <2>2, WriteFacts
<1>3. CASE SetPage
  <2>1. ~mem[walk.tbl][Off(walk.lvl, V)].p
    BY <1>3 DEF SetPage, AtLeaf, LeafEntry
  <2>2. t # walk.tbl \/ o # Off(walk.lvl, V)
    BY <2>1
  <2> QED BY <1>1, <1>3, <2>2, WriteFacts
<1>4. CASE ExecProcess
  <2>1. CASE CanAlloc(1)
    <3>1. arena_head \in Arena /\ role[arena_head] = Free
      BY <1>1, <2>1, AllocOne DEF FreshFrames, TypeOK
    <3>2. t # arena_head
      BY <3>1 DEF Free
    <3> QED BY <1>1, <1>4, <2>1, <3>1, <3>2 DEF ExecProcess, TypeOK
  <2>2. CASE ~CanAlloc(1)
    BY <1>4, <2>2 DEF ExecProcess
  <2> QED BY <2>1, <2>2
<1>5. CASE UNCHANGED mem
  BY <1>5
<1> QED BY <1>2, <1>3, <1>4, <1>5, NextMemStep

\* A new process shares the upper half.
LEMMA PathCopied ==
  ASSUME IInv, ActiveTables, ExecProcess, CanAlloc(1),
         NEW v \in Half .. (NV - 1), NEW t, Leads(1, v, t)
  PROVE  Path(mem', toplevel', 1, v, t)
<1>1. TypeOK /\ FreshFrames /\ StageSound
  BY DEF IInv
<1>2. arena_head \in Arena /\ toplevel' = arena_head /\ Next
  BY <1>1, AllocOne DEF ExecProcess, Next
<1>3. PICK a, b \in Arena :
        /\ Refers(mem, toplevel, Off(4, v), a) /\ Refers(mem, a, Off(3, v), b)
        /\ Refers(mem, b, Off(2, v), t)
  BY DEF Leads, Path
<1>4. Refers(mem', a, Off(3, v), b) /\ Refers(mem', b, Off(2, v), t)
  BY <1>2, <1>3, ChildKept DEF Child
<1>5. cr3 = toplevel /\ Off(4, v) \in Idx /\ Off(4, v) >= L \div 2
  BY <1>1, <1>3, UpperOff DEF ActiveTables, ExecProcess, StageSound, Refers
<1>6. mem'[arena_head][Off(4, v)] = mem[toplevel][Off(4, v)]
  BY <1>1, <1>2, <1>5 DEF ExecProcess, TypeOK
<1>7. Refers(mem', toplevel', Off(4, v), a)
  BY <1>2, <1>3, <1>6 DEF Refers
<1> QED BY <1>4, <1>7 DEF Path

LEMMA BoundKept ==
  ASSUME IInv, ActiveTables, Next, ~SetupVm, NEW v \in Half .. (NV - 1), Bound(v)
  PROVE  Bound(v)'
<1>1. PICK t \in Arena : /\ Leads(1, v, t)
                         /\ mem[t][Off(1, v)].p /\ mem[t][Off(1, v)].f \in Arena
  BY DEF Bound
<1>2. role[t] = 1
  BY <1>1, LeadsLevel DEF Levels
<1>3. Off(1, v) \in Idx
  BY HalfFacts, OffType DEF Levels
<1>4. mem'[t][Off(1, v)] = mem[t][Off(1, v)]
  BY <1>1, <1>2, <1>3, LeafKept
<1>5. Path(mem', toplevel', 1, v, t)
  <2>1. CASE ExecProcess /\ CanAlloc(1)
    BY <1>1, <2>1, PathCopied
  <2>2. CASE toplevel' = toplevel
    BY <1>1, <2>2, LeadsKept
  <2> QED BY <2>1, <2>2, NextToplevelStep DEF ExecProcess
<1> QED BY <1>1, <1>4, <1>5 DEF Bound, Leads

\* A call either goes on, begins, or is left as it is.
LEMMA NextJobStep ==
  ASSUME Next
  PROVE  MapStep \/ job'.i = 0 \/ job' = job
<1>1. ASSUME NEW by, NEW v, NEW n, NEW w, NEW u, MapallocPages(by, v, n, w, u)
      PROVE  job'.i = 0
  <2>1. CASE NewMap(by, v, arena_head, n, w, u, FALSE)
    BY <2>1 DEF NewMap
  <2>2. CASE job' = [Idle EXCEPT !.st = "failed", !.by = by, !.v = v, !.n = n]
    BY <2>2 DEF Idle
  <2> QED BY <1>1, <2>1, <2>2 DEF MapallocPages
<1>2. CASE SetupVm \/ MapHhdm \/ MapMmio
  BY <1>2 DEF SetupVm, MapHhdm, MapMmio, NewMap
<1>3. CASE \/ ActivateToplevel \/ SetupVmPanics \/ MmioMapped \/ MadtDone
           \/ RequestReturns \/ ExecProcess \/ CopySegment \/ WriteStack
  BY <1>3 DEF ActivateToplevel, SetupVmPanics, MmioMapped, MadtDone,
              RequestReturns, ExecProcess, CopySegment, WriteStack, Idle
<1>4. CASE RequestPages \/ LoadMapping \/ MapUserStack \/ RequestKernelStack
  BY <1>1, <1>4 DEF RequestPages, LoadMapping, MapUserStack, RequestKernelStack
<1> QED BY <1>2, <1>3, <1>4 DEF Next

\* The pages of a request lie in the window.
LEMMA RequestPlace ==
  ASSUME IInv, JobArgs, job.by = "request_pages"
  PROVE  /\ stage \in RequestStages /\ job.v = vm_arena_head
         /\ job.v \in Nat /\ job.n \in Nat /\ job.i \in Nat
         /\ VmBegin <= job.v /\ NewHead(job.n) = job.v + job.n
         /\ \A i \in 0 .. (job.n - 1) : job.v + i \in Half .. (NV - 1)
         /\ ~SetupVm
<1>1. /\ TypeOK /\ RequestSound /\ stage \in RequestStages /\ job.v = vm_arena_head
  BY DEF IInv, JobArgs
<1>2. job.n \in ReqSizes \union {StackPages} /\ NewHead(job.n) <= VmEnd
  BY <1>1 DEF RequestSound
<1>3. NewHead(job.n) = job.v + job.n /\ NewHead(job.n) <= VmEnd
  BY <1>1, <1>2, HeadFacts
<1>4. /\ job.v \in Nat /\ job.n \in Nat /\ job.i \in Nat /\ VmBegin <= job.v
  BY <1>1, LayoutTypes DEF TypeOK
<1>5. VmEnd <= NV - 1 /\ VmEnd \in Nat /\ VmBegin >= Half
  <2>1. VmEnd + StackPages < NV
    BY RequestAssumption
  <2> QED BY <2>1, SizeAssumption, LayoutTypes, LayoutAssumption
<1>6. ASSUME NEW i \in 0 .. (job.n - 1)
      PROVE  job.v + i \in Half .. (NV - 1)
  BY <1>3, <1>4, <1>5, LayoutTypes
<1>7. ~SetupVm
  BY <1>1 DEF SetupVm, RequestStages
<1> QED BY <1>1, <1>3, <1>4, <1>6, <1>7

\* The page that is mapped gets its entry where the processor looks for it.
LEMMA NewlyBound ==
  ASSUME IInv, JobArgs, OnPath, SetPage, job.by = "request_pages",
         NEW v, v = job.v + job.i
  PROVE  Bound(v)'
<1>1. /\ TypeOK /\ FreshFrames /\ WalkSound /\ TablesWellFormed /\ JobSound
      /\ job.st = "map" /\ walk.lvl = LeafLevel /\ Next
  BY DEF IInv, SetPage, AtLeaf, Next, MapStep
<1>2. ~job.huge /\ ArenaBegin <= job.p /\ job.p + job.n <= RamEnd
  BY <1>1, RequestPlace DEF JobArgs, RequestStages
<1>3. walk.lvl = 1 /\ V = v /\ P = job.p + job.i
  BY <1>1, <1>2 DEF LeafLevel, V, P, JobSpan, TypeOK
<1>4. Leads(1, v, walk.tbl) /\ toplevel' = toplevel
  BY <1>1, <1>3 DEF OnPath, SetPage
<1>5. Path(mem', toplevel', 1, v, walk.tbl)
  BY <1>1, <1>4, LeadsKept
<1>6. mem'[walk.tbl][Off(1, v)] = NewPage /\ walk.tbl \in Arena
  BY <1>1, <1>3, WriteFacts
<1>7. P \in Arena
  <2>1. job.p \in Nat /\ job.n \in Nat /\ job.i \in Nat /\ job.i < job.n
    BY <1>1 DEF JobSound, TypeOK
  <2> QED BY <1>2, <1>3, <2>1, ArenaAssumption DEF Arena
<1>8. mem'[walk.tbl][Off(1, v)].p /\ mem'[walk.tbl][Off(1, v)].f \in Arena
  BY <1>6, <1>7 DEF NewPage
<1> QED BY <1>5, <1>6, <1>8 DEF Bound, Leads

LEMMA RequestBoundStep ==
  ASSUME IInv, JobArgs, OnPath, ActiveTables, RequestBound, Next
  PROVE  RequestBound'
<1>1. TypeOK /\ JobSound
  BY DEF IInv
<1>2. CASE job'.i = 0
  <2>1. ASSUME NEW i \in 0 .. (job'.i - 1) PROVE FALSE
    BY <1>2, <2>1
  <2> QED BY <2>1 DEF RequestBound
<1>3. ASSUME job.by = "request_pages", job.st \in {"map", "ok"},
             NEW i \in 0 .. (job.i - 1)
      PROVE  Bound(job.v + i) /\ job.v + i \in Half .. (NV - 1) /\ ~SetupVm
  <2>1. Bound(job.v + i)
    BY <1>3 DEF RequestBound
  <2>2. job.i <= job.n /\ job.i \in Nat /\ job.n \in Nat
    <3>1. job.i \in Nat /\ job.n \in Nat
      BY <1>1 DEF TypeOK
    <3> QED BY <1>1, <1>3, <3>1 DEF JobSound, JobArgs
  <2>3. i \in 0 .. (job.n - 1)
    BY <2>2
  <2> QED BY <1>3, <2>1, <2>3, RequestPlace
<1>4. ASSUME job.by = "request_pages", job.st \in {"map", "ok"},
             NEW i \in 0 .. (job.i - 1), NEW v, v = job.v + i
      PROVE  Bound(v)'
  <2>1. Bound(v) /\ v \in Half .. (NV - 1) /\ ~SetupVm
    BY <1>3, <1>4
  <2> QED BY <2>1, BoundKept
<1>5. CASE MapStep
  <2>1. /\ job.st = "map" /\ job'.by = job.by /\ job'.v = job.v
        /\ SetPage \/ job'.i = job.i
    BY <1>1, <1>5, MapStepFacts
  <2>2. SUFFICES ASSUME job.by = "request_pages", NEW i \in 0 .. (job'.i - 1)
                 PROVE  \E v : v = job.v + i /\ Bound(v)'
    BY <2>1 DEF RequestBound
  <2>3. CASE i \in 0 .. (job.i - 1)
    BY <1>4, <2>1, <2>2, <2>3
  <2>4. CASE i \notin 0 .. (job.i - 1)
    <3>1. SetPage
      BY <2>1, <2>4
    <3>2. job'.i = job.i + 1 /\ job.i \in Nat
      BY <1>1, <3>1 DEF SetPage, TypeOK
    <3>3. i = job.i
      BY <2>4, <3>2
    <3> QED BY <2>2, <3>1, <3>3, NewlyBound
  <2> QED BY <2>3, <2>4
<1>6. CASE job' = job
  <2>1. SUFFICES ASSUME job.by = "request_pages", job.st \in {"map", "ok"},
                        NEW i \in 0 .. (job.i - 1)
                 PROVE  \E v : v = job.v + i /\ Bound(v)'
    BY <1>6 DEF RequestBound
  <2> QED BY <1>4, <2>1
<1> QED BY <1>2, <1>5, <1>6, NextJobStep

LEMMA NextGrantedStep ==
  Next => RequestReturns \/ UNCHANGED <<granted, vm_arena_head>>
BY DEF Next, MapStep, WalkCached, WalkExisting, WalkNew, WalkFails, SetPage,
       PageInUse, SetupVm, MapHhdm, ActivateToplevel, SetupVmPanics, MapMmio,
       MmioMapped, MadtDone, RequestPages, ExecProcess, LoadMapping,
       CopySegment, MapUserStack, WriteStack, RequestKernelStack

LEMMA GrantedBoundStep ==
  ASSUME IInv, JobArgs, ActiveTables, GrantedBound, RequestBound, Next
  PROVE  GrantedBound'
<1>1. TypeOK /\ RequestSound
  BY DEF IInv
<1>2. /\ vm_arena_head \in Nat /\ vm_arena_head <= VmEnd /\ VmEnd < NV
      /\ VmBegin >= Half /\ VmBegin \in Nat /\ VmEnd \in Nat
      /\ \A g \in granted : g.v \in Nat /\ g.n \in Nat
  <2>1. VmEnd + StackPages < NV
    BY RequestAssumption
  <2>2. VmBegin \in Nat /\ VmEnd \in Nat /\ VmBegin >= Half /\ VmEnd < NV
    BY <2>1, SizeAssumption, LayoutTypes, LayoutAssumption
  <2>3. vm_arena_head \in VmBegin .. VmEnd /\ granted \subseteq [v : Nat, n : Nat]
    BY <1>1 DEF TypeOK
  <2> QED BY <2>2, <2>3
<1>3. ASSUME NEW g \in granted
      PROVE  /\ VmBegin <= g.v /\ g.v + g.n <= vm_arena_head
             /\ \A v \in PagesOf(g) : Bound(v)'
  <2>1. VmBegin <= g.v /\ g.v + g.n <= vm_arena_head
    BY DEF GrantedBound
  <2>2. ~SetupVm
    BY DEF ActiveTables, SetupVm
  <2>3. ASSUME NEW v \in PagesOf(g)
        PROVE  Bound(v)'
    <3>1. Bound(v)
      BY DEF GrantedBound
    <3>2. v \in Half .. (NV - 1)
      BY <1>2, <2>1, LayoutTypes DEF PagesOf
    <3> QED BY <2>2, <3>1, <3>2, BoundKept
  <2> QED BY <2>1, <2>3
<1>4. CASE UNCHANGED <<granted, vm_arena_head>>
  <2>1. \A g, h \in granted : g = h \/ PagesOf(g) \intersect PagesOf(h) = {}
    BY DEF GrantedBound
  <2> QED BY <1>3, <1>4, <2>1 DEF GrantedBound, PagesOf
<1>5. CASE RequestReturns
  <2> DEFINE g1 == [v |-> job.v, n |-> job.n]
  <2>1. /\ job.by = "request_pages" /\ vm_arena_head' = NewHead(job.n)
        /\ granted' = granted \/ (granted' = granted \union {g1} /\ job.st = "ok")
    BY <1>5 DEF RequestReturns, Succeeded
  <2>2. /\ job.v = vm_arena_head /\ job.v \in Nat /\ job.n \in Nat
        /\ VmBegin <= job.v /\ vm_arena_head' = job.v + job.n
    BY <2>1, RequestPlace
  <2>3. ASSUME NEW g \in granted
        PROVE  /\ VmBegin <= g.v /\ g.v + g.n <= vm_arena_head'
               /\ \A v \in PagesOf(g) : Bound(v)'
               /\ PagesOf(g) \intersect PagesOf(g1) = {}
    <3>1. g.v \in Nat /\ g.n \in Nat /\ g.v + g.n <= job.v
      BY <1>2, <1>3, <2>2
    <3> QED BY <1>3, <2>2, <3>1 DEF PagesOf
  <2>4. ASSUME job.st = "ok", NEW v \in PagesOf(g1)
        PROVE  Bound(v)'
    <3>1. job.i = job.n
      BY <2>4 DEF JobArgs
    <3>2. v - job.v \in 0 .. (job.i - 1) /\ v = job.v + (v - job.v)
      BY <2>2, <2>4, <3>1 DEF PagesOf
    <3>3. Bound(job.v + (v - job.v))
      BY <2>1, <2>4, <3>2 DEF RequestBound
    <3>4. /\ job.v + (v - job.v) \in Half .. (NV - 1) /\ ~SetupVm
      BY <2>1, <3>1, <3>2, RequestPlace
    <3> QED BY <3>2, <3>3, <3>4, BoundKept
  <2>5. \A g, h \in granted : g = h \/ PagesOf(g) \intersect PagesOf(h) = {}
    BY DEF GrantedBound
  <2>6. CASE granted' = granted
    BY <2>3, <2>5, <2>6 DEF GrantedBound, PagesOf
  <2>7. CASE granted' = granted \union {g1} /\ job.st = "ok"
    <3>1. ASSUME NEW g \in granted'
          PROVE  /\ VmBegin <= g.v /\ g.v + g.n <= vm_arena_head'
                 /\ \A v \in PagesOf(g) : Bound(v)'
      <4>1. CASE g \in granted
        BY <2>3, <4>1
      <4>2. CASE g = g1
        BY <2>2, <2>4, <2>7, <4>2
      <4> QED BY <2>7, <3>1, <4>1, <4>2
    <3>2. ASSUME NEW g \in granted', NEW h \in granted'
          PROVE  g = h \/ PagesOf(g) \intersect PagesOf(h) = {}
      <4>1. CASE g \in granted /\ h \in granted
        BY <2>5, <4>1
      <4>2. CASE g \in granted /\ h = g1
        BY <2>3, <4>2
      <4>3. CASE g = g1 /\ h \in granted
        BY <2>3, <4>3
      <4>4. CASE g = g1 /\ h = g1
        BY <4>4
      <4> QED BY <2>7, <3>2, <4>1, <4>2, <4>3, <4>4
    <3> QED BY <3>1, <3>2 DEF GrantedBound, PagesOf
  <2> QED BY <2>1, <2>6, <2>7
<1> QED BY <1>4, <1>5, NextGrantedStep

-----------------------------------------------------------------------------
LEMMA SpaceInit ==
  ASSUME Init
  PROVE  SpaceInv
<1>1. IInv
  BY InitIInv
<1>2. /\ stage = "setup_vm" /\ toplevel = NULL /\ cr3 = NULL /\ granted = {}
      /\ job.st = "idle" /\ job.by = "map_pages"
      /\ \A l \in 2 .. 4 : cache[l].tbl = NULL
  BY DEF Init, Idle
<1>3. CacheTop /\ CacheLinks /\ CachesOfRegisters
  BY <1>2 DEF CacheTop, CacheLinks, Filled, CachesOfRegisters
<1>4. OnPath /\ JobArgs /\ ActiveTables /\ GrantedBound /\ RequestBound
  BY <1>2 DEF OnPath, JobArgs, ActiveTables, GrantedBound, RequestBound
<1> QED BY <1>1, <1>3, <1>4 DEF SpaceInv

LEMMA SpaceStutters ==
  ASSUME SpaceInv, UNCHANGED vars
  PROVE  SpaceInv'
<1>1. IInv'
  BY StutterIInv DEF SpaceInv
<1> USE DEF vars
<1>2. CacheTop' /\ CachesOfRegisters'
  BY DEF SpaceInv, CacheTop, CachesOfRegisters, Child, Leads
<1>3. CacheLinks'
  BY DEF SpaceInv, CacheLinks, Trusted, CanAlloc, Filled, Child
<1>4. OnPath'
  BY DEF SpaceInv, OnPath, V, JobSpan, Leads
<1>5. JobArgs' /\ ActiveTables'
  BY DEF SpaceInv, JobArgs, ActiveTables
<1>6. GrantedBound'
  BY DEF SpaceInv, GrantedBound, Bound, Leads, PagesOf
<1>7. RequestBound'
  BY DEF SpaceInv, RequestBound, Bound, Leads
<1> QED BY <1>1, <1>2, <1>3, <1>4, <1>5, <1>6, <1>7 DEF SpaceInv

LEMMA SpaceNext ==
  ASSUME SpaceInv, Next
  PROVE  SpaceInv'
<1>1. /\ IInv /\ CacheTop /\ CacheLinks /\ CachesOfRegisters /\ OnPath /\ JobArgs
      /\ ActiveTables /\ GrantedBound /\ RequestBound
      /\ cr3 # NULL => cr3 = toplevel
  BY DEF SpaceInv, ActiveTables
<1>2. IInv'
  BY <1>1, NextIInv
<1>3. CacheTop' /\ CacheLinks' /\ CachesOfRegisters'
  BY <1>1, CacheTopStep, CacheLinksStep, CachesOfRegistersStep
<1>4. OnPath' /\ JobArgs'
  BY <1>1, OnPathStep, JobArgsStep
<1>5. ActiveTables' /\ GrantedBound' /\ RequestBound'
  BY <1>1, ActiveTablesStep, GrantedBoundStep, RequestBoundStep
<1> QED BY <1>2, <1>3, <1>4, <1>5 DEF SpaceInv

(***************************************************************************)
(* The inductive invariant: whatever the path caches hold, a walk is on    *)
(* the path of its page (map_pages.c:46-99), and what request_pages        *)
(* granted has its entries on the paths.                                   *)
(***************************************************************************)
THEOREM SpaceInductive == Spec => []SpaceInv
<1>1. Init => SpaceInv
  BY SpaceInit
<1>2. SpaceInv /\ [Next]_vars => SpaceInv'
  BY SpaceNext, SpaceStutters
<1> QED BY <1>1, <1>2, PTL DEF Spec

(***************************************************************************)
(* What request_pages gave out stays usable, for every size of the tables, *)
(* every arena and every program: each page of each successful request is  *)
(* mapped to a frame of the arena in the space in use, also after          *)
(* exec_process changed it, and no two requests overlap                    *)
(* (request_pages.c:10-22, map_pages.c:46-99, exec_process.c:34).          *)
(***************************************************************************)
THEOREM WhatIsGrantedStays == Spec => []GrantedStayMapped
<1>1. SpaceInv => GrantedStayMapped
  <2> SUFFICES ASSUME SpaceInv PROVE GrantedStayMapped
    OBVIOUS
  <2>1. ActiveTables /\ GrantedBound
    BY DEF SpaceInv
  <2>2. ASSUME NEW g \in granted, NEW v \in PagesOf(g)
        PROVE  Mapped(cr3, v) /\ FrameOf(cr3, v) \in Arena
    <3>1. cr3 = toplevel /\ Bound(v)
      BY <2>1 DEF ActiveTables, GrantedBound
    <3>2. PICK t \in Arena : /\ Leads(1, v, t)
                             /\ mem[t][Off(1, v)].p /\ mem[t][Off(1, v)].f \in Arena
      BY <3>1 DEF Bound
    <3>3. PICK a, b \in Arena :
            /\ Refers(mem, toplevel, Off(4, v), a) /\ Refers(mem, a, Off(3, v), b)
            /\ Refers(mem, b, Off(2, v), t)
      BY <3>2 DEF Leads, Path
    <3>4. /\ Pml4e(cr3, v).p /\ Pml4e(cr3, v).f = a
          /\ Pdpte(cr3, v).p /\ ~Pdpte(cr3, v).ps /\ Pdpte(cr3, v).f = b
          /\ Pde(cr3, v).p /\ Pde(cr3, v).f = t
      BY <3>1, <3>3 DEF Refers, ValidTable, Pml4e, Pdpte, Pde
    <3> QED BY <3>2, <3>4 DEF Mapped, FrameOf, Pte
  <2>3. \A g, h \in granted : g = h \/ PagesOf(g) \intersect PagesOf(h) = {}
    BY <2>1 DEF GrantedBound
  <2> QED BY <2>2, <2>3 DEF GrantedStayMapped
<1> QED BY <1>1, SpaceInductive, PTL

-----------------------------------------------------------------------------
(***************************************************************************)
(* The user half.  On the path of a page of it, every entry was made for   *)
(* user code, and for writing if the stack's pages share the PML4's entry. *)
(***************************************************************************)
Low == 0 .. (Half - 1)
UserStages == {"load", "map_stack", "args", "kernel_stack", "user"}
StackSlots == {Off(4, v) : v \in StackTouched(prog.use)}

UserPaths == \A v \in Low, l \in Levels : \A t :
  Leads(l, v, t) /\ mem[t][Off(l, v)].p =>
    /\ mem[t][Off(l, v)].u /\ ~mem[t][Off(l, v)].ps
    /\ stage \in UserStages /\ Off(4, v) \in StackSlots => mem[t][Off(l, v)].w

(***************************************************************************)
(* A segment that is not writable does not reach the stack's part.         *)
(***************************************************************************)
ProgramJob ==
  job.st = "map" /\ stage \in {"load", "map_stack"} =>
    job.w \/ \A i \in 0 .. (job.n - 1) : Off(4, job.v + i) \notin StackSlots

(***************************************************************************)
(* The segments before the k-th and, in its turn, the stack are mapped     *)
(* where the kernel wrote them.                                            *)
(***************************************************************************)
Entered(v) == \E t \in Arena : Leads(1, v, t) /\ mem[t][Off(1, v)].p

ImageMapped ==
  stage \in UserStages =>
    /\ prog \in Programs
    /\ \A j \in DOMAIN prog.segs : j < k =>
         \A v \in SegTouched(prog.segs[j]) : Entered(v)
    /\ stage # "load" => k > Len(prog.segs)
    /\ stage \in {"args", "kernel_stack", "user"} =>
         \A v \in StackTouched(prog.use) : Entered(v)

LEMMA StageUser ==
  ASSUME Next
  PROVE  /\ stage' \in UserStages => stage \in UserStages \/ ExecProcess
         /\ ExecProcess \/ UNCHANGED prog
BY DEF Next, MapStep, WalkCached, WalkExisting, WalkNew, WalkFails, SetPage,
       PageInUse, SetupVm, MapHhdm, ActivateToplevel, SetupVmPanics, MapMmio,
       MmioMapped, MadtDone, RequestPages, RequestReturns, ExecProcess,
       LoadMapping, CopySegment, MapUserStack, WriteStack,
       RequestKernelStack, UserStages

\* What a step refers to, it referred to before, but for a new table.
LEMMA ReferBack ==
  ASSUME IInv, WalkNew \/ SetPage, NEW t, NEW o, NEW c, Refers(mem', t, o, c),
         role[t] # 1
  PROVE  Child(t, o, c) \/ (WalkNew /\ c = arena_head)
<1>1. /\ TypeOK /\ FreshFrames /\ WalkSound /\ TablesWellFormed
      /\ t \in Arena /\ o \in Idx /\ ValidTable(mem'[t][o]) /\ mem'[t][o].f = c
  BY DEF IInv, Refers
<1>2. CASE mem'[t][o] = mem[t][o]
  BY <1>1, <1>2 DEF Child, Refers
<1>3. CASE mem'[t][o] # mem[t][o]
  <2>1. t = walk.tbl /\ o = Off(walk.lvl, V)
    BY <1>1, <1>3, WriteFacts
  <2>2. CASE WalkNew
    BY <1>1, <2>1, <2>2, WriteFacts DEF NewTable
  <2>3. CASE SetPage
    <3>1. mem'[t][o] = NewPage /\ walk.lvl = LeafLevel /\ role[t] = walk.lvl
      BY <1>1, <2>1, <2>3, WriteFacts
    <3>2. ~job.huge
      BY <1>1, <3>1 DEF ValidTable, NewPage
    <3> QED BY <3>1, <3>2 DEF LeafLevel
  <2> QED BY <2>2, <2>3
<1> QED BY <1>2, <1>3

\* And that one is blank.
LEMMA NewIsBlank ==
  ASSUME IInv, WalkNew, NEW o \in Idx
  PROVE  arena_head \in Arena /\ role[arena_head] = Free /\ ~mem'[arena_head][o].p
<1>1. TypeOK /\ FreshFrames /\ WalkSound /\ TablesWellFormed
  BY DEF IInv
<1>2. arena_head \in Arena /\ role[arena_head] = Free
  BY <1>1, AllocOne DEF WalkNew, FreshFrames, TypeOK
<1>3. mem[arena_head][o] = Absent /\ arena_head # walk.tbl
  BY <1>1, <1>2, WriteFacts DEF FreshFrames, Free, Levels
<1>4. mem'[arena_head][o] = Absent
  BY <1>1, <1>2, <1>3, WriteFacts
<1> QED BY <1>2, <1>4 DEF Absent

LEMMA PathBack ==
  ASSUME IInv, WalkNew \/ SetPage, toplevel \in Arena, NEW l \in Levels, NEW v,
         NEW t, Path(mem', toplevel, l, v, t)
  PROVE  Leads(l, v, t) \/ (WalkNew /\ t = arena_head)
<1>1. role[toplevel] = 4
  BY ArenaAssumption DEF IInv, WalkSound, Arena, NULL
<1>2. ASSUME NEW m \in 2 .. 4, NEW a, NEW c, Leads(m, v, a),
             Refers(mem', a, Off(m, v), c)
      PROVE  Leads(m - 1, v, c) \/ (WalkNew /\ c = arena_head)
  <2>1. role[a] # 1
    BY <1>2, LeadsLevel DEF Levels
  <2>2. CASE Child(a, Off(m, v), c)
    BY <1>2, <2>2, PathDown DEF Child, Leads
  <2> QED BY <1>2, <2>1, <2>2, ReferBack
<1>3. ASSUME WalkNew, NEW o, NEW c, Refers(mem', arena_head, o, c)
      PROVE  FALSE
  BY <1>3, NewIsBlank DEF Refers, ValidTable
<1>4. Leads(4, v, toplevel)
  BY DEF Leads, Path
<1>5. CASE l = 4
  BY <1>4, <1>5 DEF Leads, Path
<1>6. CASE l = 3
  <2>1. Refers(mem', toplevel, Off(4, v), t)
    BY <1>6 DEF Path
  <2>2. Leads(4 - 1, v, t) \/ (WalkNew /\ t = arena_head)
    BY <1>2, <1>4, <2>1
  <2> QED BY <1>6, <2>2
<1>7. CASE l = 2
  <2>1. PICK a \in Arena : /\ Refers(mem', toplevel, Off(4, v), a)
                           /\ Refers(mem', a, Off(3, v), t)
    BY <1>7 DEF Path
  <2>2. Leads(4 - 1, v, a)
    BY <1>2, <1>3, <1>4, <2>1
  <2>3. Leads(3 - 1, v, t) \/ (WalkNew /\ t = arena_head)
    BY <1>2, <2>1, <2>2
  <2> QED BY <1>7, <2>3
<1>8. CASE l = 1
  <2>1. PICK a, b \in Arena :
          /\ Refers(mem', toplevel, Off(4, v), a) /\ Refers(mem', a, Off(3, v), b)
          /\ Refers(mem', b, Off(2, v), t)
    BY <1>8 DEF Path
  <2>2. Leads(4 - 1, v, a)
    BY <1>2, <1>3, <1>4, <2>1
  <2>3. Leads(3 - 1, v, b)
    BY <1>2, <1>3, <2>1, <2>2
  <2>4. Leads(2 - 1, v, t) \/ (WalkNew /\ t = arena_head)
    BY <1>2, <2>1, <2>3
  <2> QED BY <1>8, <2>4
<1> QED BY <1>5, <1>6, <1>7, <1>8 DEF Levels

\* A call that maps pages of the user half does it for the program.
LEMMA LowJob ==
  ASSUME IInv, JobArgs, ProgramJob, job.st = "map", NEW v \in Low,
         Off(4, v) = Off(4, V)
  PROVE  /\ stage \in {"load", "map_stack"} /\ job.u /\ ~job.huge
         /\ Off(4, v) \in StackSlots => job.w
<1>1. /\ V \in Nat /\ V < NV
      /\ stage \in Early \union RequestStages => V >= Half
      /\ ~job.huge => V = job.v + job.i
  BY PageFacts
<1>2. v \in Nat /\ v < NV /\ ~(v >= Half)
  BY HalfFacts DEF Low
<1>3. ~(V >= Half)
  BY <1>1, <1>2, OffHalf
<1>4. stage \in {"load", "map_stack"}
  BY <1>1, <1>3 DEF Early, RequestStages, IInv, TypeOK, Stages, StageSound
<1>5. job.u /\ ~job.huge
  BY <1>4 DEF JobArgs
<1>6. job.i \in 0 .. (job.n - 1)
  BY DEF IInv, JobSound, TypeOK
<1>7. Off(4, v) = Off(4, job.v + job.i)
  BY <1>1, <1>5
<1> QED BY <1>4, <1>5, <1>6, <1>7 DEF ProgramJob

LEMMA UserPathsStep ==
  ASSUME IInv, OnPath, JobArgs, ProgramJob, ActiveTables, UserPaths, Next
  PROVE  UserPaths'
<1>1. /\ TypeOK /\ FreshFrames /\ WalkSound /\ TablesWellFormed /\ StageSound
  BY DEF IInv
<1> SUFFICES ASSUME NEW v \in Low, NEW l \in Levels, NEW t,
                    Path(mem', toplevel', l, v, t), mem'[t][Off(l, v)].p
             PROVE  /\ mem'[t][Off(l, v)].u /\ ~mem'[t][Off(l, v)].ps
                    /\ stage' \in UserStages /\ Off(4, v) \in StackSlots' =>
                         mem'[t][Off(l, v)].w
  BY DEF UserPaths, Leads
<1>2. v \in Nat /\ v < NV /\ ~(v >= Half) /\ Off(l, v) \in Idx /\ Off(4, v) \in Idx
        /\ ~(Off(4, v) >= L \div 2)
  BY HalfFacts, OffType, OffHalf DEF Low, Levels
<1>3. ASSUME Leads(l, v, t), mem'[t][Off(l, v)] = mem[t][Off(l, v)],
             ~ExecProcess
      PROVE  /\ mem'[t][Off(l, v)].u /\ ~mem'[t][Off(l, v)].ps
             /\ stage' \in UserStages /\ Off(4, v) \in StackSlots' =>
                  mem'[t][Off(l, v)].w
  <2>1. prog' = prog /\ (stage' \in UserStages => stage \in UserStages)
    BY <1>3, StageUser
  <2> QED BY <1>3, <2>1 DEF UserPaths, StackSlots
<1>4. CASE WalkNew \/ SetPage
  <2>1. /\ toplevel' = toplevel /\ stage' = stage /\ prog' = prog
        /\ toplevel \in Arena /\ job.st = "map" /\ ~ExecProcess
    BY <1>1, <1>4 DEF WalkNew, SetPage, Walking, AtLeaf, StageSound, TypeOK,
                      ExecProcess
  <2>2. Leads(l, v, t)
    BY <1>2, <1>4, <2>1, PathBack, NewIsBlank
  <2>3. t \in Arena /\ role[t] = l
    BY <2>2, LeadsLevel
  <2>4. CASE mem'[t][Off(l, v)] = mem[t][Off(l, v)]
    BY <1>3, <2>1, <2>2, <2>4
  <2>5. CASE mem'[t][Off(l, v)] # mem[t][Off(l, v)]
    <3>1. t = walk.tbl /\ Off(l, v) = Off(walk.lvl, V) /\ l = walk.lvl
      BY <1>1, <1>2, <1>4, <2>3, <2>5, WriteFacts
    <3>2. Leads(l, V, t)
      BY <2>1, <3>1 DEF OnPath
    <3>3. SameAbove(l, v, V)
      BY <2>2, <3>2, LeadsApart
    <3>4. Off(4, v) = Off(4, V)
      BY <3>1, <3>3 DEF SameAbove, Levels
    <3>5. /\ job.u /\ ~job.huge
          /\ Off(4, v) \in StackSlots => job.w
      BY <2>1, <3>4, LowJob
    <3>6. mem'[t][Off(l, v)] \in {NewTable(arena_head), NewPage}
      BY <1>1, <1>4, <3>1, WriteFacts
    <3> QED BY <2>1, <3>5, <3>6 DEF NewTable, NewPage, StackSlots
  <2> QED BY <2>4, <2>5
<1>5. CASE ExecProcess /\ CanAlloc(1)
  <2>1. arena_head \in Arena /\ toplevel' = arena_head
    BY <1>1, <1>5, AllocOne DEF ExecProcess
  <2>2. mem'[arena_head][Off(4, v)] = Absent
    BY SMTT(30), <1>1, <1>2, <1>5, <2>1 DEF ExecProcess, TypeOK, FreshFrames
  <2>3. ~Refers(mem', toplevel', Off(4, v), t)
        /\ \A a : ~Refers(mem', toplevel', Off(4, v), a)
    BY <2>1, <2>2 DEF Refers, ValidTable, Absent
  <2>4. l = 4 /\ t = arena_head
    BY <2>1, <2>3 DEF Path
  <2> QED BY <2>2, <2>4 DEF Absent
<1>6. CASE ExecProcess /\ ~CanAlloc(1)
  <2>1. UNCHANGED <<mem, toplevel>> /\ stage' \notin UserStages
    BY <1>6 DEF ExecProcess, UserStages
  <2> QED BY <2>1 DEF UserPaths, Leads
<1>7. CASE SetupVm /\ toplevel' # toplevel
  <2>1. arena_head \in Arena /\ toplevel' = arena_head /\ mem' = mem
    BY <1>1, <1>7, AllocOne DEF SetupVm
  <2>2. \A i \in Idx : mem'[arena_head][i] = Absent
    BY <1>1, <2>1 DEF FreshFrames, TypeOK
  <2>3. \A a : ~Refers(mem', toplevel', Off(4, v), a)
    BY <2>1, <2>2 DEF Refers, ValidTable, Absent
  <2>4. l = 4 /\ t = arena_head
    BY <2>1, <2>3 DEF Path
  <2> QED BY <1>2, <2>2, <2>4 DEF Absent
<1>8. CASE UNCHANGED <<mem, toplevel>> /\ ~ExecProcess
  BY <1>3, <1>8 DEF Leads
<1> QED BY <1>4, <1>5, <1>6, <1>7, <1>8, NextMemStep, NextToplevelStep
        DEF SetupVm

LEMMA ProgramJobStep ==
  ASSUME IInv, JobArgs, ProgramJob, ImageMapped, Next
  PROVE  ProgramJob'
<1>1. TypeOK /\ StageSound
  BY DEF IInv
<1> SUFFICES ASSUME job'.st = "map", stage' \in {"load", "map_stack"}
             PROVE  job'.w \/ \A i \in 0 .. (job'.n - 1) :
                      Off(4, job'.v + i) \notin StackSlots'
  BY DEF ProgramJob
<1>2. CASE MapStep
  <2>1. /\ job'.v = job.v /\ job'.n = job.n /\ job'.w = job.w
        /\ stage' = stage /\ prog' = prog /\ job.st = "map"
    BY <1>1, <1>2, MapStepFacts
  <2> QED BY <2>1 DEF ProgramJob, StackSlots
<1>3. CASE LoadMapping
  <2> DEFINE s == prog.segs[k]
  <2>1. prog \in Programs /\ prog.segs \in Seq([begin : Nat, end : Nat, w : BOOLEAN])
    BY <1>1, <1>3, ProgramAssumption DEF LoadMapping, StageSound
  <2>2. k \in DOMAIN prog.segs /\ prog' = prog
    BY <1>1, <1>3, <2>1 DEF LoadMapping, TypeOK
  <2>3. MapallocPages("map_pages", FloorPage(s.begin), SegPages(s), s.w, TRUE)
    BY <1>3 DEF LoadMapping
  <2>4. job'.v = FloorPage(s.begin) /\ job'.n = SegPages(s) /\ job'.w = s.w
    <3>1. NewMap("map_pages", FloorPage(s.begin), arena_head, SegPages(s), s.w,
                 TRUE, FALSE)
      BY <2>3 DEF MapallocPages, Idle
    <3> QED BY <3>1 DEF NewMap
  <2>5. FloorPage(s.begin) \in Nat /\ SegPages(s) \in Nat
    BY <2>1, <2>2, SegFacts
  <2>6. \A i \in 0 .. (SegPages(s) - 1) : FloorPage(s.begin) + i \in SegMapped(s)
    BY <2>5 DEF SegMapped
  <2>7. s.w \/ \A x \in SegMapped(s), y \in StackTouched(prog.use) :
                 Off(4, x) # Off(4, y)
    BY <2>1, <2>2, StackAssumption
  <2> HIDE DEF s
  <2> QED BY <2>2, <2>4, <2>6, <2>7 DEF StackSlots
<1>4. CASE MapUserStack
  <2>1. NewMap("map_pages", StackAt(prog.use), arena_head, CeilPages(prog.use),
               TRUE, TRUE, FALSE)
    BY <1>4 DEF MapUserStack, MapallocPages, Idle
  <2> QED BY <2>1 DEF NewMap
<1>5. CASE SetupVm \/ MapHhdm \/ MapMmio \/ RequestPages \/ RequestKernelStack
  BY <1>1, <1>5 DEF SetupVm, MapHhdm, MapMmio, RequestPages, RequestKernelStack
<1>6. CASE \/ ActivateToplevel \/ SetupVmPanics \/ MmioMapped \/ MadtDone
           \/ RequestReturns \/ ExecProcess
  BY <1>1, <1>6 DEF ActivateToplevel, SetupVmPanics, MmioMapped, MadtDone,
                    RequestReturns, ExecProcess, Idle
<1>7. CASE CopySegment \/ WriteStack
  BY <1>7 DEF CopySegment, WriteStack, Idle
<1> QED BY <1>2, <1>3, <1>4, <1>5, <1>6, <1>7 DEF Next

\* Of a page of the user half, a mapping the processor finds is in a page
\* table, where it stays.
LEMMA LowEntered ==
  ASSUME IInv, UserPaths, toplevel \in Arena, NEW v \in Low, Mapped(toplevel, v)
  PROVE  Entered(v)
<1> DEFINE a == Pml4e(toplevel, v).f
           b == Pdpte(toplevel, v).f
           c == Pde(toplevel, v).f
<1>1. \A l \in Levels : Off(l, v) \in Idx
  BY HalfFacts, OffType DEF Low
<1>2. Leads(4, v, toplevel)
  BY DEF Leads, Path
<1>3. Refers(mem, toplevel, Off(4, v), a)
  BY <1>1, <1>2 DEF UserPaths, Mapped, Pml4e, Refers, ValidTable, Levels
<1>4. Leads(4 - 1, v, a)
  BY <1>2, <1>3, PathDown DEF Leads
<1> HIDE DEF a
<1>5. Pdpte(toplevel, v) = mem[a][Off(3, v)] /\ a \in Arena
  BY <1>4, LeadsLevel DEF Pdpte, a, Levels
<1>6. Refers(mem, a, Off(3, v), b)
  BY <1>1, <1>4, <1>5 DEF UserPaths, Mapped, Refers, ValidTable, Levels
<1>7. Leads(3 - 1, v, b) /\ Pde(toplevel, v).p /\ Pte(toplevel, v).p
  <2>1. ~Pdpte(toplevel, v).ps
    BY <1>5, <1>6 DEF Refers, ValidTable
  <2> QED BY <1>4, <1>6, <2>1, PathDown DEF Leads, Mapped
<1> HIDE DEF b
<1>8. Pde(toplevel, v) = mem[b][Off(2, v)] /\ b \in Arena
  BY <1>7, LeadsLevel DEF Pde, b, Levels
<1>9. Refers(mem, b, Off(2, v), c)
  BY <1>1, <1>7, <1>8 DEF UserPaths, Refers, ValidTable, Levels
<1>10. Leads(2 - 1, v, c)
  BY <1>7, <1>9, PathDown DEF Leads
<1> HIDE DEF c
<1>11. Pte(toplevel, v) = mem[c][Off(1, v)] /\ c \in Arena
  BY <1>10, LeadsLevel DEF Pte, c, Levels
<1> QED BY <1>7, <1>10, <1>11 DEF Entered

LEMMA EnteredStays ==
  ASSUME IInv, Next, ~SetupVm, ~ExecProcess, NEW v \in Low, Entered(v)
  PROVE  Entered(v)'
<1>1. PICK t \in Arena : Leads(1, v, t) /\ mem[t][Off(1, v)].p
  BY DEF Entered
<1>2. role[t] = 1 /\ Off(1, v) \in Idx
  BY <1>1, LeadsLevel, HalfFacts, OffType DEF Levels, Low
<1>3. mem'[t][Off(1, v)] = mem[t][Off(1, v)]
  BY <1>1, <1>2, LeafKept
<1>4. Path(mem', toplevel', 1, v, t)
  BY <1>1, LeadsKept, NextToplevelStep
<1> QED BY <1>1, <1>3, <1>4 DEF Entered, Leads

\* The pages of the image are below the middle.
LEMMA ImageLow ==
  ASSUME NEW g \in Programs
  PROVE  /\ g.segs \in Seq([begin : Nat, end : Nat, w : BOOLEAN])
         /\ \A j \in DOMAIN g.segs : SegTouched(g.segs[j]) \subseteq Low
         /\ StackTouched(g.use) \subseteq Low
<1>1. g.segs \in Seq([begin : Nat, end : Nat, w : BOOLEAN])
  BY ProgramAssumption
<1>2. PageSize \in Nat /\ PageSize > 0 /\ Half \in Nat /\ Half * PageSize \in Nat
  BY SizeAssumption, HalfFacts
<1>3. ASSUME NEW x \in Nat, x < Half * PageSize
      PROVE  FloorPage(x) \in Nat /\ FloorPage(x) < Half
  BY <1>2, <1>3, DivType, DivBelow DEF FloorPage
<1>4. ASSUME NEW j \in DOMAIN g.segs
      PROVE  SegTouched(g.segs[j]) \subseteq Low
  <2> DEFINE s == g.segs[j]
  <2>1. s.begin \in Nat /\ s.end \in Nat /\ s.begin <= s.end /\ s.end <= Half * PageSize
    <3>1. j \in 1 .. Len(g.segs)
      BY <1>1
    <3>2. s \in [begin : Nat, end : Nat, w : BOOLEAN]
      BY <1>1, <3>1, ElementOfSeq
    <3> QED BY <3>2, ProgramAssumption
  <2> HIDE DEF s
  <2>2. CASE s.end = s.begin
    BY <2>2 DEF SegTouched, s
  <2>3. CASE s.end # s.begin
    <3>1. s.end - 1 \in Nat /\ s.end - 1 < Half * PageSize /\ s.begin < Half * PageSize
      BY <1>2, <2>1, <2>3
    <3>2. /\ FloorPage(s.begin) \in Nat /\ FloorPage(s.end - 1) \in Nat
          /\ FloorPage(s.end - 1) < Half
      BY <1>3, <2>1, <3>1
    <3>3. FloorPage(s.begin) .. FloorPage(s.end - 1) \subseteq Low
      BY <1>2, <3>2 DEF Low
    <3> QED BY <2>3, <3>3 DEF SegTouched, s
  <2> QED BY <2>2, <2>3
<1>5. StackTouched(g.use) \subseteq Low
  <2>1. /\ g.use \in 1 .. UserStackTop /\ UserStackTop \in Nat
        /\ UserStackTop <= Half * PageSize
    BY ProgramAssumption
  <2>2. UserStackTop - 1 \in Nat /\ UserStackTop - 1 < Half * PageSize
    BY <1>2, <2>1
  <2>3. /\ FloorPage(UserStackTop - 1) \in Nat /\ FloorPage(UserStackTop - 1) < Half
        /\ StackAt(g.use) \in Nat
    BY <1>3, <2>2, StackFacts
  <2> QED BY <1>2, <2>3 DEF StackTouched, Low
<1> QED BY <1>1, <1>4, <1>5

LEMMA ImageMappedStep ==
  ASSUME IInv, ActiveTables, UserPaths, ImageMapped, Next
  PROVE  ImageMapped'
<1>1. TypeOK /\ StageSound
  BY DEF IInv
<1>2. CASE ExecProcess
  <2>1. /\ stage' \in UserStages => stage' = "load" /\ prog' \in Programs /\ k' = 1
    BY <1>2 DEF ExecProcess, UserStages
  <2>2. prog' \in Programs => prog'.segs \in Seq([begin : Nat, end : Nat, w : BOOLEAN])
    BY ImageLow
  <2>3. prog' \in Programs => \A j \in DOMAIN prog'.segs : ~(j < 1)
    BY <2>2
  <2> QED BY <2>1, <2>3 DEF ImageMapped
<1>3. CASE ~ExecProcess
  <2> SUFFICES ASSUME stage' \in UserStages PROVE ImageMapped'
    BY DEF ImageMapped
  <2>1. /\ stage \in UserStages /\ prog' = prog /\ prog \in Programs /\ ~SetupVm
        /\ toplevel \in Arena /\ cr3 = toplevel
    <3>1. stage \in UserStages /\ prog' = prog
      BY <1>3, StageUser
    <3>2. prog \in Programs /\ ~SetupVm
      BY <3>1 DEF ImageMapped, SetupVm, UserStages
    <3>3. toplevel \in Arena /\ cr3 = toplevel
      BY <1>1, <3>1 DEF UserStages, StageSound, ActiveTables, TypeOK
    <3> QED BY <3>1, <3>2, <3>3
  <2>2. /\ \A j \in DOMAIN prog.segs : SegTouched(prog.segs[j]) \subseteq Low
        /\ StackTouched(prog.use) \subseteq Low
        /\ DOMAIN prog.segs = 1 .. Len(prog.segs) /\ Len(prog.segs) \in Nat
    BY <2>1, ImageLow
  <2>3. ASSUME NEW v \in Low, Entered(v)
        PROVE  Entered(v)'
    BY <1>3, <2>1, <2>3, EnteredStays
  <2>4. \A j \in DOMAIN prog.segs : j < k =>
          \A v \in SegTouched(prog.segs[j]) : Entered(v)'
    BY <2>1, <2>2, <2>3 DEF ImageMapped
  <2>5. CASE CopySegment
    <3>1. stage = "load" /\ stage' = "load" /\ k' = k + 1
            /\ \A v \in SegTouched(prog.segs[k]) : Mapped(cr3, v)
      BY <2>5 DEF CopySegment, UserStages
    <3>2. ASSUME NEW j \in DOMAIN prog.segs, j < k + 1, NEW v \in SegTouched(prog.segs[j])
          PROVE  Entered(v)'
      <4>1. CASE j < k
        BY <2>4, <3>2, <4>1
      <4>2. CASE j = k
        <5>1. v \in Low /\ Mapped(toplevel, v)
          BY <2>1, <2>2, <3>1, <3>2, <4>2
        <5> QED BY <2>1, <2>3, <5>1, LowEntered
      <4>3. j \in Nat /\ k \in Nat
        BY <1>1, <2>2 DEF TypeOK
      <4> QED BY <3>2, <4>1, <4>2, <4>3
    <3> QED BY <2>1, <3>1, <3>2 DEF ImageMapped
  <2>6. CASE WriteStack
    <3>1. /\ stage = "map_stack" /\ stage' = "args" /\ k' = k
          /\ \A v \in StackTouched(prog.use) : Mapped(cr3, v)
      BY <2>6 DEF WriteStack, UserStages
    <3>2. \A v \in StackTouched(prog.use) : Entered(v)'
      BY <2>1, <2>2, <2>3, <3>1, LowEntered
    <3>3. k > Len(prog.segs)
      BY <3>1 DEF ImageMapped, UserStages
    <3> QED BY <2>1, <2>4, <3>1, <3>2, <3>3 DEF ImageMapped
  <2>7. CASE MapUserStack
    <3>1. stage' = "map_stack" /\ k' = k /\ k > Len(prog.segs)
      BY <2>7 DEF MapUserStack
    <3> QED BY <2>1, <2>4, <3>1 DEF ImageMapped
  <2>8. CASE ~(CopySegment \/ WriteStack \/ MapUserStack)
    <3>1. /\ k' = k
          /\ stage' # "load" => stage # "load"
          /\ stage' \in {"args", "kernel_stack", "user"} =>
               stage \in {"args", "kernel_stack", "user"}
      BY <1>3, <2>1, <2>8
         DEF Next, MapStep, WalkCached, WalkExisting, WalkNew, WalkFails, SetPage,
             PageInUse, MapHhdm, ActivateToplevel, SetupVmPanics, MapMmio,
             MmioMapped, MadtDone, RequestPages, RequestReturns, LoadMapping,
             RequestKernelStack, UserStages
    <3>2. stage \in {"args", "kernel_stack", "user"} =>
            \A v \in StackTouched(prog.use) : Entered(v)'
      BY <2>1, <2>2, <2>3 DEF ImageMapped
    <3>3. stage # "load" => k > Len(prog.segs)
      BY <2>1 DEF ImageMapped
    <3> QED BY <2>1, <2>4, <3>1, <3>2, <3>3 DEF ImageMapped
  <2> QED BY <2>5, <2>6, <2>7, <2>8
<1> QED BY <1>2, <1>3

\* Where a page of the user half is entered, user code reaches it.
LEMMA EnteredReads ==
  ASSUME IInv, UserPaths, NEW v \in Low, Entered(v)
  PROVE  /\ UserReads(toplevel, v)
         /\ stage \in UserStages /\ Off(4, v) \in StackSlots =>
              UserWrites(toplevel, v)
<1>1. PICK c \in Arena : Leads(1, v, c) /\ mem[c][Off(1, v)].p
  BY DEF Entered
<1>2. PICK a, b \in Arena :
        /\ Refers(mem, toplevel, Off(4, v), a) /\ Refers(mem, a, Off(3, v), b)
        /\ Refers(mem, b, Off(2, v), c)
  BY <1>1 DEF Leads, Path
<1>3. Leads(4, v, toplevel) /\ Leads(3, v, a) /\ Leads(2, v, b)
  BY <1>2 DEF Leads, Path, Refers
<1>4. /\ Pml4e(toplevel, v) = mem[toplevel][Off(4, v)]
      /\ Pdpte(toplevel, v) = mem[a][Off(3, v)]
      /\ Pde(toplevel, v) = mem[b][Off(2, v)]
      /\ Pte(toplevel, v) = mem[c][Off(1, v)]
  BY <1>2 DEF Refers, Pml4e, Pdpte, Pde, Pte
<1>5. /\ mem[toplevel][Off(4, v)].p /\ mem[a][Off(3, v)].p
      /\ mem[b][Off(2, v)].p /\ mem[c][Off(1, v)].p
  BY <1>1, <1>2 DEF Refers, ValidTable
<1>6. /\ mem[toplevel][Off(4, v)].u /\ mem[a][Off(3, v)].u
      /\ mem[b][Off(2, v)].u /\ mem[c][Off(1, v)].u
      /\ ~mem[a][Off(3, v)].ps
  BY <1>1, <1>3, <1>5 DEF UserPaths, Levels
<1>7. UserReads(toplevel, v)
  BY <1>4, <1>5, <1>6 DEF UserReads, Mapped
<1>8. ASSUME stage \in UserStages, Off(4, v) \in StackSlots
      PROVE  /\ mem[toplevel][Off(4, v)].w /\ mem[a][Off(3, v)].w
             /\ mem[b][Off(2, v)].w /\ mem[c][Off(1, v)].w
  BY <1>1, <1>3, <1>5, <1>8 DEF UserPaths, Levels
<1> QED BY <1>4, <1>7, <1>8 DEF UserWrites

-----------------------------------------------------------------------------
ImageInv == SpaceInv /\ UserPaths /\ ProgramJob /\ ImageMapped

LEMMA ImageInit ==
  ASSUME Init
  PROVE  ImageInv
<1>1. SpaceInv
  BY SpaceInit
<1>2. stage = "setup_vm" /\ toplevel = NULL /\ job.st = "idle"
  BY DEF Init, Idle
<1>3. UserPaths
  <2>1. toplevel \notin Arena
    BY <1>2, ArenaAssumption DEF Arena, NULL
  <2> QED BY <1>1, <2>1, LeadsLevel DEF UserPaths, SpaceInv
<1>4. ProgramJob /\ ImageMapped
  BY <1>2 DEF ProgramJob, ImageMapped, UserStages
<1> QED BY <1>1, <1>3, <1>4 DEF ImageInv

LEMMA ImageStutters ==
  ASSUME ImageInv, UNCHANGED vars
  PROVE  ImageInv'
<1>1. SpaceInv'
  BY SpaceStutters DEF ImageInv
<1> USE DEF vars
<1>2. UserPaths'
  BY DEF ImageInv, UserPaths, Leads, StackSlots
<1>3. ProgramJob'
  BY DEF ImageInv, ProgramJob, StackSlots
<1>4. ImageMapped'
  BY DEF ImageInv, ImageMapped, Entered, Leads
<1> QED BY <1>1, <1>2, <1>3, <1>4 DEF ImageInv

LEMMA ImageNext ==
  ASSUME ImageInv, Next
  PROVE  ImageInv'
<1>1. /\ SpaceInv /\ IInv /\ OnPath /\ JobArgs /\ ActiveTables
      /\ UserPaths /\ ProgramJob /\ ImageMapped
  BY DEF ImageInv, SpaceInv
<1>2. SpaceInv' /\ UserPaths' /\ ProgramJob' /\ ImageMapped'
  BY <1>1, SpaceNext, UserPathsStep, ProgramJobStep, ImageMappedStep
<1> QED BY <1>2 DEF ImageInv

(***************************************************************************)
(* The inductive invariant: the entries that walk_table and map_page make  *)
(* in the user half are made for user code (map_pages.c:21), and what      *)
(* exec_process has copied so far is mapped (exec_process.c:38-92).        *)
(***************************************************************************)
THEOREM ImageInductive == Spec => []ImageInv
<1>1. Init => ImageInv
  BY ImageInit
<1>2. ImageInv /\ [Next]_vars => ImageInv'
  BY ImageNext, ImageStutters
<1> QED BY <1>1, <1>2, PTL DEF Spec

(***************************************************************************)
(* When user code starts, it can read every page of its segments and write *)
(* its stack, whatever load_mapping returned (exec_process.c:38-92), for   *)
(* every program that keeps to the user half and whose stack shares no     *)
(* entry of the PML4 with a segment that is not writable.                  *)
(***************************************************************************)
THEOREM ImageIsAccessible == Spec => []UserImageAccessible
<1>1. ImageInv => UserImageAccessible
  <2> SUFFICES ASSUME ImageInv, stage = "user" PROVE UserImageAccessible
    BY DEF UserImageAccessible
  <2>1. /\ IInv /\ TypeOK /\ StageSound /\ ActiveTables /\ UserPaths
        /\ ImageMapped /\ stage \in UserStages
    BY DEF ImageInv, SpaceInv, IInv, UserStages
  <2>2. cr3 = toplevel
    BY <2>1 DEF StageSound, ActiveTables
  <2>3. prog \in Programs /\ k \in Nat /\ k > Len(prog.segs)
    BY <2>1 DEF ImageMapped, TypeOK
  <2>4. ASSUME NEW j \in DOMAIN prog.segs, NEW v \in SegTouched(prog.segs[j])
        PROVE  UserReads(cr3, v)
    <3>1. v \in Low /\ j \in Nat /\ Len(prog.segs) \in Nat /\ j <= Len(prog.segs)
      BY <2>3, <2>4, ImageLow
    <3>2. j < k
      BY <2>3, <3>1
    <3>3. Entered(v)
      BY <2>1, <2>4, <3>2 DEF ImageMapped
    <3> QED BY <2>1, <2>2, <3>1, <3>3, EnteredReads
  <2>5. ASSUME NEW v \in StackTouched(prog.use)
        PROVE  UserWrites(cr3, v)
    <3>1. v \in Low /\ Off(4, v) \in StackSlots
      BY <2>3, <2>5, ImageLow DEF StackSlots
    <3>2. Entered(v)
      BY <2>1, <2>5 DEF ImageMapped
    <3> QED BY <2>1, <2>2, <3>1, <3>2, EnteredReads
  <2> QED BY <2>4, <2>5 DEF UserImageAccessible
<1> QED BY <1>1, ImageInductive, PTL

-----------------------------------------------------------------------------
(***************************************************************************)
(* The refinement.  A page is determined by its offsets, and a huge page   *)
(* by the upper two of them.                                               *)
(***************************************************************************)
LEMMA DivUnique ==
  ASSUME NEW y \in Nat, y > 0, NEW q \in Nat, NEW r \in Nat, r < y
  PROVE  (q * y + r) \div y = q
<1> DEFINE x == q * y + r
<1>1. x \in Nat /\ x >= q * y /\ q * y \in Nat
  OBVIOUS
<1>2. x < (q + 1) * y /\ q + 1 \in Nat
  OBVIOUS
<1> HIDE DEF x
<1>3. x \div y \in Nat /\ x \div y >= q /\ x \div y < q + 1
  BY <1>1, <1>2, DivType, DivAbove, DivBelow
<1>4. x \div y = q
  BY <1>3
<1> QED BY <1>4 DEF x

LEMMA DivParts ==
  ASSUME NEW x \in Nat, NEW y \in Nat, y > 0
  PROVE  /\ x \div y \in Nat /\ x % y \in Nat /\ x % y < y
         /\ x = (x \div y) * y + (x % y)
<1>1. x \div y \in Nat
  BY DivType
<1>2. x % y \in Nat /\ x % y < y
  OBVIOUS
<1>3. x = (x \div y) * y + (x % y)
  OBVIOUS
<1> QED BY <1>1, <1>2, <1>3

LEMMA PartsBound ==
  ASSUME NEW a \in Nat, a > 0, NEW b \in Nat, NEW r \in Nat, r < a,
         NEW r2 \in Nat, r2 < b
  PROVE  r2 * a + r \in Nat /\ r2 * a + r < a * b
<1>1. r2 + 1 <= b /\ r2 * a \in Nat /\ a * b \in Nat
  OBVIOUS
<1>2. (r2 + 1) * a <= b * a
  BY <1>1
<1>3. (r2 + 1) * a = r2 * a + a
  OBVIOUS
<1> QED BY <1>1, <1>2, <1>3

LEMMA DivTwice ==
  ASSUME NEW x \in Nat, NEW a \in Nat, a > 0, NEW b \in Nat, b > 0
  PROVE  (x \div a) \div b = x \div (a * b)
<1> DEFINE q == x \div a
           r == x % a
           q2 == q \div b
           r2 == q % b
<1>1. q \in Nat /\ r \in Nat /\ r < a /\ x = q * a + r
  BY DivParts
<1>2. q2 \in Nat /\ r2 \in Nat /\ r2 < b /\ q = q2 * b + r2
  BY <1>1, DivParts
<1>3. a * b \in Nat /\ a * b > 0
  OBVIOUS
<1> HIDE DEF q, r, q2, r2
<1>4. r2 * a + r \in Nat /\ r2 * a + r < a * b
  BY <1>1, <1>2, PartsBound
<1>5. x = q2 * (a * b) + (r2 * a + r)
  <2>1. q * a = (q2 * b) * a + r2 * a
    BY <1>2
  <2>2. (q2 * b) * a = q2 * (a * b)
    BY <1>2
  <2>3. q2 * (a * b) \in Nat /\ r2 * a \in Nat
    BY <1>2, <1>3
  <2> QED BY <1>1, <2>1, <2>2, <2>3
<1>6. x \div (a * b) = q2
  BY <1>2, <1>3, <1>4, <1>5, DivUnique
<1> QED BY <1>6 DEF q2, q

\* Its place on a level is made of that on the next and of its offset.
LEMMA OffParts ==
  ASSUME NEW l \in 1 .. 3, NEW v \in Nat
  PROVE  /\ v \div Span[l] \in Nat /\ v \div Span[l + 1] \in Nat
         /\ v \div Span[l + 1] = (v \div Span[l]) \div L
         /\ v \div Span[l] = (v \div Span[l + 1]) * L + Off(l, v)
<1>1. /\ Span[l] \in Nat /\ Span[l] > 0 /\ Span[l + 1] \in Nat /\ Span[l + 1] > 0
      /\ L \in Nat /\ L > 0
  BY SpanType, SizeAssumption DEF Levels
<1>2. Span[l + 1] = Span[l] * L
  <2>1. CASE l = 1
    BY <2>1, SizeAssumption DEF Span
  <2>2. CASE l = 2
    BY <2>2, SizeAssumption DEF Span
  <2>3. CASE l = 3
    BY <2>3, SizeAssumption DEF Span
  <2> QED BY <2>1, <2>2, <2>3
<1>3. v \div Span[l] \in Nat
  BY <1>1, DivType
<1>4. v \div Span[l + 1] = (v \div Span[l]) \div L
  BY <1>1, <1>2, DivTwice
<1> DEFINE q == v \div Span[l]
<1> HIDE DEF q
<1>5. q = (q \div L) * L + (q % L) /\ q \div L \in Nat
  BY <1>1, <1>3, DivParts DEF q
<1>6. Off(l, v) = q % L
  BY DEF Off, q
<1>7. v \div Span[l + 1] = q \div L
  <2>1. v \div Span[l + 1] = (v \div Span[l]) \div L
    BY <1>4
  <2> QED BY <2>1 DEF q
<1>8. q = (v \div Span[l + 1]) * L + Off(l, v)
  BY <1>5, <1>6, <1>7
<1>9. q \in Nat /\ v \div Span[l + 1] \in Nat
  BY <1>3, <1>5, <1>7 DEF q
<1> QED BY <1>4, <1>8, <1>9 DEF q

LEMMA OffTop ==
  ASSUME NEW v \in Nat, v < NV
  PROVE  Off(4, v) = v \div Span[4]
<1>1. Span[4] \in Nat /\ Span[4] > 0 /\ L \in Nat
  BY SpanType, SizeAssumption DEF Levels
<1> DEFINE S == Span[4]
<1>2. v < L * S
  BY DEF NV
<1> HIDE DEF S
<1>3. v \div S \in Nat /\ v \div S < L
  BY <1>1, <1>2, DivType, DivBelow DEF S
<1> QED BY <1>1, <1>3 DEF Off, S

LEMMA SamePlace ==
  ASSUME NEW l \in 1 .. 3, NEW v \in Nat, NEW w \in Nat,
         v \div Span[l + 1] = w \div Span[l + 1], Off(l, v) = Off(l, w)
  PROVE  v \div Span[l] = w \div Span[l]
BY OffParts

LEMMA SameHuge ==
  ASSUME NEW v \in 0 .. (NV - 1), NEW w \in 0 .. (NV - 1),
         Off(4, v) = Off(4, w), Off(3, v) = Off(3, w)
  PROVE  v \div Span[3] = w \div Span[3]
<1>1. v \in Nat /\ w \in Nat /\ v < NV /\ w < NV
  BY HalfFacts
<1>2. v \div Span[3 + 1] = w \div Span[3 + 1]
  BY <1>1, OffTop
<1> QED BY <1>1, <1>2, SamePlace

LEMMA SamePage ==
  ASSUME NEW v \in 0 .. (NV - 1), NEW w \in 0 .. (NV - 1),
         \A l \in Levels : Off(l, v) = Off(l, w)
  PROVE  v = w
<1>1. v \in Nat /\ w \in Nat
  OBVIOUS
<1>2. v \div Span[2 + 1] = w \div Span[2 + 1]
  BY SameHuge DEF Levels
<1>3. v \div Span[1 + 1] = w \div Span[1 + 1]
  BY <1>1, <1>2, SamePlace DEF Levels
<1>4. v \div Span[1] = w \div Span[1]
  BY <1>1, <1>3, SamePlace DEF Levels
<1> QED BY <1>1, <1>4 DEF Span

\* The pages of the huge page at w, which is aligned.
LEMMA HugeBase ==
  ASSUME NEW w \in Nat, NEW y \in Nat, y > 0, w % y = 0
  PROVE  w \div y \in Nat /\ w = (w \div y) * y
BY DivParts

LEMMA HugeChunk ==
  ASSUME NEW w \in 0 .. (NV - 1), w % Span[3] = 0, NEW c \in 0 .. (Span[3] - 1),
         w + c < NV
  PROVE  /\ Off(4, w + c) = Off(4, w) /\ Off(3, w + c) = Off(3, w)
         /\ (w + c) % Span[3] = c
<1> DEFINE S == Span[3]
           q == w \div S
<1>1. S \in Nat /\ S > 0 /\ w \in Nat /\ c \in Nat /\ c < S
  BY SpanType DEF Levels
<1>2. q \in Nat /\ w = q * S
  BY <1>1, HugeBase
<1>3. (w + c) \div S = q
  <2> HIDE DEF S, q
  <2> QED BY <1>1, <1>2, DivUnique
<1>4. (w + c) % S = c
  <2>1. w + c \in Nat
    BY <1>1
  <2>2. w + c = ((w + c) \div S) * S + ((w + c) % S) /\ (w + c) % S \in Nat
    <3> HIDE DEF S, q
    <3> QED BY <1>1, <2>1, DivParts
  <2> HIDE DEF S, q
  <2>3. w + c = q * S + ((w + c) % S)
    BY <1>3, <2>2
  <2>4. q * S \in Nat
    BY <1>1, <1>2
  <2> QED BY <1>1, <1>2, <2>2, <2>3, <2>4
<1>5. (w + c) \div Span[3] = w \div Span[3] /\ w + c \in Nat /\ w \in Nat
  BY <1>1, <1>3
<1>6. Off(3, w + c) = Off(3, w)
  BY <1>5 DEF Off
<1>7. Off(4, w + c) = Off(4, w)
  <2>1. (w + c) \div Span[3 + 1] = w \div Span[3 + 1]
    BY <1>5, OffParts
  <2> QED BY <2>1 DEF Off
<1> QED BY <1>4, <1>6, <1>7

LEMMA HugeOther ==
  ASSUME NEW w \in 0 .. (NV - 1), w % Span[3] = 0, NEW v \in 0 .. (NV - 1),
         Off(4, v) = Off(4, w), Off(3, v) = Off(3, w)
  PROVE  v % Span[3] \in 0 .. (Span[3] - 1) /\ v = w + (v % Span[3])
<1> DEFINE S == Span[3]
<1>1. S \in Nat /\ S > 0 /\ w \in Nat /\ v \in Nat
  BY SpanType DEF Levels
<1>2. v \div S = w \div S
  BY SameHuge
<1> HIDE DEF S
<1>3. v % S \in Nat /\ v % S < S /\ v = (v \div S) * S + (v % S)
  BY <1>1, DivParts
<1>4. w = (w \div S) * S
  BY <1>1, HugeBase DEF S
<1>5. v = w + (v % S)
  BY <1>2, <1>3, <1>4
<1> QED BY <1>1, <1>3, <1>5 DEF S

LEMMA Multiple ==
  ASSUME NEW b \in Nat, NEW i \in Nat, NEW y \in Nat, y > 0, b % y = 0
  PROVE  (b + i * y) % y = 0
<1> DEFINE q == b \div y
           x == (q + i) * y
<1>1. q \in Nat /\ b = q * y
  BY HugeBase
<1>2. q + i \in Nat /\ x \in Nat /\ b + i * y = x
  BY <1>1
<1> HIDE DEF q
<1>3. x \div y = q + i
  <2>1. ((q + i) * y + 0) \div y = q + i
    BY <1>2, DivUnique
  <2>2. (q + i) * y + 0 = (q + i) * y
    BY <1>2
  <2> QED BY <2>1, <2>2
<1>4. x = (x \div y) * y + (x % y) /\ x % y \in Nat
  BY <1>2, DivParts
<1> HIDE DEF x
<1>5. x = x + (x % y)
  BY <1>3, <1>4 DEF x
<1> QED BY <1>2, <1>4, <1>5

-----------------------------------------------------------------------------
\* The paths of a new process are those of the upper half.
LEMMA ExecPaths ==
  ASSUME IInv, ActiveTables, ExecProcess, CanAlloc(1),
         NEW v \in 0 .. (NV - 1), NEW l \in 1 .. 3, NEW t
  PROVE  /\ Path(mem', toplevel', l, v, t) <=> v >= Half /\ Leads(l, v, t)
         /\ Leads(l, v, t) => mem'[t] = mem[t]
<1>1. /\ TypeOK /\ FreshFrames /\ StageSound /\ WalkSound
      /\ arena_head \in Arena /\ role[arena_head] = Free
  BY AllocOne DEF IInv, FreshFrames, TypeOK
<1>2. /\ toplevel' = arena_head /\ cr3 = toplevel /\ toplevel \in Arena
      /\ role[toplevel] = 4
  BY <1>1 DEF ExecProcess, StageSound, ActiveTables, TypeOK, WalkSound
<1>3. v \in Nat /\ v < NV /\ Off(4, v) \in Idx /\ (Off(4, v) >= L \div 2 <=> v >= Half)
  BY HalfFacts, OffType, OffHalf DEF Levels
<1>4. mem'[arena_head][Off(4, v)] = IF v >= Half THEN mem[toplevel][Off(4, v)]
                                                ELSE Absent
  BY <1>1, <1>2, <1>3 DEF ExecProcess, TypeOK, FreshFrames
<1>5. ASSUME NEW c
      PROVE  Refers(mem', toplevel', Off(4, v), c)
               <=> v >= Half /\ Child(toplevel, Off(4, v), c)
  BY <1>1, <1>2, <1>4 DEF Refers, Child, ValidTable, Absent
<1>6. ASSUME NEW a \in Arena, role[a] \in Levels
      PROVE  mem'[a] = mem[a]
  BY <1>1, <1>6 DEF ExecProcess, TypeOK, Free, Levels
<1>7. ASSUME NEW a \in Arena, role[a] \in Levels, NEW o, NEW c
      PROVE  Refers(mem', a, o, c) <=> Child(a, o, c)
  BY <1>6, <1>7 DEF Refers, Child
<1>8. ASSUME NEW a, Child(toplevel, Off(4, v), a)
      PROVE  role[a] = 3
  BY <1>2, <1>8, ChildLevel
<1>9. ASSUME NEW a, NEW b, Child(toplevel, Off(4, v), a), Child(a, Off(3, v), b)
      PROVE  role[b] = 2
  BY <1>8, <1>9, ChildLevel
<1>10. Path(mem', toplevel', l, v, t) <=> v >= Half /\ Leads(l, v, t)
  <2>1. CASE l = 3
    BY <1>5, <2>1 DEF Path, Leads, Child
  <2>2. CASE l = 2
    <3>1. \A a \in Arena :
            Refers(mem', toplevel', Off(4, v), a) /\ Refers(mem', a, Off(3, v), t)
              <=> v >= Half /\ Child(toplevel, Off(4, v), a) /\ Child(a, Off(3, v), t)
      BY <1>5, <1>7, <1>8 DEF Levels
    <3> QED BY <2>2, <3>1 DEF Path, Leads, Child
  <2>3. CASE l = 1
    <3>1. \A a, b \in Arena :
            /\ Refers(mem', toplevel', Off(4, v), a) /\ Refers(mem', a, Off(3, v), b)
            /\ Refers(mem', b, Off(2, v), t)
            <=> /\ v >= Half /\ Child(toplevel, Off(4, v), a)
                /\ Child(a, Off(3, v), b) /\ Child(b, Off(2, v), t)
      <4> SUFFICES ASSUME NEW a \in Arena, NEW b \in Arena
                   PROVE  /\ Refers(mem', toplevel', Off(4, v), a)
                          /\ Refers(mem', a, Off(3, v), b)
                          /\ Refers(mem', b, Off(2, v), t)
                          <=> /\ v >= Half /\ Child(toplevel, Off(4, v), a)
                              /\ Child(a, Off(3, v), b) /\ Child(b, Off(2, v), t)
        OBVIOUS
      <4>1. CASE Child(toplevel, Off(4, v), a) /\ Child(a, Off(3, v), b)
        BY <1>5, <1>7, <1>8, <1>9, <4>1 DEF Levels
      <4>2. CASE ~Child(toplevel, Off(4, v), a)
        BY <1>5, <4>2
      <4>3. CASE Child(toplevel, Off(4, v), a) /\ ~Child(a, Off(3, v), b)
        BY <1>7, <1>8, <4>3 DEF Levels
      <4> QED BY <4>1, <4>2, <4>3
    <3> QED BY <2>3, <3>1 DEF Path, Leads, Child
  <2> QED BY <2>1, <2>2, <2>3
<1>11. Leads(l, v, t) => mem'[t] = mem[t]
  BY <1>6, LeadsLevel DEF Levels
<1> QED BY <1>10, <1>11

\* A new table, before anything is in it, leads nowhere.
LEMMA SetupPaths ==
  ASSUME IInv, SetupVm, toplevel' # toplevel, NEW v \in 0 .. (NV - 1),
         NEW l \in 1 .. 3, NEW t
  PROVE  ~Path(mem', toplevel', l, v, t)
<1>1. TypeOK /\ FreshFrames
  BY DEF IInv
<1>2. arena_head \in Arena /\ toplevel' = arena_head /\ mem' = mem
  BY <1>1, AllocOne DEF SetupVm
<1>3. \A i \in Idx : mem'[arena_head][i] = Absent
  BY <1>1, <1>2 DEF FreshFrames, TypeOK
<1>4. \A a : ~Refers(mem', toplevel', Off(4, v), a)
  BY <1>2, <1>3 DEF Refers, ValidTable, Absent
<1> QED BY <1>4 DEF Path

-----------------------------------------------------------------------------
(***************************************************************************)
(* Huge pages are those of the direct map, whose entries no other walk     *)
(* meets: walk_table would replace one by an empty table (map_pages.c:22). *)
(***************************************************************************)
HugeInHhdm == \A v \in 0 .. (NV - 1) : \A t :
  Leads(3, v, t) /\ mem[t][Off(3, v)].p /\ mem[t][Off(3, v)].ps =>
    Off(4, v) \in HhdmSlots

LEMMA HugeInHhdmStep ==
  ASSUME IInv, OnPath, JobArgs, ActiveTables, HugeInHhdm, Next
  PROVE  HugeInHhdm'
<1>1. /\ TypeOK /\ FreshFrames /\ WalkSound /\ TablesWellFormed /\ StageSound
  BY DEF IInv
<1> SUFFICES ASSUME NEW v \in 0 .. (NV - 1), NEW t, Path(mem', toplevel', 3, v, t),
                    mem'[t][Off(3, v)].p, mem'[t][Off(3, v)].ps
             PROVE  Off(4, v) \in HhdmSlots
  BY DEF HugeInHhdm, Leads
<1>2. Off(3, v) \in Idx
  BY HalfFacts, OffType DEF Levels
<1>3. ASSUME Leads(3, v, t), mem'[t][Off(3, v)] = mem[t][Off(3, v)]
      PROVE  Off(4, v) \in HhdmSlots
  BY <1>3 DEF HugeInHhdm
<1>4. CASE WalkNew \/ SetPage
  <2>1. toplevel' = toplevel /\ toplevel \in Arena /\ job.st = "map"
    BY <1>1, <1>4 DEF WalkNew, SetPage, Walking, AtLeaf, StageSound, TypeOK
  <2>2. Leads(3, v, t)
    BY <1>2, <1>4, <2>1, PathBack, NewIsBlank DEF Levels
  <2>3. t \in Arena /\ role[t] = 3
    BY <2>2, LeadsLevel DEF Levels
  <2>4. CASE mem'[t][Off(3, v)] # mem[t][Off(3, v)]
    <3>1. t = walk.tbl /\ walk.lvl = 3
      BY <1>1, <1>2, <1>4, <2>3, <2>4, WriteFacts
    <3>2. Leads(3, V, t)
      BY <2>1, <3>1 DEF OnPath
    <3>3. Off(4, v) = Off(4, V)
      BY <2>2, <3>2, LeadsApart DEF SameAbove, Levels
    <3>4. mem'[t][Off(3, v)] \in {NewTable(arena_head), NewPage}
      BY <1>1, <1>2, <1>4, <2>3, <2>4, WriteFacts
    <3>5. job.huge
      BY <3>4 DEF NewTable, NewPage
    <3> QED BY <2>1, <3>3, <3>5, PageFacts
  <2> QED BY <1>3, <2>2, <2>4
<1>5. CASE ExecProcess /\ CanAlloc(1)
  <2>1. Leads(3, v, t) /\ mem'[t] = mem[t]
    BY <1>5, ExecPaths
  <2> QED BY <1>3, <2>1
<1>6. CASE SetupVm /\ toplevel' # toplevel
  BY <1>6, SetupPaths
<1>7. CASE UNCHANGED <<mem, toplevel>>
  BY <1>3, <1>7 DEF Leads
<1> QED BY <1>4, <1>5, <1>6, <1>7, NextMemStep, NextToplevelStep
        DEF SetupVm, ExecProcess

-----------------------------------------------------------------------------
(***************************************************************************)
(* The address space by its paths: a page has the frame f if its path ends *)
(* in a huge page with f in it, or in the entry of a page table.           *)
(***************************************************************************)
HugeLeaf(ts, top, v, f) == \E t \in Arena :
  /\ Path(ts, top, 3, v, t) /\ ts[t][Off(3, v)].p /\ ts[t][Off(3, v)].ps
  /\ f = ts[t][Off(3, v)].f + (v % Span[3])

PageLeaf(ts, top, v, f) == \E t \in Arena :
  /\ Path(ts, top, 1, v, t) /\ ts[t][Off(1, v)].p
  /\ f = ts[t][Off(1, v)].f

Leaf(ts, top, v, f) == HugeLeaf(ts, top, v, f) \/ PageLeaf(ts, top, v, f)

Pairs(ts, top) ==
  IF top = NULL THEN {}
  ELSE {m \in (0 .. (NV - 1)) \X Nat : Leaf(ts, top, m[1], m[2])}

\* The entries that the processor finds on the way.
LEMMA Present ==
  ASSUME IInv, NEW l \in 2 .. 4, NEW v \in 0 .. (NV - 1), NEW t,
         Leads(l, v, t), mem[t][Off(l, v)].p, l = 3 => ~mem[t][Off(l, v)].ps
  PROVE  Leads(l - 1, v, mem[t][Off(l, v)].f)
<1>1. t \in Arena /\ role[t] = l /\ Off(l, v) \in Idx
  BY LeadsLevel, HalfFacts, OffType DEF Levels
<1>2. GoodEntry(l, mem[t][Off(l, v)])
  BY <1>1 DEF IInv, TablesWellFormed, Levels
<1>3. Refers(mem, t, Off(l, v), mem[t][Off(l, v)].f)
  BY <1>1, <1>2 DEF GoodEntry, Refers, ValidTable
<1> QED BY <1>3, PathDown DEF Leads

LEMMA LeafIsMapped ==
  ASSUME IInv, toplevel # NULL, NEW v \in 0 .. (NV - 1), NEW f
  PROVE  Mapped(toplevel, v) /\ f = FrameOf(toplevel, v)
           <=> Leaf(mem, toplevel, v, f)
<1>1. Leads(4, v, toplevel)
  BY DEF IInv, TypeOK, Leads, Path
<1>2. ASSUME Leaf(mem, toplevel, v, f)
      PROVE  Mapped(toplevel, v) /\ f = FrameOf(toplevel, v)
  <2>1. CASE HugeLeaf(mem, toplevel, v, f)
    <3>1. PICK a \in Arena :
            /\ Refers(mem, toplevel, Off(4, v), a)
            /\ mem[a][Off(3, v)].p /\ mem[a][Off(3, v)].ps
            /\ f = mem[a][Off(3, v)].f + (v % Span[3])
      BY <2>1 DEF HugeLeaf, Path
    <3> QED BY <3>1 DEF Refers, ValidTable, Mapped, FrameOf, Pml4e, Pdpte
  <2>2. CASE PageLeaf(mem, toplevel, v, f)
    <3>1. PICK a, b, c \in Arena :
            /\ Refers(mem, toplevel, Off(4, v), a) /\ Refers(mem, a, Off(3, v), b)
            /\ Refers(mem, b, Off(2, v), c)
            /\ mem[c][Off(1, v)].p /\ f = mem[c][Off(1, v)].f
      BY <2>2 DEF PageLeaf, Path
    <3>2. /\ Pml4e(toplevel, v).p /\ Pdpte(toplevel, v) = mem[a][Off(3, v)]
          /\ Pdpte(toplevel, v).p /\ ~Pdpte(toplevel, v).ps
          /\ Pde(toplevel, v) = mem[b][Off(2, v)] /\ Pde(toplevel, v).p
          /\ Pte(toplevel, v) = mem[c][Off(1, v)]
      BY <3>1 DEF Refers, ValidTable, Pml4e, Pdpte, Pde, Pte
    <3> QED BY <3>1, <3>2 DEF Mapped, FrameOf
  <2> QED BY <1>2, <2>1, <2>2 DEF Leaf
<1>3. ASSUME Mapped(toplevel, v), f = FrameOf(toplevel, v)
      PROVE  Leaf(mem, toplevel, v, f)
  <2> DEFINE a == Pml4e(toplevel, v).f
             b == Pdpte(toplevel, v).f
             c == Pde(toplevel, v).f
  <2>1. Leads(4 - 1, v, a)
    <3>1. mem[toplevel][Off(4, v)].p
      BY <1>3 DEF Mapped, Pml4e
    <3>2. Leads(4 - 1, v, mem[toplevel][Off(4, v)].f)
      BY <1>1, <3>1, Present
    <3> QED BY <3>2 DEF Pml4e
  <2>2. /\ a \in Arena /\ Pdpte(toplevel, v) = mem[a][Off(3, v)]
        /\ mem[a][Off(3, v)].p
    BY <1>3, <2>1, LeadsLevel DEF Mapped, Pdpte, Levels
  <2> HIDE DEF a
  <2>3. CASE mem[a][Off(3, v)].ps
    <3>1. f = mem[a][Off(3, v)].f + (v % Span[3])
      BY <1>3, <2>2, <2>3 DEF FrameOf
    <3> QED BY <2>1, <2>2, <2>3, <3>1 DEF Leaf, HugeLeaf, Leads
  <2>4. CASE ~mem[a][Off(3, v)].ps
    <3>1. /\ Pde(toplevel, v).p /\ Pte(toplevel, v).p
          /\ f = Pte(toplevel, v).f
      BY <1>3, <2>2, <2>4 DEF Mapped, FrameOf
    <3>2. Leads(3 - 1, v, b)
      <4>1. Leads(3, v, a)
        BY <2>1
      <4>2. Leads(3 - 1, v, mem[a][Off(3, v)].f)
        BY <2>2, <2>4, <4>1, Present
      <4> QED BY <2>2, <4>2
    <3>3. b \in Arena /\ Pde(toplevel, v) = mem[b][Off(2, v)]
      BY <3>2, LeadsLevel DEF Pde, Levels
    <3> HIDE DEF b
    <3>4. Leads(2 - 1, v, c)
      <4>1. Leads(2, v, b)
        BY <3>2
      <4>2. Leads(2 - 1, v, mem[b][Off(2, v)].f)
        BY <3>1, <3>3, <4>1, Present
      <4> QED BY <3>3, <4>2
    <3>5. c \in Arena /\ Pte(toplevel, v) = mem[c][Off(1, v)]
      BY <3>4, LeadsLevel DEF Pte, Levels
    <3> HIDE DEF c
    <3> QED BY <3>1, <3>4, <3>5 DEF Leaf, PageLeaf, Leads
  <2> QED BY <2>3, <2>4
<1> QED BY <1>2, <1>3

LEMMA SpaceIsPairs == IInv => Space = Pairs(mem, toplevel)
<1> SUFFICES ASSUME IInv, toplevel # NULL PROVE Space = Pairs(mem, toplevel)
  BY DEF Space, Pairs
<1>1. ASSUME NEW v \in 0 .. (NV - 1), Mapped(toplevel, v)
      PROVE  FrameOf(toplevel, v) \in Nat
  <2>1. Leaf(mem, toplevel, v, FrameOf(toplevel, v))
    BY <1>1, LeafIsMapped
  <2>2. \A t \in Arena, l \in Levels : mem[t][Off(l, v)].f \in Nat
    BY HalfFacts, OffType DEF IInv, TypeOK, PTE
  <2>3. v % Span[3] \in Nat
    BY SpanType, DivParts DEF Levels
  <2> QED BY <2>1, <2>2, <2>3 DEF Leaf, HugeLeaf, PageLeaf, Levels
<1>2. ASSUME NEW m \in Space
      PROVE  m \in Pairs(mem, toplevel)
  <2>1. PICK v \in 0 .. (NV - 1) :
          Mapped(toplevel, v) /\ m = <<v, FrameOf(toplevel, v)>>
    BY DEF Space
  <2>2. Leaf(mem, toplevel, m[1], m[2])
    BY <2>1, LeafIsMapped
  <2> QED BY <1>1, <2>1, <2>2 DEF Pairs
<1>3. ASSUME NEW m \in Pairs(mem, toplevel)
      PROVE  m \in Space
  <2>1. m \in (0 .. (NV - 1)) \X Nat /\ Leaf(mem, toplevel, m[1], m[2])
    BY DEF Pairs
  <2>2. PICK v \in 0 .. (NV - 1), f \in Nat : m = <<v, f>>
    BY <2>1
  <2>3. Mapped(toplevel, v) /\ f = FrameOf(toplevel, v)
    BY <2>1, <2>2, LeafIsMapped
  <2> QED BY <2>2, <2>3 DEF Space
<1> QED BY <1>2, <1>3

LEMMA SpaceIsPairsNext == (IInv => Space = Pairs(mem, toplevel))'
BY SpaceIsPairs, PTL

-----------------------------------------------------------------------------
(***************************************************************************)
(* What the steps do to the leaves.  walk_table replaces no leaf.          *)
(***************************************************************************)
WalkTo(l, v, t) == Path(mem', toplevel', l, v, t)

LEMMA WritesOnPath ==
  ASSUME IInv, OnPath, WalkNew \/ SetPage
  PROVE  /\ Next /\ job.st = "map" /\ toplevel' = toplevel /\ toplevel \in Arena
         /\ walk.lvl \in Levels /\ walk.tbl \in Arena /\ role[walk.tbl] = walk.lvl
         /\ Leads(walk.lvl, V, walk.tbl) /\ Off(walk.lvl, V) \in Idx
<1>1. /\ TypeOK /\ FreshFrames /\ WalkSound /\ TablesWellFormed /\ StageSound
  BY DEF IInv
<1>2. Next /\ job.st = "map" /\ toplevel' = toplevel
  BY DEF WalkNew, SetPage, Walking, AtLeaf, Next, MapStep
<1>3. toplevel \in Arena
  BY <1>1, <1>2 DEF StageSound, TypeOK
<1>4. Leads(walk.lvl, V, walk.tbl)
  BY <1>2 DEF OnPath
<1> QED BY <1>1, <1>2, <1>3, <1>4, WriteFacts

LEMMA WalkNewLeaf ==
  ASSUME IInv, OnPath, JobArgs, HugeInHhdm, WalkNew, NEW v \in 0 .. (NV - 1), NEW f
  PROVE  Leaf(mem', toplevel', v, f) <=> Leaf(mem, toplevel, v, f)
<1>1. /\ TypeOK /\ FreshFrames /\ WalkSound /\ TablesWellFormed
  BY DEF IInv
<1>2. /\ Next /\ job.st = "map" /\ toplevel' = toplevel /\ toplevel \in Arena
      /\ walk.lvl \in 2 .. 4 /\ Leads(walk.lvl, V, walk.tbl)
      /\ walk.lvl > LeafLevel /\ LeafLevel \in {1, 3}
      /\ ~ValidTable(mem[walk.tbl][Off(walk.lvl, V)])
  <2>1. /\ Next /\ job.st = "map" /\ toplevel' = toplevel /\ toplevel \in Arena
        /\ walk.lvl \in Levels /\ Leads(walk.lvl, V, walk.tbl)
    BY WritesOnPath
  <2>2. walk.lvl > LeafLevel /\ ~ValidTable(mem[walk.tbl][Off(walk.lvl, V)])
    BY DEF WalkNew, Walking, Entry
  <2>3. LeafLevel \in {1, 3}
    BY DEF LeafLevel
  <2> QED BY <2>1, <2>2, <2>3 DEF Levels
<1>3. Off(1, v) \in Idx /\ Off(3, v) \in Idx
  BY HalfFacts, OffType DEF Levels
<1>4. ASSUME NEW t, Leads(1, v, t)
      PROVE  mem'[t][Off(1, v)] = mem[t][Off(1, v)]
  <2>1. t \in Arena /\ role[t] = 1 /\ t # walk.tbl
    BY <1>1, <1>2, <1>4, LeadsLevel, WriteFacts DEF Levels
  <2> QED BY <1>1, <1>3, <2>1, WriteFacts
<1>5. ASSUME NEW t, Leads(3, v, t),
             \/ mem[t][Off(3, v)].p /\ mem[t][Off(3, v)].ps
             \/ mem'[t][Off(3, v)].p /\ mem'[t][Off(3, v)].ps
      PROVE  mem'[t][Off(3, v)] = mem[t][Off(3, v)]
  <2>1. t \in Arena /\ role[t] = 3
    BY <1>5, LeadsLevel DEF Levels
  <2>2. SUFFICES ASSUME mem'[t][Off(3, v)] # mem[t][Off(3, v)] PROVE FALSE
    OBVIOUS
  <2>3. t = walk.tbl /\ Off(3, v) = Off(walk.lvl, V) /\ walk.lvl = 3
    BY <1>1, <1>3, <2>1, <2>2, WriteFacts
  <2>4. mem'[t][Off(3, v)] = NewTable(arena_head)
    BY <1>1, <2>3, WriteFacts
  <2>5. mem[t][Off(3, v)].p /\ mem[t][Off(3, v)].ps
    BY <1>5, <2>4 DEF NewTable
  <2>6. Off(4, v) \in HhdmSlots
    BY <1>5, <2>5 DEF HugeInHhdm
  <2>7. Off(4, v) = Off(4, V)
    BY <1>2, <1>5, <2>3, LeadsApart DEF SameAbove, Levels
  <2>8. ~job.huge
    BY <1>2, <2>3 DEF LeafLevel
  <2> QED BY <1>2, <2>6, <2>7, <2>8, PageFacts
<1>6. ASSUME NEW t, NEW l \in {1, 3}, WalkTo(l, v, t), mem'[t][Off(l, v)].p
      PROVE  Leads(l, v, t)
  BY <1>2, <1>3, <1>6, PathBack, NewIsBlank DEF WalkTo, Levels
<1>7. ASSUME NEW t, NEW l, Leads(l, v, t)
      PROVE  WalkTo(l, v, t)
  BY <1>2, <1>7, LeadsKept DEF WalkTo
<1>8. HugeLeaf(mem', toplevel', v, f) <=> HugeLeaf(mem, toplevel, v, f)
  <2>1. ASSUME NEW t \in Arena
        PROVE  WalkTo(3, v, t) /\ mem'[t][Off(3, v)].p /\ mem'[t][Off(3, v)].ps
                 /\ f = mem'[t][Off(3, v)].f + (v % Span[3])
               <=> Leads(3, v, t) /\ mem[t][Off(3, v)].p /\ mem[t][Off(3, v)].ps
                     /\ f = mem[t][Off(3, v)].f + (v % Span[3])
    <3>1. CASE ~Leads(3, v, t)
      BY <1>6, <3>1
    <3>2. CASE Leads(3, v, t)
      <4> DEFINE e == mem[t][Off(3, v)]
                 d == mem'[t][Off(3, v)]
      <4>1. (e.p /\ e.ps) \/ (d.p /\ d.ps) => d = e
        BY <1>5, <3>2
      <4>2. WalkTo(3, v, t)
        BY <1>7, <3>2
      <4> HIDE DEF e, d
      <4>3. d.p /\ d.ps /\ f = d.f + (v % Span[3])
              <=> e.p /\ e.ps /\ f = e.f + (v % Span[3])
        <5>1. CASE d = e
          BY <5>1
        <5>2. CASE d # e
          BY <4>1, <5>2, Zenon
        <5> QED BY <5>1, <5>2
      <4> QED BY <3>2, <4>2, <4>3, Zenon DEF d, e
    <3> QED BY <3>1, <3>2
  <2> QED BY <2>1 DEF HugeLeaf, Leads, WalkTo
<1>9. PageLeaf(mem', toplevel', v, f) <=> PageLeaf(mem, toplevel, v, f)
  BY <1>4, <1>6, <1>7 DEF PageLeaf, Leads, WalkTo
<1> QED BY <1>8, <1>9 DEF Leaf

\* The pages of one entry.
LEMMA ChunkFacts ==
  ASSUME IInv, JobArgs, job.st = "map"
  PROVE  /\ V \in 0 .. (NV - 1) /\ JobSpan \in Nat \ {0}
         /\ job.huge => JobSpan = Span[3] /\ V % Span[3] = 0
         /\ ~job.huge => JobSpan = 1
         /\ V + JobSpan <= NV
<1>1. V \in Nat /\ V < NV /\ TypeOK
  BY PageFacts DEF IInv
<1>2. JobSpan \in Nat \ {0} /\ (job.huge => JobSpan = Span[3])
        /\ (~job.huge => JobSpan = 1)
  BY SpanType DEF JobSpan, Levels
<1>3. NV \in Nat
  BY HalfFacts
<1>4. CASE ~job.huge
  BY <1>1, <1>2, <1>3, <1>4
<1>5. CASE job.huge
  <2> DEFINE S == Span[3]
  <2>1. S \in Nat /\ S > 0
    BY SpanType DEF Levels
  <2>2. job.i \in Nat /\ job.n = HhdmPages /\ job.i < job.n /\ job.v = HhdmBegin
    BY <1>1, <1>5 DEF JobArgs, IInv, JobSound, TypeOK
  <2>3. V = HhdmBegin + job.i * S /\ HhdmBegin \in Nat /\ HhdmPages \in Nat
    BY <1>2, <1>5, <2>2, LayoutTypes DEF V
  <2>4. HhdmBegin % S = 0 /\ HhdmBegin + HhdmPages * S <= NV
    BY SlotAssumption, LayoutAssumption
  <2> HIDE DEF S
  <2>5. V % S = 0
    BY <2>1, <2>2, <2>3, <2>4, Multiple
  <2>6. V + S <= NV
    <3>1. (job.i + 1) * S <= HhdmPages * S /\ HhdmPages * S \in Nat
      BY <2>1, <2>2, <2>3
    <3>2. (job.i + 1) * S = job.i * S + S /\ job.i * S \in Nat
      BY <2>1, <2>2
    <3> QED BY <1>3, <2>1, <2>3, <2>4, <3>1, <3>2
  <2> QED BY <1>1, <1>2, <1>3, <1>5, <2>5, <2>6 DEF S
<1> QED BY <1>4, <1>5

LEMMA ChunkPath ==
  ASSUME IInv, JobArgs, job.st = "map", NEW c \in 0 .. (JobSpan - 1)
  PROVE  /\ V + c \in 0 .. (NV - 1)
         /\ Off(4, V + c) = Off(4, V) /\ Off(3, V + c) = Off(3, V)
         /\ job.huge => (V + c) % Span[3] = c
         /\ ~job.huge => c = 0 /\ V + c = V
<1>1. /\ V \in 0 .. (NV - 1) /\ JobSpan \in Nat \ {0} /\ V + JobSpan <= NV
      /\ job.huge => JobSpan = Span[3] /\ V % Span[3] = 0
      /\ ~job.huge => JobSpan = 1
  BY ChunkFacts
<1>2. NV \in Nat
  BY HalfFacts
<1>3. c \in Nat /\ c < JobSpan /\ V \in Nat
  BY <1>1
<1>4. V + c \in 0 .. (NV - 1) /\ V + c < NV
  BY <1>1, <1>2, <1>3
<1>5. CASE job.huge
  BY <1>1, <1>4, <1>5, HugeChunk
<1>6. CASE ~job.huge
  BY <1>1, <1>3, <1>4, <1>6
<1> QED BY <1>5, <1>6

\* A page is set only where there is none.
LEMMA SetPageFree ==
  ASSUME IInv, OnPath, JobArgs, SetPage, NEW c \in 0 .. (JobSpan - 1), NEW f
  PROVE  ~Leaf(mem, toplevel, V + c, f)
<1> DEFINE v == V + c
<1>1. /\ job.st = "map" /\ walk.lvl = LeafLevel /\ Leads(LeafLevel, V, walk.tbl)
      /\ ~mem[walk.tbl][Off(LeafLevel, V)].p
  BY WritesOnPath DEF SetPage, AtLeaf, LeafEntry
<1>2. /\ v \in 0 .. (NV - 1) /\ Off(4, v) = Off(4, V) /\ Off(3, v) = Off(3, V)
      /\ ~job.huge => v = V
  BY <1>1, ChunkPath
<1> HIDE DEF v
<1>3. ASSUME NEW t, Leads(1, v, t)
      PROVE  \E a \in Arena : /\ Leads(3, v, a)
                              /\ mem[a][Off(3, v)].p /\ ~mem[a][Off(3, v)].ps
  <2>1. PICK a, b \in Arena : /\ Refers(mem, toplevel, Off(4, v), a)
                              /\ Refers(mem, a, Off(3, v), b)
    BY <1>3 DEF Leads, Path
  <2> QED BY <2>1 DEF Leads, Path, Refers, ValidTable
<1>4. ASSUME NEW t, NEW u, Leads(3, v, t), Leads(3, v, u)
      PROVE  t = u
  BY <1>4, PathOnce DEF Leads, Levels
<1>5. CASE job.huge
  <2>1. Leads(3, V, walk.tbl) /\ ~mem[walk.tbl][Off(3, v)].p
    BY <1>1, <1>2, <1>5 DEF LeafLevel
  <2>2. Leads(3, v, walk.tbl)
    BY <1>2, <2>1 DEF Leads, Path
  <2>3. ~HugeLeaf(mem, toplevel, v, f)
    BY <1>4, <2>1, <2>2 DEF HugeLeaf, Leads
  <2>4. ~PageLeaf(mem, toplevel, v, f)
    BY <1>3, <1>4, <2>1, <2>2 DEF PageLeaf, Leads
  <2> QED BY <2>3, <2>4 DEF Leaf, v
<1>6. CASE ~job.huge
  <2>1. Leads(1, v, walk.tbl) /\ ~mem[walk.tbl][Off(1, v)].p
    BY <1>1, <1>2, <1>6 DEF LeafLevel
  <2>2. ~PageLeaf(mem, toplevel, v, f)
    BY <2>1, PathOnce DEF PageLeaf, Leads, Levels
  <2>3. ~HugeLeaf(mem, toplevel, v, f)
    BY <1>3, <1>4, <2>1 DEF HugeLeaf, Leads
  <2> QED BY <2>2, <2>3 DEF Leaf, v
<1> QED BY <1>5, <1>6

LEMMA SetPageLeaf ==
  ASSUME IInv, OnPath, JobArgs, SetPage, NEW v \in 0 .. (NV - 1), NEW f
  PROVE  Leaf(mem', toplevel', v, f) <=>
           \/ Leaf(mem, toplevel, v, f)
           \/ \E c \in 0 .. (JobSpan - 1) : v = V + c /\ f = P + c
<1>1. /\ TypeOK /\ FreshFrames /\ WalkSound /\ TablesWellFormed
  BY DEF IInv
<1>2. /\ Next /\ job.st = "map" /\ toplevel' = toplevel /\ toplevel \in Arena
      /\ walk.lvl = LeafLevel /\ walk.tbl \in Arena /\ role[walk.tbl] = LeafLevel
      /\ Leads(LeafLevel, V, walk.tbl) /\ Off(LeafLevel, V) \in Idx
      /\ ~mem[walk.tbl][Off(LeafLevel, V)].p
  BY WritesOnPath DEF SetPage, AtLeaf, LeafEntry
<1>3. /\ \A a \in Arena, o \in Idx :
           (a # walk.tbl \/ o # Off(LeafLevel, V)) => mem'[a][o] = mem[a][o]
      /\ mem'[walk.tbl][Off(LeafLevel, V)] = NewPage
  BY <1>1, <1>2, WriteFacts
<1>4. Off(1, v) \in Idx /\ Off(3, v) \in Idx
  BY HalfFacts, OffType DEF Levels
<1>5. ASSUME NEW t, NEW l \in {1, 3}, Leads(l, v, t)
      PROVE  /\ WalkTo(l, v, t) /\ t \in Arena /\ role[t] = l
             /\ mem[t][Off(l, v)].p => mem'[t][Off(l, v)] = mem[t][Off(l, v)]
  <2>1. WalkTo(l, v, t)
    BY <1>2, <1>5, LeadsKept DEF WalkTo
  <2>2. t \in Arena /\ role[t] = l
    BY <1>5, LeadsLevel DEF Levels
  <2> QED BY <1>2, <1>3, <1>4, <2>1, <2>2
<1>6. ASSUME NEW t, NEW l \in {1, 3}, WalkTo(l, v, t)
      PROVE  Leads(l, v, t)
  <2>1. ~WalkNew
    BY <1>2, JobTypes DEF WalkNew, Walking, LeafLevel
  <2> QED BY <1>2, <1>6, <2>1, PathBack DEF WalkTo, Levels
<1>7. ASSUME Leaf(mem, toplevel, v, f)
      PROVE  Leaf(mem', toplevel', v, f)
  <2>1. CASE HugeLeaf(mem, toplevel, v, f)
    <3>1. PICK t \in Arena :
            /\ Leads(3, v, t) /\ mem[t][Off(3, v)].p /\ mem[t][Off(3, v)].ps
            /\ f = mem[t][Off(3, v)].f + (v % Span[3])
      BY <2>1 DEF HugeLeaf, Leads
    <3>2. WalkTo(3, v, t) /\ mem'[t][Off(3, v)] = mem[t][Off(3, v)]
      BY <1>5, <3>1
    <3> QED BY <3>1, <3>2 DEF Leaf, HugeLeaf, WalkTo
  <2>2. CASE PageLeaf(mem, toplevel, v, f)
    <3>1. PICK t \in Arena :
            /\ Leads(1, v, t) /\ mem[t][Off(1, v)].p /\ f = mem[t][Off(1, v)].f
      BY <2>2 DEF PageLeaf, Leads
    <3>2. WalkTo(1, v, t) /\ mem'[t][Off(1, v)] = mem[t][Off(1, v)]
      BY <1>5, <3>1
    <3> QED BY <3>1, <3>2 DEF Leaf, PageLeaf, WalkTo
  <2> QED BY <1>7, <2>1, <2>2 DEF Leaf
<1>8. ASSUME NEW c \in 0 .. (JobSpan - 1), v = V + c, f = P + c
      PROVE  Leaf(mem', toplevel', v, f)
  <2>1. /\ Off(4, v) = Off(4, V) /\ Off(3, v) = Off(3, V)
        /\ job.huge => (v % Span[3]) = c
        /\ ~job.huge => c = 0 /\ v = V
    BY <1>2, <1>8, ChunkPath
  <2>2. P \in Nat
    BY <1>1, JobTypes
  <2>3. CASE job.huge
    <3>1. Leads(3, V, walk.tbl) /\ mem'[walk.tbl][Off(3, v)] = NewPage
      BY <1>2, <1>3, <2>1, <2>3 DEF LeafLevel
    <3>2. WalkTo(3, v, walk.tbl)
      <4>1. Leads(3, v, walk.tbl)
        BY <2>1, <3>1 DEF Leads, Path
      <4> QED BY <1>5, <4>1
    <3>3. f = NewPage.f + (v % Span[3]) /\ NewPage.p /\ NewPage.ps
      BY <1>8, <2>1, <2>3 DEF NewPage
    <3> QED BY <1>2, <3>1, <3>2, <3>3 DEF Leaf, HugeLeaf, WalkTo
  <2>4. CASE ~job.huge
    <3>1. Leads(1, v, walk.tbl) /\ mem'[walk.tbl][Off(1, v)] = NewPage
      BY <1>2, <1>3, <2>1, <2>4 DEF LeafLevel
    <3>2. WalkTo(1, v, walk.tbl)
      BY <1>5, <3>1
    <3>3. f = NewPage.f /\ NewPage.p
      BY <1>8, <2>1, <2>2, <2>4 DEF NewPage
    <3> QED BY <1>2, <3>1, <3>2, <3>3 DEF Leaf, PageLeaf, WalkTo
  <2> QED BY <2>3, <2>4
<1>9. ASSUME NEW t, NEW l \in {1, 3}, Leads(l, v, t),
             mem'[t][Off(l, v)] # mem[t][Off(l, v)]
      PROVE  /\ t = walk.tbl /\ l = LeafLevel /\ Off(l, v) = Off(l, V)
             /\ mem'[t][Off(l, v)] = NewPage /\ SameAbove(l, v, V)
  <2>1. t \in Arena /\ role[t] = l
    BY <1>5, <1>9
  <2>2. t = walk.tbl /\ Off(l, v) = Off(LeafLevel, V)
    BY <1>3, <1>4, <1>9, <2>1
  <2>3. l = LeafLevel
    BY <1>2, <2>1, <2>2
  <2>4. Leads(l, V, t)
    BY <1>2, <2>2, <2>3
  <2> QED BY <1>3, <1>9, <2>2, <2>3, <2>4, LeadsApart DEF Levels
<1>10. ASSUME Leaf(mem', toplevel', v, f), ~Leaf(mem, toplevel, v, f)
       PROVE  \E c \in 0 .. (JobSpan - 1) : v = V + c /\ f = P + c
  <2>0. /\ V \in 0 .. (NV - 1)
        /\ job.huge => JobSpan = Span[3] /\ V % Span[3] = 0
        /\ ~job.huge => JobSpan = 1
    BY <1>2, ChunkFacts
  <2>1. CASE HugeLeaf(mem', toplevel', v, f)
    <3>1. PICK t \in Arena :
            /\ WalkTo(3, v, t) /\ mem'[t][Off(3, v)].p /\ mem'[t][Off(3, v)].ps
            /\ f = mem'[t][Off(3, v)].f + (v % Span[3])
      BY <2>1 DEF HugeLeaf, WalkTo
    <3>2. Leads(3, v, t)
      BY <1>6, <3>1
    <3>3. mem'[t][Off(3, v)] # mem[t][Off(3, v)]
      <4> SUFFICES ASSUME mem'[t][Off(3, v)] = mem[t][Off(3, v)]
                   PROVE  HugeLeaf(mem, toplevel, v, f)
        BY <1>10 DEF Leaf
      <4> QED BY <3>1, <3>2 DEF HugeLeaf, Leads
    <3>4. /\ 3 = LeafLevel /\ Off(3, v) = Off(3, V) /\ Off(4, v) = Off(4, V)
          /\ mem'[t][Off(3, v)] = NewPage
      BY <1>9, <3>2, <3>3 DEF SameAbove
    <3>5. job.huge
      BY <3>4 DEF LeafLevel
    <3>6. v % Span[3] \in 0 .. (Span[3] - 1) /\ v = V + (v % Span[3])
      BY <2>0, <3>4, <3>5, HugeOther
    <3>7. f = P + (v % Span[3])
      BY <3>1, <3>4 DEF NewPage
    <3> QED BY <2>0, <3>5, <3>6, <3>7
  <2>2. CASE PageLeaf(mem', toplevel', v, f)
    <3>1. PICK t \in Arena :
            /\ WalkTo(1, v, t) /\ mem'[t][Off(1, v)].p
            /\ f = mem'[t][Off(1, v)].f
      BY <2>2 DEF PageLeaf, WalkTo
    <3>2. Leads(1, v, t)
      BY <1>6, <3>1
    <3>3. mem'[t][Off(1, v)] # mem[t][Off(1, v)]
      <4> SUFFICES ASSUME mem'[t][Off(1, v)] = mem[t][Off(1, v)]
                   PROVE  PageLeaf(mem, toplevel, v, f)
        BY <1>10 DEF Leaf
      <4> QED BY <3>1, <3>2 DEF PageLeaf, Leads
    <3>4. /\ 1 = LeafLevel /\ \A l \in Levels : Off(l, v) = Off(l, V)
          /\ mem'[t][Off(1, v)] = NewPage
      BY <1>9, <3>2, <3>3 DEF SameAbove, Levels
    <3>5. ~job.huge
      BY <3>4 DEF LeafLevel
    <3>6. v = V
      BY <2>0, <3>4, SamePage
    <3>7. f = P /\ P \in Nat
      BY <1>1, <3>1, <3>4, JobTypes DEF NewPage
    <3> QED BY <2>0, <3>5, <3>6, <3>7
  <2> QED BY <1>10, <2>1, <2>2 DEF Leaf
<1> QED BY <1>7, <1>8, <1>10

-----------------------------------------------------------------------------
(***************************************************************************)
(* The steps of the address space.                                         *)
(***************************************************************************)
NoneBefore == stage = "setup_vm" => toplevel = NULL

RefineInv == SpaceInv /\ HugeInHhdm /\ NoneBefore

LEMMA RefineInit ==
  ASSUME Init
  PROVE  RefineInv
<1>1. SpaceInv
  BY SpaceInit
<1>2. toplevel \notin Arena
  BY ArenaAssumption DEF Init, Arena, NULL
<1>3. NoneBefore
  BY DEF Init, NoneBefore
<1> QED BY <1>1, <1>2, <1>3, LeadsLevel DEF RefineInv, HugeInHhdm, SpaceInv, Levels

LEMMA RefineNext ==
  ASSUME RefineInv, [Next]_vars
  PROVE  RefineInv'
<1>1. /\ SpaceInv /\ IInv /\ OnPath /\ JobArgs /\ ActiveTables /\ HugeInHhdm
      /\ NoneBefore
  BY DEF RefineInv, SpaceInv
<1>2. CASE Next
  <2>1. NoneBefore'
    BY <1>1, <1>2, StageBack, NextToplevelStep DEF NoneBefore, ExecProcess
  <2> QED BY <1>1, <1>2, <2>1, SpaceNext, HugeInHhdmStep DEF RefineInv
<1>3. CASE UNCHANGED vars
  <2>1. HugeInHhdm' /\ NoneBefore'
    BY <1>1, <1>3 DEF HugeInHhdm, NoneBefore, Leads, vars
  <2> QED BY <1>1, <1>3, <2>1, SpaceStutters DEF RefineInv
<1> QED BY <1>2, <1>3

LEMMA PairsOfLeaves ==
  ASSUME NEW ts, NEW us, NEW top, NEW u2, top # NULL, u2 # NULL,
         \A v \in 0 .. (NV - 1) : \A f : Leaf(us, u2, v, f) <=> Leaf(ts, top, v, f)
  PROVE  Pairs(us, u2) = Pairs(ts, top)
BY DEF Pairs

LEMMA SpaceOfWalk ==
  ASSUME RefineInv, RefineInv', WalkNew
  PROVE  Space' = Space
<1>1. /\ IInv /\ OnPath /\ JobArgs /\ HugeInHhdm /\ IInv'
  BY DEF RefineInv, SpaceInv
<1>2. toplevel' = toplevel /\ toplevel # NULL
  BY <1>1, WritesOnPath, ArenaAssumption DEF Arena, NULL
<1>3. \A v \in 0 .. (NV - 1) : \A f :
        Leaf(mem', toplevel', v, f) <=> Leaf(mem, toplevel, v, f)
  BY <1>1, WalkNewLeaf
<1>4. Pairs(mem', toplevel') = Pairs(mem, toplevel)
  BY <1>2, <1>3, PairsOfLeaves
<1> QED BY <1>1, <1>4, SpaceIsPairs, SpaceIsPairsNext

LEMMA SpaceOfPage ==
  ASSUME RefineInv, RefineInv', SetPage
  PROVE  /\ Space' = Space \union {<<V + c, P + c>> : c \in 0 .. (JobSpan - 1)}
         /\ \A c \in 0 .. (JobSpan - 1) : \A m \in Space : m[1] # V + c
<1>1. /\ IInv /\ OnPath /\ JobArgs /\ IInv' /\ TypeOK
  BY DEF RefineInv, SpaceInv, IInv
<1>2. toplevel' = toplevel /\ toplevel # NULL /\ job.st = "map"
  BY <1>1, WritesOnPath, ArenaAssumption DEF Arena, NULL
<1>3. \A v \in 0 .. (NV - 1) : \A f : Leaf(mem', toplevel', v, f) <=>
           \/ Leaf(mem, toplevel, v, f)
           \/ \E c \in 0 .. (JobSpan - 1) : v = V + c /\ f = P + c
  BY <1>1, SetPageLeaf
<1>4. Space = Pairs(mem, toplevel) /\ Space' = Pairs(mem', toplevel')
  BY <1>1, SpaceIsPairs, SpaceIsPairsNext
<1>5. \A c \in 0 .. (JobSpan - 1) : V + c \in 0 .. (NV - 1) /\ P + c \in Nat
  <2>1. P \in Nat /\ JobSpan \in Nat
    BY <1>1, JobTypes
  <2> QED BY <1>1, <1>2, <2>1, ChunkPath
<1>6. Space' = Space \union {<<V + c, P + c>> : c \in 0 .. (JobSpan - 1)}
  <2>1. ASSUME NEW v \in 0 .. (NV - 1), NEW f \in Nat
        PROVE  <<v, f>> \in Pairs(mem', toplevel') <=>
                 \/ <<v, f>> \in Pairs(mem, toplevel)
                 \/ \E c \in 0 .. (JobSpan - 1) : <<v, f>> = <<V + c, P + c>>
    BY <1>2, <1>3 DEF Pairs
  <2>2. ASSUME NEW m \in (0 .. (NV - 1)) \X Nat
        PROVE  m \in Space' <=>
                 \/ m \in Space
                 \/ \E c \in 0 .. (JobSpan - 1) : m = <<V + c, P + c>>
    <3>1. PICK v \in 0 .. (NV - 1), f \in Nat : m = <<v, f>>
      OBVIOUS
    <3> QED BY <1>4, <2>1, <3>1
  <2>3. /\ Space \subseteq (0 .. (NV - 1)) \X Nat
        /\ Space' \subseteq (0 .. (NV - 1)) \X Nat
        /\ \A c \in 0 .. (JobSpan - 1) : <<V + c, P + c>> \in (0 .. (NV - 1)) \X Nat
    BY <1>4, <1>5 DEF Pairs
  <2> QED BY <2>2, <2>3
<1>7. ASSUME NEW c \in 0 .. (JobSpan - 1), NEW m \in Space
      PROVE  m[1] # V + c
  BY <1>1, <1>2, <1>4, SetPageFree DEF Pairs
<1> QED BY <1>6, <1>7

LEMMA SpaceOfProcess ==
  ASSUME RefineInv, RefineInv', ExecProcess, CanAlloc(1)
  PROVE  Space' = {m \in Space : m[1] \in Half .. (NV - 1)}
<1>1. /\ IInv /\ ActiveTables /\ IInv' /\ TypeOK /\ StageSound
  BY DEF RefineInv, SpaceInv, IInv
<1>2. toplevel # NULL /\ toplevel' # NULL
  BY <1>1, AllocOne DEF ExecProcess, StageSound
<1>3. Space = Pairs(mem, toplevel) /\ Space' = Pairs(mem', toplevel')
  BY <1>1, SpaceIsPairs, SpaceIsPairsNext
<1>4. ASSUME NEW v \in 0 .. (NV - 1), NEW f
      PROVE  Leaf(mem', toplevel', v, f) <=> v >= Half /\ Leaf(mem, toplevel, v, f)
  <2>1. ASSUME NEW t, NEW l \in {1, 3}
        PROVE  /\ Path(mem', toplevel', l, v, t)
                    <=> v >= Half /\ Path(mem, toplevel, l, v, t)
               /\ Path(mem, toplevel, l, v, t) => mem'[t] = mem[t]
    BY <1>1, ExecPaths DEF Leads
  <2>2. HugeLeaf(mem', toplevel', v, f) <=> v >= Half /\ HugeLeaf(mem, toplevel, v, f)
    BY <2>1 DEF HugeLeaf
  <2>3. PageLeaf(mem', toplevel', v, f) <=> v >= Half /\ PageLeaf(mem, toplevel, v, f)
    BY <2>1 DEF PageLeaf
  <2> QED BY <2>2, <2>3 DEF Leaf
<1>5. \A v \in 0 .. (NV - 1) : v >= Half <=> v \in Half .. (NV - 1)
  BY HalfFacts
<1> QED BY <1>2, <1>3, <1>4, <1>5 DEF Pairs

LEMMA SpaceOfSetup ==
  ASSUME RefineInv, RefineInv', SetupVm
  PROVE  Space' = Space
<1>1. /\ IInv /\ IInv' /\ TypeOK /\ toplevel = NULL
  BY DEF RefineInv, SpaceInv, IInv, NoneBefore, SetupVm
<1>2. CASE toplevel' = toplevel
  BY <1>1, <1>2, SpaceIsPairs, SpaceIsPairsNext DEF Pairs
<1>3. CASE toplevel' # toplevel
  <2>1. \A v \in 0 .. (NV - 1) : \A f : ~Leaf(mem', toplevel', v, f)
    BY <1>1, <1>3, SetupPaths DEF Leaf, HugeLeaf, PageLeaf
  <2>2. Pairs(mem', toplevel') = {}
    BY <2>1 DEF Pairs
  <2> QED BY <1>1, <2>2, SpaceIsPairs, SpaceIsPairsNext DEF Pairs
<1> QED BY <1>2, <1>3

LEMMA SpaceStays ==
  ASSUME RefineInv, RefineInv', Next, ~SetPage, ~ExecProcess
  PROVE  Space' = Space
<1>1. CASE WalkNew
  BY <1>1, SpaceOfWalk
<1>2. CASE SetupVm
  BY <1>2, SpaceOfSetup
<1>3. CASE UNCHANGED <<mem, toplevel>>
  BY <1>3 DEF Space, Mapped, FrameOf, Pml4e, Pdpte, Pde, Pte
<1> QED BY <1>1, <1>2, <1>3, NextMemStep, NextToplevelStep DEF WalkNew, SetupVm

\* A call begins.
LEMMA AskStep ==
  ASSUME Space' = Space, job.st # "map", job'.i = 0,
         job'.st \in {"map", "ok", "failed"}, job'.st = "ok" => job'.n = 0
  PROVE  AS!Ask
BY DEF AS!Ask, Req

LEMMA NewMapAsks ==
  ASSUME NEW by, NEW v, NEW p, NEW n, NEW w, NEW u, NEW huge,
         NewMap(by, v, p, n, w, u, huge)
  PROVE  /\ job'.i = 0 /\ job'.st \in {"map", "ok", "failed"}
         /\ job'.st = "ok" => job'.n = 0
BY DEF NewMap

LEMMA MapallocAsks ==
  ASSUME NEW by, NEW v, NEW n, NEW w, NEW u, MapallocPages(by, v, n, w, u)
  PROVE  /\ job'.i = 0 /\ job'.st \in {"map", "ok", "failed"}
         /\ job'.st = "ok" => job'.n = 0
<1>1. CASE NewMap(by, v, arena_head, n, w, u, FALSE)
  BY <1>1, NewMapAsks
<1>2. CASE job' = [Idle EXCEPT !.st = "failed", !.by = by, !.v = v, !.n = n]
  BY <1>2 DEF Idle
<1> QED BY <1>1, <1>2 DEF MapallocPages

\* A call ends.
LEMMA ReturnStep ==
  ASSUME Space' = Space, job.st \in {"ok", "failed"}, job' = Idle
  PROVE  AS!Return
BY DEF AS!Return, AS!NoReq, Req, Idle, JobSpan

(***************************************************************************)
(* Every step is one of the address space, or none.                        *)
(***************************************************************************)
LEMMA RefineStep ==
  ASSUME RefineInv, RefineInv', Next
  PROVE  AS!ASNext \/ UNCHANGED <<Space, Req>>
<1>1. IInv /\ TypeOK /\ StageSound
  BY DEF RefineInv, SpaceInv, IInv
<1>2. CASE WalkCached \/ WalkExisting \/ WalkNew
  <2>1. job' = job /\ ~SetPage /\ ~ExecProcess
    <3>1. job' = job /\ job.st = "map" /\ walk.lvl > LeafLevel
      BY <1>2 DEF WalkCached, WalkExisting, WalkNew, Walking
    <3>2. walk.lvl # LeafLevel
      <4>1. walk.lvl \in Nat /\ LeafLevel \in Nat
        BY <1>1 DEF TypeOK, Levels, LeafLevel
      <4> QED BY <3>1, <4>1
    <3> QED BY <3>1, <3>2 DEF SetPage, AtLeaf, ExecProcess
  <2> QED BY <2>1, SpaceStays DEF Req, JobSpan
<1>3. CASE WalkFails \/ PageInUse
  <2>1. /\ job.st = "map" /\ job' = [job EXCEPT !.st = "failed"]
        /\ UNCHANGED <<mem, toplevel>>
    BY <1>3 DEF WalkFails, PageInUse, Walking, AtLeaf
  <2>2. Space' = Space
    BY <2>1 DEF Space, Mapped, FrameOf, Pml4e, Pdpte, Pde, Pte
  <2>3. Req' = [Req EXCEPT !.st = "failed"] /\ Req.st = "map"
    BY <1>1, <2>1 DEF Req, JobSpan, TypeOK
  <2> QED BY <2>2, <2>3 DEF AS!ASNext, AS!GiveUp
<1>4. CASE SetPage
  <2>1. /\ job.st = "map"
        /\ job' = [job EXCEPT !.i = @ + 1,
                              !.st = IF job.i + 1 = job.n THEN "ok" ELSE "map"]
    BY <1>4 DEF SetPage, AtLeaf
  <2>2. Req' = [Req EXCEPT !.i = @ + 1,
                           !.st = IF Req.i + 1 = Req.n THEN "ok" ELSE "map"]
    <3>1. /\ job'.st = IF job.i + 1 = job.n THEN "ok" ELSE "map"
          /\ job'.v = job.v /\ job'.p = job.p /\ job'.n = job.n
          /\ job'.huge = job.huge /\ job'.i = job.i + 1
      BY <1>1, <2>1 DEF TypeOK
    <3>2. JobSpan' = JobSpan
      BY <3>1 DEF JobSpan
    <3>3. Req' = [st |-> IF job.i + 1 = job.n THEN "ok" ELSE "map", v |-> job.v,
                  p |-> job.p, n |-> job.n, span |-> JobSpan, i |-> job.i + 1]
      BY <3>1, <3>2, Zenon DEF Req
    <3> DEFINE j == job.i + 1
               s == IF job.i + 1 = job.n THEN "ok" ELSE "map"
    <3>4. Req.i + 1 = j /\ (IF Req.i + 1 = Req.n THEN "ok" ELSE "map") = s
      <4>1. Req.i = job.i /\ Req.n = job.n
        BY DEF Req
      <4> QED BY <4>1, Zenon
    <3> HIDE DEF j, s
    <3>5. [Req EXCEPT !.i = j, !.st = s] =
            [st |-> s, v |-> job.v, p |-> job.p, n |-> job.n,
             span |-> JobSpan, i |-> j]
      <4> DEFINE R == [st |-> job.st, v |-> job.v, p |-> job.p, n |-> job.n,
                       span |-> JobSpan, i |-> j]
      <4>1. [Req EXCEPT !.i = j] = R
        BY DEF Req
      <4>2. [R EXCEPT !.st = s] =
              [st |-> s, v |-> job.v, p |-> job.p, n |-> job.n,
               span |-> JobSpan, i |-> j]
        OBVIOUS
      <4>3. [Req EXCEPT !.i = j, !.st = s] = [[Req EXCEPT !.i = j] EXCEPT !.st = s]
        BY DEF Req
      <4> HIDE DEF R
      <4> QED BY <4>1, <4>2, <4>3
    <3>6. Req' = [Req EXCEPT !.i = j, !.st = s]
      BY <3>3, <3>5, Zenon DEF j, s
    <3> QED BY <3>4, <3>6, Zenon
  <2>3. AS!Chunk = 0 .. (JobSpan - 1)
    BY DEF AS!Chunk, Req
  <2>4. \A c \in AS!Chunk : AS!NextPage(c) = V + c /\ AS!NextFrame(c) = P + c
    BY DEF AS!NextPage, AS!NextFrame, Req, V, P
  <2>5. /\ Space' = Space \union {<<AS!NextPage(c), AS!NextFrame(c)>> : c \in AS!Chunk}
        /\ \A c \in AS!Chunk : \A m \in Space : m[1] # AS!NextPage(c)
    BY <1>4, <2>3, <2>4, SpaceOfPage
  <2>6. Req.st = "map"
    BY <2>1 DEF Req
  <2> QED BY <2>2, <2>5, <2>6 DEF AS!ASNext, AS!MapNext
<1>5. CASE ExecProcess
  <2>1. job' = job /\ job.st = "idle"
    BY <1>5 DEF ExecProcess
  <2>2. Req' = Req /\ Req.st # "map"
    BY <2>1 DEF Req, JobSpan
  <2>3. CASE CanAlloc(1)
    BY <1>5, <2>2, <2>3, SpaceOfProcess DEF AS!ASNext, AS!NewProcess
  <2>4. CASE ~CanAlloc(1)
    <3>1. UNCHANGED <<mem, toplevel>>
      BY <1>5, <2>4 DEF ExecProcess
    <3> QED BY <2>2, <3>1 DEF Space, Mapped, FrameOf, Pml4e, Pdpte, Pde, Pte
  <2> QED BY <2>3, <2>4
<1>6. CASE ~MapStep /\ ~ExecProcess
  <2>1. Space' = Space /\ job.st # "map"
    BY <1>1, <1>6, SpaceStays, CallerFacts DEF MapStep
  <2>2. CASE job' = job
    BY <2>1, <2>2 DEF Req, JobSpan
  <2>3. CASE \/ ActivateToplevel \/ MmioMapped \/ RequestReturns
             \/ CopySegment \/ WriteStack
    <3>1. job' = job \/ (job.st \in {"ok", "failed"} /\ job' = Idle)
      BY <2>3 DEF ActivateToplevel, MmioMapped, RequestReturns, CopySegment,
                  WriteStack, Returned
    <3> QED BY <2>1, <2>2, <3>1, ReturnStep DEF AS!ASNext
  <2>4. CASE SetupVm \/ MapHhdm \/ MapMmio
    <3>1. \/ job' = job
          \/ /\ job'.i = 0 /\ job'.st \in {"map", "ok", "failed"}
             /\ job'.st = "ok" => job'.n = 0
      BY <2>4, NewMapAsks DEF SetupVm, MapHhdm, MapMmio
    <3> QED BY <2>1, <2>2, <3>1, AskStep DEF AS!ASNext
  <2>5. CASE RequestPages \/ LoadMapping \/ MapUserStack \/ RequestKernelStack
    <3>1. \/ job' = job
          \/ /\ job'.i = 0 /\ job'.st \in {"map", "ok", "failed"}
             /\ job'.st = "ok" => job'.n = 0
      BY <2>5, MapallocAsks
         DEF RequestPages, LoadMapping, MapUserStack, RequestKernelStack
    <3> QED BY <2>1, <2>2, <3>1, AskStep DEF AS!ASNext
  <2>6. CASE SetupVmPanics \/ MadtDone
    BY <2>2, <2>6 DEF SetupVmPanics, MadtDone
  <2> QED BY <1>6, <2>3, <2>4, <2>5, <2>6 DEF Next
<1> QED BY <1>2, <1>3, <1>4, <1>5, <1>6 DEF MapStep

(***************************************************************************)
(* The page tables, the caches and the allocator implement an address      *)
(* space: each step of map_pages maps exactly the pages it is asked for,   *)
(* which were not mapped, or nothing; no other step maps or unmaps a page, *)
(* but for exec_process, which keeps exactly the upper half                *)
(* (map_pages.c:46-128, exec_process.c:29-36).                             *)
(***************************************************************************)
THEOREM TablesAreASpace == Spec => ImplementsAddressSpace
<1>1. Init => RefineInv
  BY RefineInit
<1>2. RefineInv /\ [Next]_vars => RefineInv'
  BY RefineNext
<1>3. Init => AS!ASInit
  BY DEF Init, AS!ASInit, AS!NoReq, Space, Req, Idle, JobSpan
<1>4. RefineInv /\ RefineInv' /\ [Next]_vars => [AS!ASNext]_<<Space, Req>>
  <2>1. ASSUME UNCHANGED vars PROVE UNCHANGED <<Space, Req>>
    BY <2>1 DEF vars, Space, Req, JobSpan, Mapped, FrameOf, Pml4e, Pdpte, Pde, Pte
  <2> QED BY <2>1, RefineStep
<1> QED BY <1>1, <1>2, <1>3, <1>4, PTL DEF Spec, ImplementsAddressSpace, AS!ASSpec
=============================================================================
