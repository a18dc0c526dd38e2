------------------------------- MODULE MemMap -------------------------------
(***************************************************************************)
(* Where the physical memory comes from: parse_memmap reads the boot       *)
(* loader's map, once to count its entries and once to list them, and      *)
(* setup_pm takes the arena of the page allocator (arena_begin and         *)
(* arena_end of Vm) from that list.                                        *)
(*                                                                         *)
(* Memory is numbered by any unit.  An entry of the map is [size, addr,    *)
(* len, type], where size does not count the field that holds it.  The     *)
(* list is the part of the stack that begins at the array list[]: a place  *)
(* never written holds what was there, one of Garbage.                     *)
(***************************************************************************)
EXTENDS Integers, SequencesExt, FiniteSetsExt

CONSTANTS
  Maps,              \* [given, map, tail]: MULTIBOOT_INFO_MEM_MAP is
                     \* set or not, the map, and what is behind it
  Garbage,           \* what a place of the stack may hold, [addr, len, type]
  SIZE_FIELD,        \* the bytes of the field size (4)
  KERNEL_START_LOW, KERNEL_TEXT_PHYSICAL, KERNEL_END_PHYSICAL

KERNEL_SIZE == KERNEL_END_PHYSICAL - KERNEL_TEXT_PHYSICAL

MEMMAP_NULL == 0
MEMMAP_AVAILABLE == 1
MEMMAP_KERNEL == 6

Zero == [size |-> 0, addr |-> 0, len |-> 0, type |-> 0]

MapEntry == [size : Nat, addr : Nat, len : Nat, type : Nat]

Constants ==
  /\ SIZE_FIELD \in Nat
  /\ {KERNEL_START_LOW, KERNEL_TEXT_PHYSICAL, KERNEL_END_PHYSICAL} \subseteq Nat
  /\ 0 < KERNEL_START_LOW /\ KERNEL_START_LOW < KERNEL_TEXT_PHYSICAL
  /\ KERNEL_TEXT_PHYSICAL < KERNEL_END_PHYSICAL
  /\ \A m \in Maps :
       /\ m \in [given : BOOLEAN, map : Seq(MapEntry), tail : Seq(MapEntry)]
       /\ \A j \in DOMAIN m.map : m.map[j].size > 0
  /\ Garbage \subseteq [addr : Nat, len : Nat, type : Nat]

VARIABLES
  stage,       \* "count", "list", "pick", or how it ended
  boot,        \* the map, and what is behind it
  k,           \* the entry of the map at mmap
  size_read,
  i,           \* the next place of the list
  memmap_len,  \* the length of list[], of the first pass
  list,
  arena_begin, arena_end

arena == <<arena_begin, arena_end>>
reading == <<k, size_read, i>>
vars == <<stage, boot, reading, memmap_len, list, arena>>

Entry == IF k <= Len(boot.map) THEN boot.map[k]
         ELSE IF k - Len(boot.map) <= Len(boot.tail)
         THEN boot.tail[k - Len(boot.map)] ELSE Zero
BytesOf(es) == FoldLeft(LAMBDA n, e : n + e.size + SIZE_FIELD, 0, es)
mmap_length == BytesOf(boot.map)

Init ==
  /\ stage = "count" /\ boot \in Maps
  /\ k = 1 /\ size_read = 0 /\ i = 0 /\ memmap_len = 0
  /\ list = <<>>
  /\ arena_begin = 0 /\ arena_end = 0

-----------------------------------------------------------------------------
InLoop == stage \in {"count", "list"} /\ boot.given /\ size_read <= mmap_length

MoveOn ==
  /\ k' = k + 1 /\ size_read' = size_read + Entry.size
  /\ UNCHANGED <<stage, boot, memmap_len, arena>>

\* The list with es written from place i on, which the first pass does not.
Put(es) ==
  LET places == i .. i + Len(es) - 1
  IN  list' = IF stage = "list"
              THEN [p \in DOMAIN list \union places |->
                      IF p \in places THEN es[p - i + 1] ELSE list[p]]
              ELSE list
Listed(e) == [addr |-> e.addr, len |-> e.len, type |-> e.type]

Kernel == [addr |-> KERNEL_START_LOW, len |-> KERNEL_SIZE,
           type |-> MEMMAP_KERNEL]
RestBegin_FromStart == KERNEL_START_LOW + KERNEL_SIZE            \* variant
RestBegin == KERNEL_END_PHYSICAL

\* What is left of a region of which the kernel takes the beginning.
Rest(e) == [e EXCEPT !.addr = RestBegin, !.len = @ - KERNEL_SIZE]
Split(e) == IF e.len > KERNEL_SIZE THEN <<Kernel, Rest(e)>> ELSE <<Kernel>>

HasKernel(e) ==
  /\ e.addr >= KERNEL_START_LOW /\ e.type = MEMMAP_AVAILABLE
  /\ e.addr # KERNEL_START_LOW => e.addr + e.len <= KERNEL_END_PHYSICAL

Region ==
  /\ InLoop /\ Entry.size # 0 /\ ~HasKernel(Entry)
  /\ Put(<<Listed(Entry)>>) /\ i' = i + 1
  /\ MoveOn

KernelRegion ==
  /\ InLoop /\ Entry.size # 0 /\ HasKernel(Entry)
  /\ Entry.addr = KERNEL_START_LOW
  /\ Put(Split(Listed(Entry))) /\ i' = i + 2
  /\ MoveOn

\* A region within the kernel's own memory grows by what is before it, and
\* the place after it, not written yet, is split.
RegionInKernel ==
  /\ InLoop /\ Entry.size # 0 /\ HasKernel(Entry)
  /\ Entry.addr # KERNEL_START_LOW
  /\ \E g \in Garbage :
       Put(<<[Listed(Entry) EXCEPT !.len = @ + Entry.addr - KERNEL_START_LOW]>>
             \o Split(g))
  /\ i' = i + 3
  /\ MoveOn

\* parse_memmap returns: the bytes that it counted, in entries.
Counted == i
PassOver ==
  /\ IF Counted = 0 THEN stage' = "panic" ELSE stage' = IF stage = "count"
                                                  THEN "list" ELSE "pick"
  /\ memmap_len' = Counted
  /\ k' = 1 /\ size_read' = 0 /\ i' = 0
  /\ UNCHANGED <<boot, arena>>

\* An entry of size zero is the end; it is written, not counted.  In the
\* first pass it is written to the start of memory.
Terminated ==
  /\ InLoop /\ Entry.size = 0
  /\ Put(<<[Listed(Entry) EXCEPT !.type = MEMMAP_NULL]>>)
  /\ PassOver

EndOfMap ==
  /\ stage \in {"count", "list"} /\ (boot.given => size_read > mmap_length)
  /\ IF boot.given THEN PassOver
     ELSE stage' = "panic" /\ UNCHANGED <<boot, reading, memmap_len, arena>>
  /\ UNCHANGED list

-----------------------------------------------------------------------------
Larger(e) == e.len > arena_end - arena_begin

Pick ==
  /\ stage = "pick" /\ i \in DOMAIN list /\ list[i].type # MEMMAP_NULL
  /\ IF list[i].type = MEMMAP_AVAILABLE /\ Larger(list[i])
     THEN arena_begin' = list[i].addr
          /\ arena_end' = list[i].addr + list[i].len
     ELSE UNCHANGED arena
  /\ i' = i + 1
  /\ UNCHANGED <<stage, boot, k, size_read, memmap_len, list>>

Picked ==
  /\ stage = "pick" /\ i \in DOMAIN list /\ list[i].type = MEMMAP_NULL
  /\ stage' = "done"
  /\ UNCHANGED <<boot, reading, memmap_len, list, arena>>

\* A place that was never written, within the list or behind it.
PickGarbage ==
  /\ stage = "pick" /\ i \notin DOMAIN list
  /\ stage' = "wild"
  /\ UNCHANGED <<boot, reading, memmap_len, list, arena>>

Next ==
  \/ Region \/ KernelRegion \/ RegionInKernel \/ Terminated \/ EndOfMap
  \/ Pick \/ Picked \/ PickGarbage

Spec == Init /\ [][Next]_vars

-----------------------------------------------------------------------------
(***************************************************************************)
(* A map as a PC has it: the kernel is in the region that begins with it,  *)
(* regions are not empty and do not overlap, each has a type (an entry of  *)
(* type 0 would end the list), and a zero is behind the map.               *)
(***************************************************************************)
Available == {j \in DOMAIN boot.map : boot.map[j].type = MEMMAP_AVAILABLE}
Cells(e) == e.addr .. e.addr + e.len - 1
KernelCells == KERNEL_START_LOW .. KERNEL_END_PHYSICAL - 1

PcMap ==
  /\ boot.given /\ boot.tail = <<>>
  /\ \A j \in DOMAIN boot.map : boot.map[j].type # MEMMAP_NULL
  /\ \A j \in Available : boot.map[j].len > 0
  /\ \E j \in Available : boot.map[j].addr = KERNEL_START_LOW
                            /\ KernelCells \subseteq Cells(boot.map[j])
  /\ \A j \in Available : \A h \in Available \ {j} :
       Cells(boot.map[j]) \intersect Cells(boot.map[h]) = {}

(***************************************************************************)
(* The list is written nowhere but within its array and, to end it, in the *)
(* place behind, of which the second pass knows only what the first one    *)
(* counted (setup_pm.c:20-25).                                             *)
(***************************************************************************)
ListFits ==
  stage \in {"list", "pick", "done"} =>
    \A j \in DOMAIN list :
      j \in 0 .. memmap_len /\ (j = memmap_len => list[j].type = MEMMAP_NULL)

(***************************************************************************)
(* The list ends on a PC, and the arena never contains the kernel          *)
(* (parse_memory_map.c:35-59).                                             *)
(***************************************************************************)
ArenaSparesKernel ==
  PcMap => /\ stage # "wild"
           /\ stage = "done" =>
                (arena_begin .. arena_end - 1) \intersect KernelCells = {}

(***************************************************************************)
(* The arena is a region that is available, or what is behind the kernel   *)
(* of the kernel's own, and no other has more free memory than the arena   *)
(* has (setup_pm.c:27-36).  But the kernel's region is taken for longer    *)
(* than it is, by what is before the kernel's text: an arena in it reaches *)
(* that far past its end (parse_memory_map.c:50-51).                       *)
(***************************************************************************)
IsKernels(j) == boot.map[j].addr = KERNEL_START_LOW
FreeBegin(j) == IF IsKernels(j) THEN KERNEL_END_PHYSICAL ELSE boot.map[j].addr
FreeEnd(j) == boot.map[j].addr + boot.map[j].len
Free(j) == FreeEnd(j) - FreeBegin(j)
Excess(j) == IF IsKernels(j) THEN KERNEL_TEXT_PHYSICAL - KERNEL_START_LOW ELSE 0

ArenaIsLargest ==
  PcMap /\ stage = "done" =>
    \E j \in Available :
      /\ arena_begin = FreeBegin(j) /\ arena_end = FreeEnd(j) + Excess(j)
      /\ \A h \in Available : Free(h) <= Free(j) + Excess(j)
=============================================================================
