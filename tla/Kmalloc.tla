------------------------------ MODULE Kmalloc ------------------------------
(***************************************************************************)
(* kmalloc: a bump allocator in a block of pages, over request_pages.      *)
(* Addresses and sizes are in bytes.  request_pages is as in Vm, but how   *)
(* its mapping goes is a choice: it refuses when the window is full, and   *)
(* otherwise moves its head and returns the pages or, when a frame is      *)
(* missing, NULL.  load_module, exec_elf and exec_process ask it for pages *)
(* of their own between the calls of kmalloc.                              *)
(***************************************************************************)
EXTENDS Integers

CONSTANTS
  PageSize,     \* PAGE_SIZE
  VmBegin,      \* VM_BEGIN_REQUEST
  VmEnd,        \* VM_END_REQUEST
  Sizes,        \* the sizes asked of kmalloc
  PageCounts    \* the page counts others ask of request_pages

(***************************************************************************)
(* The sizes are such that no 64-bit sum or product of the code wraps.     *)
(***************************************************************************)
ASSUME KmallocAssumption ==
  /\ PageSize \in Nat \ {0}
  /\ VmBegin \in Nat /\ VmEnd \in Nat /\ 0 < VmBegin /\ VmBegin <= VmEnd
  /\ Sizes \subseteq Nat /\ PageCounts \subseteq Nat

VARIABLES
  vm_arena_head,    \* next address of request_pages
  current_base,     \* kmalloc's block,
  current_offset,   \* the bytes of it that are in use,
  current_size,     \* and its size
  allocs,           \* history: what kmalloc returned
  pages             \* history: what request_pages returned to others

kvars == <<vm_arena_head, current_base, current_offset, current_size,
           allocs, pages>>

NULL == 0

KmallocInit ==
  /\ vm_arena_head = VmBegin
  /\ current_base = NULL
  /\ current_offset = 0
  /\ current_size = 0
  /\ allocs = {}
  /\ pages = {}

\* request_pages: does it have the room, and where its head goes.
CanRequest(n) == vm_arena_head + n * PageSize <= VmEnd
MoveHead(n) == vm_arena_head' = vm_arena_head + n * PageSize

(***************************************************************************)
(* kmalloc(size).                                                          *)
(***************************************************************************)
Fits_OldOffset(size) == current_offset < current_size   \* variant
Fits(size) == current_offset + size < current_size

BlockPages_Exact(size) == size \div PageSize    \* variant: no + 1
BlockPages(size) == size \div PageSize + 1

NewBlock_KeepsOffset(size) ==                   \* variant: offset not reset
  /\ current_base' = vm_arena_head
  /\ current_offset' = current_offset + size
  /\ current_size' = BlockPages(size) * PageSize
NewBlock(size) ==
  /\ current_base' = vm_arena_head
  /\ current_offset' = size
  /\ current_size' = BlockPages(size) * PageSize

\* The block has room.
KmallocFits(size) ==
  /\ Fits(size)
  /\ allocs' = allocs \union
                 {[a |-> current_base + current_offset, n |-> size]}
  /\ current_offset' = current_offset + size
  /\ UNCHANGED <<vm_arena_head, current_base, current_size, pages>>

\* A new block takes the place of the old one, whose rest is lost.
KmallocNewBlock(size) ==
  /\ ~Fits(size) /\ CanRequest(BlockPages(size))
  /\ MoveHead(BlockPages(size))
  /\ NewBlock(size)
  /\ allocs' = allocs \union {[a |-> vm_arena_head, n |-> size]}
  /\ UNCHANGED pages

\* No block: the head has moved if it was the mapping that failed.
KmallocFails(size) ==
  /\ ~Fits(size)
  /\ \/ CanRequest(BlockPages(size)) /\ MoveHead(BlockPages(size))
     \/ ~CanRequest(BlockPages(size)) /\ UNCHANGED vm_arena_head
  /\ UNCHANGED <<current_base, current_offset, current_size, allocs, pages>>

\* Another caller of request_pages.
RequestPages(n) ==
  /\ CanRequest(n)
  /\ MoveHead(n)
  /\ \/ pages' = pages \union {[a |-> vm_arena_head, n |-> n * PageSize]}
     \/ UNCHANGED pages
  /\ UNCHANGED <<current_base, current_offset, current_size, allocs>>

KmallocNext ==
  \/ \E size \in Sizes : \/ KmallocFits(size) \/ KmallocNewBlock(size)
                         \/ KmallocFails(size)
  \/ \E n \in PageCounts : RequestPages(n)

KmallocSpec == KmallocInit /\ [][KmallocNext]_kvars

-----------------------------------------------------------------------------
(***************************************************************************)
(* Types.  The block lies in the window below the head, and the used part  *)
(* of it ends before its last byte (kmalloc.c:12,17,22: a string that is   *)
(* copied without its terminator is followed by a byte of the block).      *)
(***************************************************************************)
TypeOK ==
  /\ vm_arena_head \in VmBegin .. VmEnd
  /\ current_base \in Nat /\ current_offset \in Nat /\ current_size \in Nat
  /\ allocs \subseteq [a : Nat, n : Nat]
  /\ pages \subseteq [a : Nat, n : Nat]
  /\ current_base + current_size <= vm_arena_head
  /\ current_base # NULL => /\ VmBegin <= current_base
                            /\ current_offset < current_size
  /\ current_base = NULL => current_offset = 0 /\ current_size = 0

(***************************************************************************)
(* Nothing is given out twice: what kmalloc returned and what              *)
(* request_pages returned to others are pairwise disjoint and lie in the   *)
(* window, across blocks, failed requests and other callers.               *)
(***************************************************************************)
H == INSTANCE Heap WITH Window <- VmBegin .. (VmEnd - 1),
                        live <- allocs \union pages
Bytes(x) == H!Bytes(x)

Disjoint ==
  /\ \A x \in allocs \union pages : Bytes(x) \subseteq VmBegin .. (VmEnd - 1)
  /\ \A x, y \in allocs \union pages :
       x = y \/ Bytes(x) \intersect Bytes(y) = {}

(***************************************************************************)
(* Each call is a step of the abstract heap, or gives nothing              *)
(* (kmalloc.c:10-26 over request_pages.c:8-27).                            *)
(***************************************************************************)
ImplementsHeap == H!HeapSpec
=============================================================================
