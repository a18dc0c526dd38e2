-------------------------------- MODULE Boot --------------------------------
(***************************************************************************)
(* From the boot loader to the first user instruction: the tables, the     *)
(* descriptors and the modes of the processor, in the order of             *)
(* pmodeEntry.S and entry.  Each step executes code, and reads or writes   *)
(* data, through the addresses that are mapped at that moment.             *)
(*                                                                         *)
(* A virtual address is the triple of its indices in a PML4, a PDPT and a  *)
(* PD; physical memory is counted in pages of 2 MiB, and in the direct     *)
(* map, which has larger pages, by those (GB of them each).  Vm has the    *)
(* tables that setup_vm makes; here they are what they are to map.         *)
(***************************************************************************)
EXTENDS Integers, Sequences, FiniteSets

CONSTANTS
  Kernels,           \* what was linked: the pages of the high part, of
                     \* those the ones of the boot stack and of static_hhdm,
                     \* and the bytes of &tss
  PTABLE_LEN,        \* the entries of a table (512)
  HHDM_TABLES,       \* the PDPTs of the direct map (128)
  SPACING            \* how many entries 0x200 bytes are (64)

HHDM_PML4E_BEGIN == PTABLE_LEN \div 2
GB == PTABLE_LEN

Constants ==
  /\ PTABLE_LEN \in Nat /\ PTABLE_LEN > 3 /\ HHDM_TABLES \in 1 .. GB \div 2 - 1
  /\ SPACING \in 1 .. PTABLE_LEN
  /\ \A n \in Kernels : /\ n.pages \in Nat \ {0}
                        /\ n.stack < n.pages /\ n.table < n.pages
                        /\ n.tss \in [0 .. 7 -> 0 .. 255]

\* The sections .text.low and .data.low are in page 0, .text begins page 1.
LowPage == 0
TextPage == 1
Low == <<0, 0, 0>>
HighIndex == PTABLE_LEN - 2                     \* 0xFF0 / 8
High(n) == <<PTABLE_LEN - 1, PTABLE_LEN - 2, n>>
Hhdm(i, j) == <<HHDM_PML4E_BEGIN + i, j, 0>>

VARIABLES
  pc,          \* the number of the step that comes next
  kernel,
  lost,        \* a step could not be executed: the processor resets
  memory,      \* the boot tables: table and index to an entry
  cr3, paging,
  cs,          \* what the code segment is: "flat", "code32", "code64"
  gdtr,        \* the address of the descriptors
  gdt,         \* the descriptors' types by their selectors
  tss_bytes    \* the 16 bytes of the descriptor of the TSS

segments == <<cs, gdtr, gdt, tss_bytes>>
vars == <<pc, kernel, lost, memory, cr3, paging, segments>>

Blank == [to |-> "none", page |-> 0]
Table(t) == [to |-> t, page |-> 0]
Large(p) == [to |-> "page", page |-> p]

BootTables == {"pml4", "pml4e_low", "pml4e_high", "pdpte_low", "pdpte_high"}
Index == 0 .. PTABLE_LEN - 1

\* The descriptors of pmodeEntry.S; the byte codeaccess is that of 0x08.
BootGdt == [s \in {0, 8, 16, 24, 32, 40} |->
              CASE s = 8 -> "code32" [] s = 16 -> "data"
                [] s = 24 -> "user64" [] s = 32 -> "userdata"
                [] s = 40 -> "tss" [] OTHER -> "null"]
Unset == <<"zero", 0>>
TssAccess == <<"access", 137>>

Init ==
  /\ pc = 1 /\ kernel \in Kernels /\ lost = FALSE
  /\ memory = [t \in BootTables |-> [n \in Index |-> Blank]]
  /\ cr3 = "none" /\ paging = FALSE
  /\ cs = "flat" /\ gdtr = <<>> /\ gdt = BootGdt
  /\ tss_bytes = [n \in 0 .. 15 |-> IF n = 5 THEN TssAccess ELSE Unset]

-----------------------------------------------------------------------------
(***************************************************************************)
(* What the processor finds at an address: the page, or none.  The entry   *)
(* of a PML4 that points into the direct map's one long array of entries,  *)
(* static_hhdm, is cut to the page that holds it.                          *)
(***************************************************************************)
None == -1
StaticHhdm(first, j) == ((first \div PTABLE_LEN) * PTABLE_LEN + j) * GB

InKernel(v) ==
  CASE v[1] = PTABLE_LEN - 1 /\ v[2] = PTABLE_LEN - 2 /\ v[3] < kernel.pages ->
         TextPage + v[3]
    [] v[1] \in HHDM_PML4E_BEGIN .. HHDM_PML4E_BEGIN + HHDM_TABLES - 1 ->
         ((v[1] - HHDM_PML4E_BEGIN) * PTABLE_LEN + v[2]) * GB
    [] OTHER -> None

InBoot(v) ==
  LET e1 == memory["pml4"][v[1]]
  IN  IF e1.to = "hhdm" THEN StaticHhdm(e1.page, v[2])
      ELSE IF e1.to \notin BootTables THEN None
      ELSE LET e2 == memory[e1.to][v[2]]
           IN  IF e2.to \notin BootTables THEN None
               ELSE LET e3 == memory[e2.to][v[3]]
                    IN  IF e3.to = "page" THEN e3.page ELSE None

Translate(v) ==
  IF ~paging THEN IF v = Low THEN LowPage ELSE None
  ELSE IF cr3 = "kernel" THEN InKernel(v) ELSE InBoot(v)

\* The first gigabyte is one page of the direct map.
Maps(v, p) == IF v[1] = HHDM_PML4E_BEGIN
              THEN Translate(v) # None /\ p \in Translate(v) .. Translate(v) + GB - 1
              ELSE Translate(v) = p

\* Code, stack and data of the kernel's low and high part.
LowRuns == Maps(Low, LowPage)
Uses(n) == Maps(High(n), TextPage + n)
HighRuns == Uses(0) /\ Uses(kernel.stack)
AllRuns == \A n \in 0 .. kernel.pages - 1 : Uses(n)
GdtRead == Maps(gdtr, LowPage)

At(n, ok) == pc = n /\ ~lost /\ ok
Goes(n) == pc' = n + 1 /\ UNCHANGED <<kernel, lost>>

-----------------------------------------------------------------------------
LoadGdt ==
  /\ At(1, LowRuns)
  /\ gdtr' = Low
  /\ Goes(1) /\ UNCHANGED <<memory, cr3, paging, cs, gdt, tss_bytes>>

ReloadSegments ==
  /\ At(2, LowRuns /\ GdtRead /\ gdt[8] = "code32")
  /\ cs' = gdt[8]
  /\ Goes(2) /\ UNCHANGED <<memory, cr3, paging, gdtr, gdt, tss_bytes>>

FillTables ==
  /\ At(3, LowRuns)
  /\ memory' = [memory EXCEPT !["pdpte_low"][0] = Large(LowPage),
                              !["pdpte_high"][0] = Large(TextPage),
                              !["pml4e_low"][0] = Table("pdpte_low"),
                              !["pml4e_high"][HighIndex] = Table("pdpte_high"),
                              !["pml4"][0] = Table("pml4e_low"),
                              !["pml4"][PTABLE_LEN - 1] = Table("pml4e_high")]
  /\ Goes(3) /\ UNCHANGED <<cr3, paging, segments>>

\* cr3, PAE, LME, and then paging: the next instruction is read through it.
EnablePaging ==
  /\ At(4, LowRuns)
  /\ cr3' = "boot" /\ paging' = TRUE
  /\ Goes(4) /\ UNCHANGED <<memory, segments>>

SetCodeaccess ==
  /\ At(5, LowRuns)
  /\ gdt' = [gdt EXCEPT ![8] = "code64"]
  /\ Goes(5) /\ UNCHANGED <<memory, cr3, paging, cs, gdtr, tss_bytes>>

LongMode ==
  /\ At(6, LowRuns /\ GdtRead /\ gdt[8] = "code64")
  /\ cs' = gdt[8]
  /\ Goes(6) /\ UNCHANGED <<memory, cr3, paging, gdtr, gdt, tss_bytes>>

\* lmode_high, the stack in .bss, and entry up to reload_gdt.
EnterHigh ==
  /\ At(7, LowRuns /\ HighRuns /\ cs = "code64")
  /\ Goes(7) /\ UNCHANGED <<memory, cr3, paging, segments>>

\* The descriptors move before the direct map is there to read them through.
NewGdtr_Same == gdtr                                             \* variant
NewGdtr == Hhdm(0, 0)
ReloadGdt ==
  /\ At(8, HighRuns)
  /\ gdtr' = NewGdtr
  /\ Goes(8) /\ UNCHANGED <<memory, cr3, paging, cs, gdt, tss_bytes>>

\* The PML4 is written where cr3 says it is, through the identity map.
HhdmMarker_Backwards(i) == (HHDM_TABLES - 1 - i) * PTABLE_LEN    \* variant
HhdmMarker(i) == i * SPACING
SetupHhdm ==
  /\ At(9, HighRuns /\ Uses(kernel.table) /\ LowRuns)
  /\ memory' = [memory EXCEPT !["pml4"] =
       [n \in Index |->
          LET i == n - HHDM_PML4E_BEGIN
          IN  IF i \in 0 .. HHDM_TABLES - 1
              THEN [to |-> "hhdm", page |-> HhdmMarker(i)] ELSE @[n]]]
  /\ Goes(9) /\ UNCHANGED <<cr3, paging, segments>>

\* setup_pm reads the boot loader's information, setup_vm fills its tables,
\* both through the direct map; then the boot tables are left.
SetupVm ==
  /\ At(10, HighRuns /\ Maps(Hhdm(0, 0), LowPage))
  /\ cr3' = "kernel"
  /\ Goes(10) /\ UNCHANGED <<memory, paging, segments>>

(***************************************************************************)
(* init_tss writes the descriptor byte by byte, then loads it.             *)
(***************************************************************************)
Limit(n) == <<"limit", n>>
BaseByte(n) == <<"base", kernel.tss[n]>>
LimitHigh == 6
Described ==
  [n \in 0 .. 15 |->
     CASE n \in {0, 1} -> Limit(n)
       [] n = LimitHigh -> Limit(2)
       [] n \in {2, 3, 4} -> BaseByte(n - 2)
       [] n = 7 -> BaseByte(3)
       [] n \in 8 .. 11 -> BaseByte(n - 4)
       [] OTHER -> tss_bytes[n]]

InitTss ==
  /\ At(11, AllRuns /\ Maps(Hhdm(0, 0), LowPage) /\ GdtRead)
  /\ tss_bytes' = Described
  /\ Goes(11) /\ UNCHANGED <<memory, cr3, paging, cs, gdtr, gdt>>

LoadTr ==
  /\ At(12, AllRuns /\ GdtRead /\ tss_bytes[5] = TssAccess)
  /\ Goes(12) /\ UNCHANGED <<memory, cr3, paging, segments>>

\* With interrupts on, and for a program, the processor reads descriptors.
EnableIdt ==
  /\ At(13, AllRuns /\ GdtRead /\ gdt[8] = "code64")
  /\ Goes(13) /\ UNCHANGED <<memory, cr3, paging, segments>>

StartUser ==
  /\ At(14, AllRuns /\ GdtRead /\ gdt[24] = "user64" /\ gdt[32] = "userdata")
  /\ cs' = gdt[24]
  /\ Goes(14) /\ UNCHANGED <<memory, cr3, paging, gdtr, gdt, tss_bytes>>

Steps == LoadGdt \/ ReloadSegments \/ FillTables \/ EnablePaging
           \/ SetCodeaccess \/ LongMode \/ EnterHigh \/ ReloadGdt \/ SetupHhdm
           \/ SetupVm \/ InitTss \/ LoadTr \/ EnableIdt \/ StartUser

\* A step that can not be executed faults, and no fault has a handler yet.
Reset ==
  /\ ~lost /\ pc <= 14 /\ ~ENABLED Steps
  /\ lost' = TRUE
  /\ UNCHANGED <<pc, kernel, memory, cr3, paging, segments>>

Next == Steps \/ Reset
Spec == Init /\ [][Next]_vars

-----------------------------------------------------------------------------
(***************************************************************************)
(* From setup_hhdm on an address P2V(p) is that of p, below one PDPT's     *)
(* reach, 512 GiB, in which PCs have their RAM (hhdm.c:24-27); and the     *)
(* switch to the kernel's own tables does not move it.                     *)
(***************************************************************************)
DirectBelow(n) ==
  \A i \in 0 .. n - 1, j \in Index :
    Translate(Hhdm(i, j)) = (i * PTABLE_LEN + j) * GB

DirectMap == pc > 9 => DirectBelow(1)

(***************************************************************************)
(* When the task register is loaded, the bytes from which the processor    *)
(* puts the base of the TSS together hold it, and the access byte is the   *)
(* one that pmodeEntry.S left there (init_tss.c:18-26).                    *)
(***************************************************************************)
TssFound ==
  pc >= 12 => /\ [n \in 0 .. 7 |-> tss_bytes[<<2, 3, 4, 7, 8, 9, 10, 11>>[n + 1]]]
                   = [n \in 0 .. 7 |-> BaseByte(n)]
              /\ tss_bytes[5] = TssAccess
=============================================================================
