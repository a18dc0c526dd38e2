------------------------------- MODULE Startup -------------------------------
(***************************************************************************)
(* From the boot loader to a running program, in the order of entry: Boot  *)
(* up to the direct map, MemMap for the arena, Boot's tables and TSS, Acpi *)
(* for the controllers, and Interrupts, which reads the lists that Acpi    *)
(* filled and goes on for as long as the machine runs.  The parts have     *)
(* their own variables but for those lists, and one step is one part's,    *)
(* or two parts' where both are about one instruction.                     *)
(***************************************************************************)
EXTENDS Integers, SequencesExt

CONSTANTS
  Computers,           \* [kernel, map, firmware, machine]: see each part
  PTABLE_LEN, HHDM_TABLES, SPACING,                              \* Boot
  Garbage, SIZE_FIELD, KERNEL_START_LOW, KERNEL_TEXT_PHYSICAL,   \* MemMap
  KERNEL_END_PHYSICAL,
  EBDA_MAX, BIOS_BEGIN, BIOS_END, SLOTS,                         \* Acpi
  Faults, Calls, SYSCALL_MAX, Ints, Registrations                \* Interrupts

VARIABLES
  pc, kernel, lost, memory, cr3, paging, cs, gdtr, gdt, tss_bytes,
  pm_stage, boot, k, size_read, pm_i, memmap_len, list, arena_begin, arena_end,
  acpi_stage, firmware, check, xsdp, madt, acpi_i, lapic_base,
  lapics, ioapics, legacymaps,
  irq_stage, machine, redir, idt, handlers, irq_handlers, irr, isr, flags,
  selector, rip, regs, stack, taken, report

B == INSTANCE Boot WITH Kernels <- {c.kernel : c \in Computers}
M == INSTANCE MemMap WITH Maps <- {c.map : c \in Computers},
                          stage <- pm_stage, i <- pm_i
A == INSTANCE Acpi WITH Firmwares <- {c.firmware : c \in Computers},
                        stage <- acpi_stage, i <- acpi_i
I == INSTANCE Interrupts WITH Machines <- {c.machine : c \in Computers},
                              stage <- irq_stage

ASSUME StartupAssumption ==
  /\ B!Constants /\ M!Constants /\ A!Constants /\ I!Constants
  \* A machine has the controllers that its firmware tells of.
  /\ \A c \in Computers : \A p \in DOMAIN c.firmware.xsdps :
       \A t \in ToSet(c.firmware.xsdps[p].tables) :
         t.sig = "APIC" =>
           Len(A!Picked(t.entries, A!IOAPIC)) = Len(c.machine.pins)

bvars == <<pc, kernel, lost, memory, cr3, paging, cs, gdtr, gdt, tss_bytes>>
mvars == <<pm_stage, boot, k, size_read, pm_i, memmap_len, list, arena_begin,
           arena_end>>
avars == <<acpi_stage, firmware, check, xsdp, madt, acpi_i, lapic_base>>
lists == <<lapics, ioapics, legacymaps>>
ivars == <<irq_stage, machine, redir, idt, handlers, irq_handlers, irr, isr,
           flags, selector, rip, regs, stack, taken, report>>
vars == <<bvars, mvars, avars, lists, ivars>>

Init ==
  /\ \E c \in Computers : /\ kernel = c.kernel /\ boot = c.map
                          /\ firmware = c.firmware /\ machine = c.machine
  /\ B!Init /\ M!Init /\ A!Init /\ I!Init

-----------------------------------------------------------------------------
\* The numbers of Boot's steps before which the other parts take theirs.
PmStep == 10
AcpiStep == 13

Stopped ==
  \/ lost \/ pm_stage \in {"panic", "wild"}
  \/ acpi_stage \in {"panic", "wild", "reset"}
  \/ irq_stage \in {"panic", "wild", "reset"}

\* The calls before setup_pm, and from setup_vm to init_tss.
BootStep ==
  /\ ~Stopped /\ (pc = PmStep => pm_stage = "done") /\ pc < AcpiStep
  /\ B!Next
  /\ UNCHANGED <<mvars, avars, lists, ivars>>

SetupPm ==
  /\ ~Stopped /\ pc = PmStep
  /\ M!Next
  /\ UNCHANGED <<bvars, avars, lists, ivars>>

\* init_biosdata and init_acpi.
InitAcpi ==
  /\ ~Stopped /\ pc = AcpiStep
  /\ A!Next
  /\ UNCHANGED <<bvars, mvars, ivars>>

\* enable_traps and enable_apic.
EnableHandlers ==
  /\ ~Stopped /\ acpi_stage = "done"
  /\ I!EnableTraps \/ I!EnableApic
  /\ UNCHANGED <<bvars, mvars, avars, lists>>

EnableIdt ==
  /\ ~Stopped
  /\ B!EnableIdt /\ I!EnableIdt
  /\ UNCHANGED <<mvars, avars, lists>>

StartUser ==
  /\ ~Stopped
  /\ B!StartUser /\ I!StartUser
  /\ UNCHANGED <<mvars, avars, lists>>

\* What handles an interrupt, an exception or a call.
Handling ==
  /\ ~Stopped
  /\ I!Stub \/ I!Shim \/ I!Panic \/ I!IrqHandler \/ I!CallModule \/ I!Return
       \/ I!IretFaults \/ I!CallNowhere \/ I!Sysret
  /\ UNCHANGED <<bvars, mvars, avars, lists>>

\* What devices, faulty instructions, modules and the program do.
Happening ==
  /\ ~Stopped
  /\ \/ I!Interrupt \/ I!NoGate \/ I!ModuleReturns
     \/ \E p \in machine.raised : I!Raise(p)
     \/ \E v \in Faults : I!Fault(v)
     \/ \E v \in Ints : I!SoftInterrupt(v)
     \/ \E v \in Registrations : I!RegisterIrqHandler(v)
     \/ \E n \in Calls : I!Syscall(n)
  /\ UNCHANGED <<bvars, mvars, avars, lists>>

KernelStep == BootStep \/ SetupPm \/ InitAcpi \/ EnableHandlers \/ EnableIdt
                \/ Handling
Next == KernelStep \/ StartUser \/ Happening

(***************************************************************************)
(* The processor goes on.  That the program is started is not asked: an    *)
(* endless run of interrupts may keep the kernel from it.                  *)
(***************************************************************************)
Spec == Init /\ [][Next]_vars
FairSpec == Spec /\ WF_vars(KernelStep)

-----------------------------------------------------------------------------
(***************************************************************************)
(* A kernel of which the boot tables' one page holds what is used before   *)
(* setup_vm, on a PC's memory map and with a table that can be recorded,   *)
(* comes to run with its interrupts on, unless an exception comes before:  *)
(* no step needs an address, a descriptor or a table that is not there     *)
(* yet, or no longer there, and no search or walk goes on for ever         *)
(* (pmodeEntry.S, entry.c:26-44, search_madt.c:12-14).                     *)
(***************************************************************************)
Pointer(f) == LET first == {p \in A!Where(f) : A!InEbda(f, p)}
              IN  Min(IF first = {} THEN A!Where(f) ELSE first)
Tables(f) == f.xsdps[Pointer(f)].tables
Describes(f) ==
  /\ A!Where(f) # {}
  /\ f.xsdps[Pointer(f)].revision = 0
  /\ LET n == SelectInSeq(Tables(f), LAMBDA t : t.sig = "APIC")
         es == Tables(f)[n].entries
     IN  /\ n # 0
         /\ es # <<>> /\ \A e \in ToSet(es) : e.len # 0
         /\ \A type \in A!RecordedTypes : Len(A!Picked(es, type)) <= SLOTS

Boots ==
  /\ kernel.stack = 0 /\ kernel.table = 0
  /\ M!PcMap /\ boot.map # <<>>
  /\ Describes(firmware)
  ~> pc > AcpiStep \/ irq_stage = "reset"

(***************************************************************************)
(* Addresses that the boot computes are the right ones: those of the       *)
(* direct map (hhdm.c:24-27) and of the TSS (init_tss.c:18-26).            *)
(***************************************************************************)
AddressesRight == B!DirectMap /\ B!TssFound

(***************************************************************************)
(* The list of the memory map fits, and on a PC it ends, and the arena is  *)
(* the region with most memory available, without the kernel, but longer   *)
(* than it by a constant if it is the kernel's (parse_memory_map.c:35-59,  *)
(* setup_pm.c:20-36).                                                      *)
(***************************************************************************)
ArenaSound == M!ListFits /\ M!ArenaSparesKernel /\ M!ArenaIsLargest

(***************************************************************************)
(* The firmware is read right: the first root pointer where one may be,    *)
(* every controller, processor and override of the MADT once, in its order *)
(* and in its array, and nothing behind the table (init_acpi.c:28-66,      *)
(* search_madt.c:11-40).                                                   *)
(***************************************************************************)
FirmwareRead == A!PointerFound /\ A!ListsFit /\ A!TableRecorded /\ A!StaysInTable

(***************************************************************************)
(* A legacy interrupt arrives as vector 0x20 and its number: from the pin  *)
(* that an override of the MADT names for it, on whichever controller has  *)
(* that pin, and without one from the pin of its number, but for the last  *)
(* pin of a controller, which is left out.  This where no two controllers  *)
(* have one id, by which the code addresses them, and overrides name       *)
(* global interrupts below 256, of which it keeps a byte.  Every pin is    *)
(* masked or leads to irq_handler, if a controller has at most 224         *)
(* (enable_apic.c:14-38, ioapic.c:10-40, apic.h:59-80).                    *)
(***************************************************************************)
Controllers == A!OfType(A!IOAPIC)
Overrides == A!OfType(A!IOAPIC_ISO)
HasPin(c, gsi) == Controllers[c].gsid <= gsi
                    /\ gsi - Controllers[c].gsid < machine.pins[c]
PinsOf(gsi) == {<<c, gsi - Controllers[c].gsid>> :
                  c \in {d \in DOMAIN Controllers : HasPin(d, gsi)}}
Moved == {l.gsi : l \in ToSet(Overrides)}

Addressable ==
  /\ \A c, d \in DOMAIN Controllers : Controllers[c].id = Controllers[d].id => c = d
  /\ \A gsi \in Moved : gsi < 256

LegacyIrqArrives ==
  irq_stage \in {"enabled", "run"} /\ Addressable =>
    /\ \A n \in DOMAIN Overrides :
         LET l == Overrides[n]
         IN  (\A j \in n + 1 .. Len(Overrides) : Overrides[j].gsi # l.gsi)
             => \A p \in PinsOf(l.gsi) : redir[p] = I!IOAPIC_IRQ_BASE + l.irq
    /\ \A irq \in 0 .. 15 \ Moved : \A p \in PinsOf(irq) :
         Controllers[p[1]].gsid = 0 /\ p[2] < machine.pins[p[1]] - 1
           => redir[p] = I!IOAPIC_IRQ_BASE + irq
PinsArrive == LegacyIrqArrives /\ I!PinsReachIrqHandler

\* What was interrupted goes on as if nothing had been (entry_shim.S:78-90,
\* int_shim.h:6-42).
InterruptedResumes == I!InterruptedResumes

\* A system call returns to where it was made (sysentry.S:8-20).
SyscallResumes == [][I!ResumesCaller]_ivars

\* A trap's panic tells what happened (exception_handlers.c:6-21).
PanicTellsTruth == I!PanicTellsTruth

\* Interrupts do not nest, and no device interrupts a program
\* (exec_process.c:99, enable_syscalls.S:21-23).
RunsUninterrupted == I!NoNesting /\ I!RunsUninterrupted

(***************************************************************************)
(* An interrupt taken is acknowledged, or the machine stops: the local     *)
(* controller delivers the next one (irq_handler.c:11-20).                 *)
(***************************************************************************)
InterruptsEnd == isr # {} ~> isr = {} \/ irq_stage # "run"
=============================================================================
