-------------------------------- MODULE Acpi --------------------------------
(***************************************************************************)
(* What the kernel learns of its machine from the tables of the firmware:  *)
(* init_biosdata finds the extended BIOS data area, init_acpi the root     *)
(* pointer and through it the MADT, init_madt the controllers, processors  *)
(* and overrides in it, which Interrupts starts from.                      *)
(*                                                                         *)
(* Paragraphs of 16 bytes are numbered.  Each structure of the MADT is     *)
(* [type, len, and what its fields hold]; compiled, __packed in front of   *)
(* struct does nothing, so fields lie where C aligns them.  Vm maps the    *)
(* registers of the controllers.                                           *)
(***************************************************************************)
EXTENDS Integers, SequencesExt

CONSTANTS
  Firmwares,   \* what the firmware may have left in memory
  EBDA_MAX,    \* paragraphs searched of the EBDA (EBDA_MAXSIZE / 16)
  BIOS_BEGIN,  \* the paragraphs BIOS_BEGINSEARCH / 16
  BIOS_END,    \* and, rounded up, BIOS_ENDSEARCH / 16
  SLOTS        \* the places of each array of struct kernel_state (0xFF)

PROC_LOCALAPIC == 0
IOAPIC == 1
IOAPIC_ISO == 2
LAPIC_OVERRIDE == 5

SIZEOF_MADT_FirstWhole == 56           \* variant: with a struct acpi_ioapic
SIZEOF_MADT == 48              \* 44 to the first structure, 2 of it, 2 to align
FIRST_HDR == 44

(***************************************************************************)
(* A firmware: where the BIOS says the EBDA is; the root pointers by their *)
(* paragraph, with revision and the tables of their RSDT, in order.  A     *)
(* table is [sig, base, entries]; its length is that of its structures.    *)
(* ACPI defines none of less than 6 bytes; a damaged one, which says that  *)
(* it has none, is of the types that are not recorded.                     *)
(***************************************************************************)
RecordedTypes == {PROC_LOCALAPIC, IOAPIC, IOAPIC_ISO}
Byte == 0 .. 255
Structure == {e \in [type : Nat, len : Nat, id : Byte, irq : Byte, gsi : Nat,
                     gsid : Nat, addr : Nat, upper : Nat] :
                e.len >= 6 \/ (e.len = 0 /\ e.type \notin RecordedTypes)}
Signatures == {"APIC", "FACP", "none"}     \* FACP: any but the MADT's
SysTable == [sig : Signatures, base : Nat, entries : Seq(Structure)]

Constants ==
  /\ EBDA_MAX \in Nat /\ SLOTS \in Nat
  /\ BIOS_BEGIN \in Nat /\ BIOS_END \in Nat
  /\ \A f \in Firmwares :
       /\ f.ebda \in Nat /\ DOMAIN f.xsdps \subseteq Nat
       /\ \A p \in DOMAIN f.xsdps : f.xsdps[p].tables \in Seq(SysTable)

NoTable == [sig |-> "none", base |-> 0, entries |-> <<>>]

VARIABLES
  stage,       \* "ebda", "bios", "table", "madt", or how it ended
  firmware,
  check,       \* current_check
  xsdp,        \* the paragraph of the pointer found; -1 before
  madt,
  i,           \* bytes of the MADT's structures gone through
  lapic_base,
  lapics, ioapics, legacymaps

lists == <<lapics, ioapics, legacymaps>>
found == <<xsdp, madt>>
vars == <<stage, firmware, check, found, i, lapic_base, lists>>

\* init_biosdata takes the end of conventional memory for the EBDA.
Init ==
  /\ stage = "ebda" /\ firmware \in Firmwares
  /\ check = firmware.ebda
  /\ xsdp = -1 /\ madt = NoTable /\ i = 0 /\ lapic_base = 0
  /\ lapics = <<>> /\ ioapics = <<>> /\ legacymaps = <<>>

-----------------------------------------------------------------------------
IsXsdp == check \in DOMAIN firmware.xsdps
AreaEnds == IF stage = "ebda" THEN check >= firmware.ebda + EBDA_MAX
            ELSE check >= BIOS_END

\* The signature is all that is looked at: no checksum is added up.
FoundXsdp ==
  /\ stage \in {"ebda", "bios"} /\ ~AreaEnds /\ IsXsdp
  /\ xsdp' = check /\ stage' = "table"
  /\ UNCHANGED <<firmware, check, madt, i, lapic_base, lists>>

SearchOn ==
  /\ stage \in {"ebda", "bios"} /\ ~AreaEnds /\ ~IsXsdp
  /\ check' = check + 1
  /\ UNCHANGED <<stage, firmware, found, i, lapic_base, lists>>

NextArea == BIOS_BEGIN

SearchBios ==
  /\ stage = "ebda" /\ AreaEnds
  /\ check' = NextArea /\ stage' = "bios"
  /\ UNCHANGED <<firmware, found, i, lapic_base, lists>>

NoXsdp ==
  /\ stage = "bios" /\ AreaEnds
  /\ stage' = "panic"
  /\ UNCHANGED <<firmware, check, found, i, lapic_base, lists>>

-----------------------------------------------------------------------------
Tables == firmware.xsdps[xsdp].tables
FindTable(sig) == SelectInSeq(Tables, LAMBDA t : t.sig = sig)

UnknownVersion ==
  /\ stage = "table" /\ firmware.xsdps[xsdp].revision # 0
  /\ stage' = "panic"
  /\ UNCHANGED <<firmware, check, found, i, lapic_base, lists>>

FoundMadt ==
  /\ stage = "table" /\ firmware.xsdps[xsdp].revision = 0
  /\ FindTable("APIC") # 0
  /\ madt' = Tables[FindTable("APIC")]
  /\ lapic_base' = madt'.base
  /\ stage' = "madt"
  /\ UNCHANGED <<firmware, check, xsdp, i, lists>>

\* The length of a table that is not there is logged before it is tested,
\* when address 0 is not mapped and no fault has a handler.
NoMadt ==
  /\ stage = "table" /\ firmware.xsdps[xsdp].revision = 0
  /\ FindTable("APIC") = 0
  /\ stage' = "reset"
  /\ UNCHANGED <<firmware, check, found, i, lapic_base, lists>>

-----------------------------------------------------------------------------
Size(es) == FoldLeft(LAMBDA n, e : n + e.len, 0, es)

\* The size is unsigned: a table without structures has one without end.
Behind == LET size == FIRST_HDR + Size(madt.entries) - SIZEOF_MADT
          IN  size >= 0 /\ i >= size

At == SelectInSeq([k \in 1 .. Len(madt.entries) |->
                     Size(SubSeq(madt.entries, 1, k - 1))], LAMBDA s : s = i)
Header == madt.entries[At]
Inside == stage = "madt" /\ ~Behind /\ At # 0

Step == Header.len

\* The array's next place; a place behind the array is that of the count.
Recorded(list, x) == Len(list) < SLOTS /\ list' = Append(list, x)

MadtIoapic ==
  /\ Inside /\ Header.type = IOAPIC
  /\ Recorded(ioapics, [id |-> Header.id, regs |-> Header.addr,
                        base |-> Header.gsid])
  /\ i' = i + Step
  /\ UNCHANGED <<stage, firmware, check, found, lapic_base, lapics,
                 legacymaps>>

MadtLapic ==
  /\ Inside /\ Header.type = PROC_LOCALAPIC
  /\ Recorded(lapics, Header.id)
  /\ i' = i + Step
  /\ UNCHANGED <<stage, firmware, check, found, lapic_base, ioapics,
                 legacymaps>>

\* The global interrupt has 32 bits in the table and 8 in the record.
MadtIso ==
  /\ Inside /\ Header.type = IOAPIC_ISO
  /\ Recorded(legacymaps, [irq |-> Header.irq, gsi |-> Header.gsi % 256])
  /\ i' = i + Step
  /\ UNCHANGED <<stage, firmware, check, found, lapic_base, lapics, ioapics>>

\* The firmware's structure has the address at byte 4, the kernel's, where
\* it is aligned to 8, at byte 8: its upper half and what follows.
OverrideAddr == Header.upper

MadtOverride ==
  /\ Inside /\ Header.type = LAPIC_OVERRIDE
  /\ lapic_base' = OverrideAddr
  /\ i' = i + Step
  /\ UNCHANGED <<stage, firmware, check, found, lists>>

MadtOther ==
  /\ Inside
  /\ Header.type \notin RecordedTypes \union {LAPIC_OVERRIDE}
  /\ i' = i + Step
  /\ UNCHANGED <<stage, firmware, check, found, lapic_base, lists>>

\* Nothing compares a count with its array.
Overrun ==
  /\ Inside
  /\ Header.type \in RecordedTypes
  /\ SLOTS <= Len(CASE Header.type = PROC_LOCALAPIC -> lapics
                    [] Header.type = IOAPIC -> ioapics
                    [] Header.type = IOAPIC_ISO -> legacymaps)
  /\ stage' = "wild"
  /\ UNCHANGED <<firmware, check, found, i, lapic_base, lists>>

\* What lies behind the table is read as more of its structures.
RunsOn ==
  /\ stage = "madt" /\ ~Behind /\ At = 0
  /\ stage' = "wild"
  /\ UNCHANGED <<firmware, check, found, i, lapic_base, lists>>

MadtDone ==
  /\ stage = "madt" /\ Behind
  /\ stage' = "done"
  /\ UNCHANGED <<firmware, check, found, i, lapic_base, lists>>

Next ==
  \/ FoundXsdp \/ SearchOn \/ SearchBios \/ NoXsdp
  \/ UnknownVersion \/ FoundMadt \/ NoMadt
  \/ MadtIoapic \/ MadtLapic \/ MadtIso \/ MadtOverride \/ MadtOther
  \/ Overrun \/ RunsOn \/ MadtDone

Spec == Init /\ [][Next]_vars

-----------------------------------------------------------------------------
Ended == {"done", "panic", "reset", "wild"}

\* A list never has more than its array, and the walk is at one of the
\* structures or at the table's end (search_madt.c:14-40).
ListsFit ==
  /\ Len(lapics) <= SLOTS /\ Len(ioapics) <= SLOTS /\ Len(legacymaps) <= SLOTS
  /\ At = 0 => i = Size(madt.entries)

(***************************************************************************)
(* A root pointer where one may be is found, up to the last paragraph of   *)
(* the BIOS area, and of several the first: the EBDA's before the BIOS     *)
(* area's, and in each the lowest (init_acpi.c:28-43).                     *)
(***************************************************************************)
Where(f) == DOMAIN f.xsdps \intersect
              (f.ebda .. f.ebda + EBDA_MAX - 1 \union BIOS_BEGIN .. BIOS_END - 1)
InEbda(f, p) == p \in f.ebda .. f.ebda + EBDA_MAX - 1
Before(f, p, q) == IF InEbda(f, p) = InEbda(f, q) THEN p < q ELSE InEbda(f, p)

PointerFound ==
  /\ stage = "panic" /\ xsdp = -1 => Where(firmware) = {}
  /\ xsdp # -1 =>
       /\ xsdp \in Where(firmware)
       /\ \A p \in Where(firmware) : ~Before(firmware, p, xsdp)

(***************************************************************************)
(* When the walk of the MADT is over, each controller, processor and       *)
(* override of the table is recorded, once and in the table's order,       *)
(* although its size is taken four bytes short (search_madt.c:11); of an   *)
(* override's global interrupt the lower byte (apic.h:59-62).              *)
(***************************************************************************)
Picked(es, t) ==
  FoldLeft(LAMBDA s, e : IF e.type = t THEN Append(s, e) ELSE s, <<>>, es)
OfType(t) == Picked(madt.entries, t)

TableRecorded ==
  stage = "done" =>
    /\ Len(lapics) = Len(OfType(PROC_LOCALAPIC))
    /\ \A k \in DOMAIN lapics : lapics[k] = OfType(PROC_LOCALAPIC)[k].id
    /\ Len(ioapics) = Len(OfType(IOAPIC))
    /\ \A k \in DOMAIN ioapics :
         /\ ioapics[k].id = OfType(IOAPIC)[k].id
         /\ ioapics[k].base = OfType(IOAPIC)[k].gsid
    /\ Len(legacymaps) = Len(OfType(IOAPIC_ISO))
    /\ \A k \in DOMAIN legacymaps :
         /\ legacymaps[k].irq = OfType(IOAPIC_ISO)[k].irq
         /\ legacymaps[k].gsi = OfType(IOAPIC_ISO)[k].gsi % 256

(***************************************************************************)
(* A table with structures, few enough for the arrays, is never read past  *)
(* its end (search_madt.c:11-14).                                          *)
(***************************************************************************)
StaysInTable ==
  stage = "wild" =>
    \/ madt.entries = <<>>
    \/ \E t \in RecordedTypes : Len(OfType(t)) > SLOTS
=============================================================================
