---------------------------- MODULE StartupProofs ----------------------------
(***************************************************************************)
(* What the machine does from the boot loader on, for every computer.      *)
(* Each part has its own invariant, and a step of Startup is, for a part,  *)
(* one of its own or none.  After the facts that all parts need come       *)
(* interrupts, exceptions, a program's ints and system calls, for every    *)
(* nesting of them: what was interrupted goes on as if nothing had been, a *)
(* panic tells the truth, a call returns to its caller, no interrupt nests *)
(* and no device interrupts a program.                                     *)
(***************************************************************************)
EXTENDS Startup, Inductions, SequenceTheorems, FiniteSetTheorems, TLAPS

-----------------------------------------------------------------------------
(***************************************************************************)
(* A step, seen by one part.                                               *)
(***************************************************************************)
LEMMA InterruptSteps ==
  ASSUME [Next]_vars
  PROVE  \/ I!Next /\ ~Stopped /\ UNCHANGED lists
         \/ UNCHANGED ivars
<1>1. CASE BootStep \/ SetupPm \/ InitAcpi \/ UNCHANGED vars
  BY <1>1 DEF BootStep, SetupPm, InitAcpi, vars
<1>2. CASE EnableHandlers
  BY <1>2 DEF EnableHandlers, I!Next, I!Kernel
<1>3. CASE EnableIdt
  BY <1>3 DEF EnableIdt, I!Next, I!Kernel
<1>4. CASE StartUser
  BY <1>4 DEF StartUser, I!Next
<1>5. CASE Handling
  BY <1>5 DEF Handling, I!Next, I!Kernel
<1>6. CASE Happening
  BY <1>6 DEF Happening, I!Next
<1> QED BY <1>1, <1>2, <1>3, <1>4, <1>5, <1>6 DEF Next, KernelStep

LEMMA AcpiSteps ==
  ASSUME [Next]_vars
  PROVE  \/ A!Next /\ ~Stopped
         \/ UNCHANGED <<avars, lists>>
<1>1. CASE BootStep \/ SetupPm \/ EnableHandlers \/ EnableIdt \/ StartUser
             \/ Handling \/ Happening \/ UNCHANGED vars
  BY <1>1 DEF BootStep, SetupPm, EnableHandlers, EnableIdt, StartUser, Handling,
              Happening, vars
<1>2. CASE InitAcpi
  BY <1>2 DEF InitAcpi
<1> QED BY <1>1, <1>2 DEF Next, KernelStep

LEMMA MemMapSteps ==
  ASSUME [Next]_vars
  PROVE  \/ M!Next /\ ~Stopped
         \/ UNCHANGED mvars
<1>1. CASE BootStep \/ InitAcpi \/ EnableHandlers \/ EnableIdt \/ StartUser
             \/ Handling \/ Happening \/ UNCHANGED vars
  BY <1>1 DEF BootStep, InitAcpi, EnableHandlers, EnableIdt, StartUser, Handling,
              Happening, vars
<1>2. CASE SetupPm
  BY <1>2 DEF SetupPm
<1> QED BY <1>1, <1>2 DEF Next, KernelStep

-----------------------------------------------------------------------------
(***************************************************************************)
(* The first place of a sequence that passes a test, if one does.          *)
(***************************************************************************)
LEMMA MinOfNats ==
  ASSUME NEW T, T \subseteq Nat, T # {}
  PROVE  Min(T) \in T /\ \A m \in T : Min(T) <= m
<1>1. \E x \in T : \A y \in T : x <= y
  BY LeastNat
<1> QED BY <1>1 DEF Min

LEMMA FirstPlace ==
  ASSUME NEW s, NEW n \in Nat, NEW T, T \subseteq 1 .. n, T # {}
  PROVE  Min(T) \in T /\ Min(T) \in 1 .. n /\ \A m \in T : Min(T) <= m
<1>1. \A x \in T : x \in Nat
  OBVIOUS
<1>2. T \subseteq Nat
  BY <1>1
<1> QED BY <1>2, MinOfNats

(***************************************************************************)
(* What the tables of the firmware, and the lists made of them, consist    *)
(* of.                                                                     *)
(***************************************************************************)
Ioapic == [id : Nat, regs : Nat, base : Nat]
LegacyMap == [irq : Nat, gsi : Nat]

AcpiType ==
  /\ firmware \in {c.firmware : c \in Computers}
  /\ acpi_stage = "table" => xsdp \in DOMAIN firmware.xsdps
  /\ madt \in A!SysTable
  /\ lapics \in Seq(Nat) /\ ioapics \in Seq(Ioapic)
  /\ legacymaps \in Seq(LegacyMap)

LEMMA TablesTyped ==
  ASSUME NEW f \in {c.firmware : c \in Computers}, NEW p \in DOMAIN f.xsdps
  PROVE  f.xsdps[p].tables \in Seq(A!SysTable)
  BY StartupAssumption DEF A!Constants

LEMMA HeaderTyped ==
  ASSUME madt \in A!SysTable, A!At # 0
  PROVE  A!At \in 1 .. Len(madt.entries) /\ A!Header \in A!Structure
<1> DEFINE n == Len(madt.entries)
           sizes == [j \in 1 .. n |-> A!Size(SubSeq(madt.entries, 1, j - 1))]
           T == {j \in 1 .. Len(sizes) : sizes[j] = acpi_i}
<1>1. madt.entries \in Seq(A!Structure)
  BY DEF A!SysTable
<1>2. n \in Nat /\ Len(sizes) = n
  BY <1>1
<1>3. A!At = IF T # {} THEN Min(T) ELSE 0
  BY DEF A!At, A!SelectInSeq, A!Min, Min
<1>4. T \subseteq 1 .. n
  BY <1>2
<1>5. A!At \in 1 .. n
  BY <1>2, <1>3, <1>4, FirstPlace
<1> QED BY <1>1, <1>5 DEF A!Header

LEMMA StructureTyped ==
  ASSUME NEW e \in A!Structure
  PROVE  /\ e.type \in Nat /\ e.len \in Nat /\ e.id \in Nat /\ e.irq \in Nat
         /\ e.gsi \in Nat /\ e.gsid \in Nat /\ e.addr \in Nat /\ e.upper \in Nat
         /\ e.len >= 6 \/ (e.len = 0 /\ e.type \notin A!RecordedTypes)
  BY DEF A!Structure, A!Byte

LEMMA AcpiTypeInit ==
  Init => AcpiType
<1> SUFFICES ASSUME Init PROVE AcpiType
  OBVIOUS
<1>1. A!Init
  BY DEF Init
<1>2. A!NoTable \in A!SysTable
  BY EmptySeq DEF A!NoTable, A!SysTable, A!Signatures
<1>3. lapics = <<>> /\ ioapics = <<>> /\ legacymaps = <<>>
  BY <1>1 DEF A!Init
<1>4. /\ lapics \in Seq(Nat) /\ ioapics \in Seq(Ioapic)
      /\ legacymaps \in Seq(LegacyMap)
  BY <1>3, EmptySeq
<1>5. /\ firmware \in {c.firmware : c \in Computers}
      /\ acpi_stage # "table" /\ madt = A!NoTable
  BY <1>1 DEF A!Init
<1> QED BY <1>2, <1>4, <1>5 DEF AcpiType

LEMMA AcpiTypeStep ==
  ASSUME AcpiType, [Next]_vars
  PROVE  AcpiType'
<1>1. CASE UNCHANGED <<avars, lists>>
  BY <1>1 DEF AcpiType, avars, lists
<1> SUFFICES ASSUME A!Next PROVE AcpiType'
  BY <1>1, AcpiSteps
<1> USE DEF AcpiType, A!lists, A!found
<1>2. CASE A!FoundXsdp
  BY <1>2 DEF A!FoundXsdp, A!IsXsdp
<1>3. CASE A!SearchOn
  BY <1>3 DEF A!SearchOn
<1>4. CASE A!SearchBios
  BY <1>4 DEF A!SearchBios
<1>5. CASE A!NoXsdp \/ A!UnknownVersion \/ A!NoMadt \/ A!Overrun \/ A!RunsOn
             \/ A!MadtDone
  BY <1>5 DEF A!NoXsdp, A!UnknownVersion, A!NoMadt, A!Overrun, A!RunsOn, A!MadtDone
<1>6. CASE A!FoundMadt
  <2> DEFINE ts == A!Tables
             T == {j \in 1 .. Len(ts) : ts[j].sig = "APIC"}
  <2>1. ts \in Seq(A!SysTable)
    BY <1>6, TablesTyped DEF A!FoundMadt, A!Tables
  <2>2. A!FindTable("APIC") = IF T # {} THEN Min(T) ELSE 0
    BY DEF A!FindTable, A!SelectInSeq, A!Min, Min
  <2>3. A!FindTable("APIC") \in 1 .. Len(ts)
    <3>1. Len(ts) \in Nat /\ T \subseteq 1 .. Len(ts) /\ T # {}
      BY <1>6, <2>1, <2>2 DEF A!FoundMadt
    <3> HIDE DEF ts, T
    <3> QED BY <2>2, <3>1, FirstPlace
  <2> QED BY <1>6, <2>1, <2>3 DEF A!FoundMadt
<1>7. CASE A!MadtIoapic
  <2>1. A!Header \in A!Structure
    BY <1>7, HeaderTyped DEF A!MadtIoapic, A!Inside
  <2>2. [id |-> A!Header.id, regs |-> A!Header.addr, base |-> A!Header.gsid]
          \in Ioapic
    BY <2>1, StructureTyped DEF Ioapic
  <2> QED BY <1>7, <2>2 DEF A!MadtIoapic, A!Inside, A!Recorded
<1>8. CASE A!MadtLapic
  <2>1. A!Header \in A!Structure
    BY <1>8, HeaderTyped DEF A!MadtLapic, A!Inside
  <2>2. A!Header.id \in Nat
    BY <2>1, StructureTyped
  <2> QED BY <1>8, <2>2 DEF A!MadtLapic, A!Inside, A!Recorded
<1>9. CASE A!MadtIso
  <2>1. A!Header \in A!Structure
    BY <1>9, HeaderTyped DEF A!MadtIso, A!Inside
  <2>2. [irq |-> A!Header.irq, gsi |-> A!Header.gsi % 256] \in LegacyMap
    <3>1. A!Header.irq \in Nat /\ A!Header.gsi \in Nat
      BY <2>1, StructureTyped
    <3>2. A!Header.gsi % 256 \in Nat
      BY <3>1
    <3> QED BY <3>1, <3>2 DEF LegacyMap
  <2> QED BY <1>9, <2>2 DEF A!MadtIso, A!Inside, A!Recorded
<1>10. CASE A!MadtOverride \/ A!MadtOther
  BY <1>10 DEF A!MadtOverride, A!MadtOther, A!Inside
<1> QED BY <1>2, <1>3, <1>4, <1>5, <1>6, <1>7, <1>8, <1>9, <1>10 DEF A!Next

-----------------------------------------------------------------------------
(***************************************************************************)
(* The overrides are applied one after the other: FoldLeft goes from what  *)
(* enable_ioapic left through the list of them.                            *)
(***************************************************************************)
Redirections == [I!Pins(machine) -> Int]
Overridden(f) ==
  /\ f \in [0 .. Len(legacymaps) -> Redirections]
  /\ f[0] = I!Relocated
  /\ \A j \in 1 .. Len(legacymaps) : f[j] = I!Redirect(f[j - 1], legacymaps[j])

LEMMA RedirectTyped ==
  ASSUME NEW r \in Redirections, NEW l \in LegacyMap
  PROVE  I!Redirect(r, l) \in Redirections
<1>1. 32 + l.irq \in Int
  BY DEF LegacyMap
<1> QED BY <1>1 DEF I!Redirect, Redirections, I!IOAPIC_IRQ_BASE

LEMMA FoldOfOverrides ==
  ASSUME legacymaps \in Seq(LegacyMap), I!Relocated \in Redirections
  PROVE  \E f : /\ Overridden(f)
                /\ I!FoldLeft(I!Redirect, I!Relocated, legacymaps)
                     = f[Len(legacymaps)]
<1> DEFINE n == Len(legacymaps)
           D == [p \in Redirections \X (1 .. n) |->
                   I!Redirect(p[1], legacymaps[p[2]])]
           IsFold(h) == h = [t \in SUBSET (DOMAIN legacymaps) |->
                               IF t = {} THEN I!Relocated
                               ELSE I!Redirect(h[t \ {Max(t)}],
                                               legacymaps[Max(t)])]
           h == CHOOSE x : IsFold(x)
<1>1. n \in Nat /\ DOMAIN legacymaps = 1 .. n
      /\ \A j \in 1 .. n : legacymaps[j] \in LegacyMap
  OBVIOUS
<1>2. D \in [Redirections \X (1 .. n) -> Redirections]
  BY <1>1, RedirectTyped
<1>3. PICK g \in [SUBSET (1 .. n) -> Redirections] : FoldedBy(g, n, I!Relocated, D)
  <2> HIDE DEF D, n
  <2> QED BY <1>1, <1>2, FoldExists
<1>4. IsFold(g)
  <2>1. ASSUME NEW t \in SUBSET (1 .. n)
        PROVE  g[t] = IF t = {} THEN I!Relocated
                      ELSE I!Redirect(g[t \ {Max(t)}], legacymaps[Max(t)])
    <3>1. CASE t = {}
      BY <1>3, <3>1 DEF FoldedBy
    <3>2. CASE t # {}
      <4>1. Max(t) \in t /\ Max(t) \in 1 .. n
        BY <1>1, <3>2, MaxOfPlaces
      <4>2. g[t \ {Max(t)}] \in Redirections
        BY <1>3
      <4>3. g[t] = D[<<g[t \ {Max(t)}], Max(t)>>]
        BY <1>3, <3>2 DEF FoldedBy
      <4> QED BY <3>2, <4>1, <4>2, <4>3
    <3> QED BY <3>1, <3>2
  <2> QED BY <1>1, <1>3, <2>1
<1>5. IsFold(h)
  <2> HIDE DEF IsFold
  <2> QED BY <1>4
<1>6. I!FoldLeft(I!Redirect, I!Relocated, legacymaps) = h[DOMAIN legacymaps]
  BY Zenon DEF I!FoldLeft, I!MapThenFoldSet, I!Max, Max
<1> DEFINE f == [j \in 0 .. n |-> h[1 .. j]]
<1>7. f[0] = I!Relocated
  <2>1. 0 \in 0 .. n /\ 1 .. 0 = {} /\ {} \in SUBSET (DOMAIN legacymaps)
    BY <1>1
  <2>2. h[{}] = I!Relocated
    <3> HIDE DEF h
    <3> QED BY <1>5, <2>1
  <2> HIDE DEF h
  <2> QED BY <2>1, <2>2
<1>8. ASSUME NEW j \in 1 .. n
      PROVE  f[j] = I!Redirect(f[j - 1], legacymaps[j])
  <2>1. j \in Nat \ {0} /\ j \in 0 .. n /\ j - 1 \in 0 .. n
    BY <1>1
  <2>2. Max(1 .. j) = j /\ (1 .. j) \ {j} = 1 .. j - 1
    BY <2>1, MaxOfPrefix
  <2>3. 1 .. j \in SUBSET (DOMAIN legacymaps) /\ 1 .. j # {}
    BY SMTT(30), <1>1, <2>1
  <2>4. h[1 .. j] = I!Redirect(h[1 .. j - 1], legacymaps[j])
    <3> HIDE DEF h
    <3> QED BY <1>5, <2>2, <2>3
  <2> HIDE DEF h
  <2> QED BY <2>1, <2>4
<1>9. ASSUME NEW j \in 0 .. n PROVE f[j] \in Redirections
  <2> DEFINE Good == {m \in Nat : m <= n => f[m] \in Redirections}
  <2> HIDE DEF f, h
  <2>1. 0 \in Good
    BY <1>7
  <2>2. ASSUME NEW m \in Good PROVE m + 1 \in Good
    <3>1. SUFFICES ASSUME m + 1 <= n PROVE f[m + 1] \in Redirections
      OBVIOUS
    <3>2. m + 1 \in 1 .. n /\ f[m] \in Redirections
      BY <1>1, <3>1
    <3>3. f[m + 1] = I!Redirect(f[m], legacymaps[m + 1])
      BY <1>8, <3>2
    <3> QED BY <1>1, <3>2, <3>3, RedirectTyped
  <2>3. Good \subseteq Nat
    OBVIOUS
  <2>4. j \in Good
    <3> HIDE DEF Good
    <3>1. \A m \in Nat : m \in Good
      BY <2>1, <2>2, <2>3, NatInduct
    <3> QED BY <1>1, <3>1
  <2> QED BY <1>1, <2>4
<1>10. Overridden(f)
  <2>1. f \in [0 .. n -> Redirections]
    BY <1>9
  <2> HIDE DEF f
  <2> QED BY <1>7, <1>8, <2>1 DEF Overridden
<1>11. f[n] = h[DOMAIN legacymaps]
  BY <1>1
<1> HIDE DEF f, h
<1> QED BY <1>6, <1>10, <1>11

-----------------------------------------------------------------------------
(***************************************************************************)
(* The sizes of a table's parts, and its structures of one type, as they   *)
(* are added up structure by structure.                                    *)
(***************************************************************************)
SumsOf(es, f) ==
  /\ f \in [0 .. Len(es) -> Nat] /\ f[0] = 0
  /\ \A j \in 1 .. Len(es) : f[j] = f[j - 1] + es[j].len
PicksOf(es, type, f) ==
  /\ f \in [0 .. Len(es) -> Seq(A!Structure)] /\ f[0] = <<>>
  /\ \A j \in 1 .. Len(es) :
       f[j] = IF es[j].type = type THEN Append(f[j - 1], es[j]) ELSE f[j - 1]

LEMMA SizeTrace ==
  ASSUME NEW es \in Seq(A!Structure)
  PROVE  \E f : SumsOf(es, f) /\ A!Size(es) = f[Len(es)]
<1> DEFINE n == Len(es)
           D == [p \in Nat \X (1 .. n) |-> p[1] + es[p[2]].len]
           IsFold(h) == h = [t \in SUBSET (DOMAIN es) |->
                               IF t = {} THEN 0
                               ELSE h[t \ {Max(t)}] + es[Max(t)].len]
           h == CHOOSE x : IsFold(x)
<1>1. n \in Nat /\ DOMAIN es = 1 .. n /\ \A j \in 1 .. n : es[j].len \in Nat
  BY StructureTyped
<1>2. D \in [Nat \X (1 .. n) -> Nat] /\ 0 \in Nat
  BY <1>1
<1>3. PICK g \in [SUBSET (1 .. n) -> Nat] : FoldedBy(g, n, 0, D)
  <2> HIDE DEF D, n
  <2> QED BY <1>1, <1>2, FoldExists
<1>4. ASSUME NEW g1, NEW t \in SUBSET (1 .. n), t # {}, g1[t \ {Max(t)}] \in Nat
      PROVE  g1[t \ {Max(t)}] + es[Max(t)].len = D[<<g1[t \ {Max(t)}], Max(t)>>]
  <2>1. Max(t) \in 1 .. n
    <3> HIDE DEF n
    <3> QED BY <1>1, <1>4, MaxOfPlaces
  <2> QED BY <1>4, <2>1
<1>5. IsFold(g)
  <2>1. ASSUME NEW t \in SUBSET (1 .. n)
        PROVE  g[t] = IF t = {} THEN 0 ELSE g[t \ {Max(t)}] + es[Max(t)].len
    <3>1. CASE t = {}
      BY <1>3, <3>1 DEF FoldedBy
    <3>2. CASE t # {}
      <4> HIDE DEF D, n
      <4>1. t \ {Max(t)} \in SUBSET (1 .. n)
        OBVIOUS
      <4>2. g[t \ {Max(t)}] \in Nat
        BY <1>3, <4>1
      <4>3. g[t] = D[<<g[t \ {Max(t)}], Max(t)>>]
        BY <1>3, <3>2 DEF FoldedBy
      <4>4. g[t \ {Max(t)}] + es[Max(t)].len = D[<<g[t \ {Max(t)}], Max(t)>>]
        BY <1>4, <3>2, <4>2
      <4> QED BY <3>2, <4>3, <4>4
    <3> QED BY <3>1, <3>2
  <2> HIDE DEF n
  <2> QED BY <1>1, <1>3, <2>1
<1>6. IsFold(h)
  <2> HIDE DEF IsFold
  <2> QED BY <1>5
<1>7. A!Size(es) = h[DOMAIN es]
  BY Zenon DEF A!Size, A!FoldLeft, A!MapThenFoldSet, A!Max, Max
<1>8. FoldsIn(Nat, h, n, 0, D)
  <2> HIDE DEF h, D, n
  <2>1. h[{}] = 0
    <3>1. {} \in SUBSET (DOMAIN es)
      OBVIOUS
    <3> QED BY <1>6, <3>1
  <2>2. ASSUME NEW t \in SUBSET (1 .. n), t # {}, h[t \ {Max(t)}] \in Nat
        PROVE  h[t] = D[<<h[t \ {Max(t)}], Max(t)>>]
    <3>1. h[t] = h[t \ {Max(t)}] + es[Max(t)].len
      BY <1>1, <1>6, <2>2
    <3> QED BY <1>4, <2>2, <3>1
  <2> QED BY <2>1, <2>2 DEF FoldsIn
<1>9. PICK f \in [0 .. n -> Nat] : EndsTrace(f, h, n, 0, D)
  <2> HIDE DEF h, D, n
  <2>1. n \in Nat /\ 0 \in Nat
    BY <1>1
  <2> QED BY <2>1, <1>2, <1>8, FoldTrace
<1>10. SumsOf(es, f)
  <2>1. ASSUME NEW j \in 1 .. n PROVE f[j] = f[j - 1] + es[j].len
    <3>1. j - 1 \in 0 .. n
      BY <1>1
    <3> QED BY <1>1, <1>9, <3>1 DEF EndsTrace, Trace
  <2> QED BY <1>9, <2>1 DEF EndsTrace, Trace, SumsOf
<1> QED BY <1>1, <1>7, <1>9, <1>10 DEF EndsTrace

LEMMA PickTrace ==
  ASSUME NEW es \in Seq(A!Structure), NEW type
  PROVE  \E f : PicksOf(es, type, f) /\ A!Picked(es, type) = f[Len(es)]
<1> DEFINE n == Len(es)
           S == Seq(A!Structure)
           D == [p \in S \X (1 .. n) |->
                   IF es[p[2]].type = type THEN Append(p[1], es[p[2]]) ELSE p[1]]
           IsFold(h) == h = [t \in SUBSET (DOMAIN es) |->
                               IF t = {} THEN <<>>
                               ELSE IF es[Max(t)].type = type
                                    THEN Append(h[t \ {Max(t)}], es[Max(t)])
                                    ELSE h[t \ {Max(t)}]]
           h == CHOOSE x : IsFold(x)
<1>1. /\ n \in Nat /\ DOMAIN es = 1 .. n /\ <<>> \in S
      /\ \A j \in 1 .. n : es[j] \in A!Structure
  BY EmptySeq
<1>2. D \in [S \X (1 .. n) -> S]
  BY <1>1
<1>3. PICK g \in [SUBSET (1 .. n) -> S] : FoldedBy(g, n, <<>>, D)
  <2> HIDE DEF D, n, S
  <2> QED BY <1>1, <1>2, FoldExists
<1>4. ASSUME NEW g1, NEW t \in SUBSET (1 .. n), t # {}, g1[t \ {Max(t)}] \in S
      PROVE  D[<<g1[t \ {Max(t)}], Max(t)>>]
               = IF es[Max(t)].type = type
                 THEN Append(g1[t \ {Max(t)}], es[Max(t)]) ELSE g1[t \ {Max(t)}]
  <2>1. Max(t) \in 1 .. n
    <3> HIDE DEF n
    <3> QED BY <1>1, <1>4, MaxOfPlaces
  <2> HIDE DEF S
  <2> QED BY <1>4, <2>1
<1>5. IsFold(g)
  <2>1. ASSUME NEW t \in SUBSET (1 .. n)
        PROVE  g[t] = IF t = {} THEN <<>>
                      ELSE IF es[Max(t)].type = type
                           THEN Append(g[t \ {Max(t)}], es[Max(t)])
                           ELSE g[t \ {Max(t)}]
    <3>1. CASE t = {}
      BY <1>3, <3>1 DEF FoldedBy
    <3>2. CASE t # {}
      <4> HIDE DEF D, n, S
      <4>1. t \ {Max(t)} \in SUBSET (1 .. n)
        OBVIOUS
      <4>2. g[t \ {Max(t)}] \in S
        BY <1>3, <4>1
      <4>3. g[t] = D[<<g[t \ {Max(t)}], Max(t)>>]
        BY <1>3, <3>2 DEF FoldedBy
      <4> QED BY <1>4, <3>2, <4>2, <4>3
    <3> QED BY <3>1, <3>2
  <2> HIDE DEF n
  <2> QED BY <1>1, <1>3, <2>1
<1>6. IsFold(h)
  <2> HIDE DEF IsFold
  <2> QED BY <1>5
<1>7. A!Picked(es, type) = h[DOMAIN es]
  BY Zenon DEF A!Picked, A!FoldLeft, A!MapThenFoldSet, A!Max, Max
<1>8. FoldsIn(S, h, n, <<>>, D)
  <2> HIDE DEF h, D, n, S
  <2>1. h[{}] = <<>>
    <3>1. {} \in SUBSET (DOMAIN es)
      OBVIOUS
    <3> QED BY <1>6, <3>1
  <2>2. ASSUME NEW t \in SUBSET (1 .. n), t # {}, h[t \ {Max(t)}] \in S
        PROVE  h[t] = D[<<h[t \ {Max(t)}], Max(t)>>]
    <3>1. h[t] = IF es[Max(t)].type = type
                 THEN Append(h[t \ {Max(t)}], es[Max(t)]) ELSE h[t \ {Max(t)}]
      BY <1>1, <1>6, <2>2
    <3> QED BY <1>4, <2>2, <3>1
  <2> QED BY <2>1, <2>2 DEF FoldsIn
<1>9. PICK f \in [0 .. n -> S] : EndsTrace(f, h, n, <<>>, D)
  <2> HIDE DEF h, D, n, S
  <2>1. n \in Nat /\ <<>> \in S
    BY <1>1
  <2> QED BY <2>1, <1>2, <1>8, FoldTrace
<1>10. PicksOf(es, type, f)
  <2>1. ASSUME NEW j \in 1 .. n
        PROVE  f[j] = IF es[j].type = type THEN Append(f[j - 1], es[j]) ELSE f[j - 1]
    <3> HIDE DEF S
    <3>1. j - 1 \in 0 .. n /\ f[j - 1] \in S
      BY SMTT(30), <1>1, <1>9
    <3> QED BY <1>1, <1>9, <3>1 DEF EndsTrace, Trace
  <2> QED BY <1>9, <2>1 DEF EndsTrace, Trace, PicksOf
<1> QED BY <1>1, <1>7, <1>9, <1>10 DEF EndsTrace

-----------------------------------------------------------------------------
(***************************************************************************)
(* The handling of interrupts.  Its state is one level of handling upon    *)
(* another: taken[j] began level j, which goes on until what began level   *)
(* j + 1, or, on the last level, to this moment.  The code of a level      *)
(* tells how far its part of the stack has grown.                          *)
(***************************************************************************)
HandlerOf(v) == IF v = I!TRAP_PGF THEN "page_fault_handler"
                ELSE IF v \in I!Traps THEN "default_trap_handler"
                ELSE "irq_handler"
TypeOf(v) == IF v \in I!Traps THEN "trap" ELSE "int"

TrapCode == {"stub", "entry_shim", "page_fault_handler", "default_trap_handler"}
AboveCode == TrapCode \union {"irq_handler", "module", "restore", "iret"}
BottomCode == {"kernel", "user", "syscall", "nowhere"}
CodePlace == (AboveCode \union BottomCode) \X Int
Word == (AboveCode \union BottomCode
           \union {"number", "on", "off", "blank", "handler"})
          \X (I!Registers \union {"", "ss", "rflags", "cs", "rip"}) \X Int
Selectors == {I!GDT_KERNEL_CODE, I!GDT_USER_CODE, I!SYSRET_CODE}
Frame == [irq : I!Gates, rip : CodePlace, regs : [I!Registers -> Word],
          flags : {"on", "off"}, selector : Selectors, len : Nat,
          soft : BOOLEAN]

Vectors == {v \in Int : v >= I!IOAPIC_IRQ_BASE}
GateTable == [I!Gates -> [type : {"absent", "trap", "int"}, entry : BOOLEAN,
                          user : BOOLEAN]]
HandlerTable == [I!Gates -> {"none", "page_fault_handler",
                             "default_trap_handler", "irq_handler"}]
IrqTables ==
  /\ machine \in {c.machine : c \in Computers}
  /\ redir \in Redirections
  /\ \A p \in I!Pins(machine) : redir[p] = I!Masked \/ redir[p] \in Vectors
  /\ irr \subseteq Vectors /\ IsFiniteSet(irr)
  /\ idt \in GateTable /\ handlers \in HandlerTable
  /\ irq_stage \in {"traps", "enabled", "run"} =>
       \A v \in I!Traps : handlers[v] = HandlerOf(v) /\ idt[v].type = TypeOf(v)
  /\ irq_stage \in {"enabled", "run"} =>
       \A v \in I!Gates : handlers[v] = HandlerOf(v) /\ idt[v].type = TypeOf(v)
  /\ irq_stage = "run" => \A v \in I!Gates : idt[v].entry

CpuType ==
  /\ irq_stage \in {"boot", "traps", "enabled", "run", "panic", "wild", "reset"}
  /\ rip \in CodePlace /\ regs \in [I!Registers -> Word]
  /\ flags \in {"on", "off"} /\ selector \in Selectors
  /\ stack \in Seq(Word) /\ taken \in Seq(Frame)
  /\ irq_stage \in {"boot", "traps", "enabled"} =>
       rip = I!Code("kernel") /\ flags = "off"

\* The words that the processor pushes, and where the stub has pushed the
\* number, upon an error code unless it expects another frame than there is.
HasCode(t) == t.irq \in I!CpuHasCode /\ ~t.soft
Entered(t) == t.len + IF HasCode(t) THEN 6 ELSE 5
Shimmed(t) == Entered(t) + IF t.irq \in I!StubHasCode THEN 1 ELSE 2
FrameWords(t, st) ==
  /\ st[t.len + 2] = I!Number(t.len)
  /\ st[t.len + 3] = <<t.flags, "rflags", 0>>
  /\ st[t.len + 4] = <<t.rip[1], "cs", t.selector>>
  /\ st[t.len + 5] = <<t.rip[1], "rip", t.rip[2]>>
CodeWords(t, st) ==
  /\ st[Shimmed(t)] = I!Number(t.irq)
  /\ ~I!Misentered(t) => st[Shimmed(t) - 1] = I!Number(I!CodeOf(t))

\* A level that t began: its code, its top of the stack, its registers.
InStub(t, at, top, rg, st) ==
  /\ at = <<"stub", t.irq>> /\ rg = t.regs
  /\ top = Entered(t)
  /\ HasCode(t) => st[t.len + 6] = I!Number(t.irq)
InShim(t, at, top, rg, st) ==
  /\ at = I!Code("entry_shim") /\ rg = t.regs
  /\ top = Shimmed(t) /\ CodeWords(t, st)
InHandler(t, at, top, st) ==
  /\ \/ at = I!Code(HandlerOf(t.irq))
     \/ at = I!Code("restore") /\ t.irq \in I!IrqGates
     \/ at = I!Code("module") /\ t.irq \in I!IrqGates /\ t.soft
  /\ top = Shimmed(t) + 15 /\ CodeWords(t, st)
  /\ \A n \in 1 .. 15 : st[Shimmed(t) + n] = t.regs[I!SaveOrder[n]]
InIret(t, at, top, rg) ==
  at = I!Code("iret") /\ rg = t.regs /\ top = t.len + 5
Level(t, at, top, rg, st) ==
  /\ FrameWords(t, st)
  /\ \/ InStub(t, at, top, rg, st) \/ InShim(t, at, top, rg, st)
     \/ InHandler(t, at, top, st) \/ InIret(t, at, top, rg)

\* What runs when nothing is handled.
KeptByCall == I!Registers \ {"rax", "rcx", "r11"}
Bottom(at, top, rg, st) ==
  \/ at = I!Code("kernel") /\ top = 0
  \/ /\ at = I!Code("user") /\ top = 0
     /\ \A r \in KeptByCall : rg[r] = <<"user", r, 0>>
  \/ /\ at \in {I!Code("syscall"), I!Code("nowhere")} /\ top = 22
     /\ \A n \in 1 .. 15 : I!SaveOrder[n] \in KeptByCall =>
          st[7 + n] = <<"user", I!SaveOrder[n], 0>>
     /\ st[10] = <<"user", "rip", 0>> /\ st[17] = <<"off", "rflags", 0>>

CodeAt(j) == IF j = Len(taken) THEN rip ELSE taken[j + 1].rip
TopAt(j) == IF j = Len(taken) THEN Len(stack) ELSE taken[j + 1].len
RegsAt(j) == IF j = Len(taken) THEN regs ELSE taken[j + 1].regs

Levels ==
  /\ Bottom(CodeAt(0), TopAt(0), RegsAt(0), stack)
  /\ \A j \in 1 .. Len(taken) :
       Level(taken[j], CodeAt(j), TopAt(j), RegsAt(j), stack)
  /\ \A j \in 1 .. Len(taken) : taken[j].len <= Len(stack)
  /\ \A j, h \in 1 .. Len(taken) : j <= h => taken[j].len <= taken[h].len

(***************************************************************************)
(* With interrupts on, nothing of a program and no interrupt is below; so  *)
(* a device's is taken from the kernel, or from the handling of its traps. *)
(* An int is the first level, of a program with its interrupts off.        *)
(***************************************************************************)
Irqs == {j \in 1 .. Len(taken) : taken[j].irq \in I!IrqGates}
OfKernel == TrapCode \union {"kernel"}
FlagsSound ==
  /\ flags = "on" => /\ Irqs = {} /\ rip[1] \in OfKernel
                     /\ \A j \in 1 .. Len(taken) : taken[j].rip[1] \in OfKernel
  /\ \A j, h \in Irqs : j = h
  /\ \A h \in Irqs : taken[h].soft \/ \A j \in 1 .. h : taken[j].rip[1] \in OfKernel
  /\ \A j \in 1 .. Len(taken) : taken[j].soft =>
       j = 1 /\ taken[j].rip[1] = "user" /\ taken[j].flags = "off"
  /\ \A j \in 1 .. Len(taken) : taken[j].rip[1] = "iret" =>
       j # 1 /\ taken[j - 1].soft

\* sysretq's selector is a program's, and modules come with programs.
ProgramSound ==
  /\ selector = I!SYSRET_CODE => rip[1] = "user"
  /\ \A j \in 1 .. Len(taken) :
       taken[j].selector = I!SYSRET_CODE => taken[j].rip[1] = "user"
  /\ irq_handlers # {} => CodeAt(0)[1] # "kernel"

Reported == I!PanicTellsTruth

-----------------------------------------------------------------------------
(***************************************************************************)
(* Where RESTORE_REGS and struct regs find what SAVE_REGS has pushed.      *)
(***************************************************************************)
LEMMA PlaceOf ==
  ASSUME NEW s, NEW n \in Nat, Len(s) = n, NEW j \in 1 .. n,
         \A h \in 1 .. n : s[h] = s[j] => h = j
  PROVE  LET T == {h \in 1 .. Len(s) : s[h] = s[j]}
         IN  (IF T # {} THEN Min(T) ELSE 0) = j
<1> DEFINE T == {h \in 1 .. n : s[h] = s[j]}
<1>1. T = {j}
  OBVIOUS
<1>2. T \subseteq 1 .. n /\ T # {}
  BY <1>1
<1>3. Min(T) \in T
  BY <1>2, FirstPlace
<1> QED BY <1>1, <1>3

LEMMA SavedRegisters ==
  /\ Len(I!SaveOrder) = 15
  /\ \A n \in 1 .. 15 : I!SaveOrder[n] \in I!Registers
  /\ \A r \in I!Registers : \E n \in 1 .. 15 : r = I!SaveOrder[n]
  /\ \A n, m \in 1 .. 15 : I!SaveOrder[n] = I!SaveOrder[m] => n = m
<1>1. Len(I!SaveOrder) = 15 /\ DOMAIN I!SaveOrder = 1 .. 15
  BY DEF I!SaveOrder
<1>2. I!Registers = {I!SaveOrder[n] : n \in 1 .. 15}
  BY <1>1 DEF I!Registers, I!ToSet
<1>3. \A n, m \in 1 .. 15 : I!SaveOrder[n] = I!SaveOrder[m] => n = m
  BY DEF I!SaveOrder
<1> QED BY <1>1, <1>2, <1>3

LEMMA RestoredRegisters ==
  ASSUME NEW n \in 1 .. 15
  PROVE  I!SelectInSeq(I!RestoreOrder, LAMBDA g : g = I!SaveOrder[n]) = 16 - n
<1>1. Len(I!RestoreOrder) = 15
  BY DEF I!RestoreOrder
<1>2. \A m \in 1 .. 15 : I!RestoreOrder[16 - m] = I!SaveOrder[m]
  BY DEF I!RestoreOrder, I!SaveOrder
<1>3. 16 - n \in 1 .. 15 /\ I!RestoreOrder[16 - n] = I!SaveOrder[n]
  BY <1>2
<1>4. ASSUME NEW h \in 1 .. 15, I!RestoreOrder[h] = I!RestoreOrder[16 - n]
      PROVE  h = 16 - n
  <2>1. 16 - h \in 1 .. 15 /\ 16 - (16 - h) = h
    OBVIOUS
  <2>2. I!RestoreOrder[h] = I!SaveOrder[16 - h]
    BY <1>2, <2>1
  <2>3. 16 - h = n
    BY <1>3, <1>4, <2>1, <2>2, SavedRegisters
  <2> QED BY <2>3
<1>5. LET T == {h \in 1 .. Len(I!RestoreOrder) :
                   I!RestoreOrder[h] = I!RestoreOrder[16 - n]}
      IN  (IF T # {} THEN Min(T) ELSE 0) = 16 - n
  <2> DEFINE s == I!RestoreOrder
             j == 16 - n
  <2>1. /\ 15 \in Nat /\ Len(s) = 15 /\ j \in 1 .. 15
        /\ \A h \in 1 .. 15 : s[h] = s[j] => h = j
    BY <1>1, <1>3, <1>4
  <2> HIDE DEF s, j
  <2>2. LET T == {h \in 1 .. Len(s) : s[h] = s[j]}
        IN  (IF T # {} THEN Min(T) ELSE 0) = j
    BY ZenonT(60), <2>1, PlaceOf
  <2> QED BY <2>2 DEF s, j
<1> QED BY <1>3, <1>5 DEF I!SelectInSeq, I!Min, Min

LEMMA FieldPlaces ==
  /\ I!SelectInSeq(I!RegsFields, LAMBDA g : g = "irq") = 16
  /\ I!SelectInSeq(I!RegsFields, LAMBDA g : g = "error_code") = 17
  /\ I!SelectInSeq(I!RegsFields, LAMBDA g : g = "rip") = 18
<1>1. Len(I!RegsFields) = 22
  BY DEF I!RegsFields
<1>2. /\ I!RegsFields[16] = "irq" /\ I!RegsFields[17] = "error_code"
      /\ I!RegsFields[18] = "rip"
  BY DEF I!RegsFields
<1>3. \A h \in 1 .. 22 : /\ I!RegsFields[h] = "irq" => h = 16
                         /\ I!RegsFields[h] = "error_code" => h = 17
                         /\ I!RegsFields[h] = "rip" => h = 18
  BY DEF I!RegsFields
<1>4. 16 \in 1 .. 22 /\ 17 \in 1 .. 22 /\ 18 \in 1 .. 22
  OBVIOUS
<1>5. I!SelectInSeq(I!RegsFields, LAMBDA g : g = "irq") = 16
  BY <1>1, <1>2, <1>3, <1>4, PlaceOf DEF I!SelectInSeq, I!Min, Min
<1>6. I!SelectInSeq(I!RegsFields, LAMBDA g : g = "error_code") = 17
  BY <1>1, <1>2, <1>3, <1>4, PlaceOf DEF I!SelectInSeq, I!Min, Min
<1>7. I!SelectInSeq(I!RegsFields, LAMBDA g : g = "rip") = 18
  BY <1>1, <1>2, <1>3, <1>4, PlaceOf DEF I!SelectInSeq, I!Min, Min
<1> QED BY <1>5, <1>6, <1>7

LEMMA PoppedWords ==
  ASSUME NEW n \in 1 .. 15
  PROVE  I!Popped[I!SaveOrder[n]] = stack[Len(stack) - (16 - n) + 1]
  BY RestoredRegisters, SavedRegisters DEF I!Popped

-----------------------------------------------------------------------------
(***************************************************************************)
(* A level stays as it is while the stack below its top does.              *)
(***************************************************************************)
Agree(st1, st2, top) == \A j \in 1 .. top : st2[j] = st1[j]

\* A frame is as its stub expects it when both know of a code, or neither.
LEMMA Entering ==
  ASSUME NEW t \in Frame, ~I!Misentered(t)
  PROVE  HasCode(t) <=> t.irq \in I!StubHasCode
<1>1. /\ t.irq \in I!StubHasCode => t.irq \in I!CpuHasCode /\ t.irq # I!TRAP_DOUBLE
      /\ t.irq \in I!CpuHasCode => t.irq \in I!StubHasCode \/ t.irq = I!TRAP_DOUBLE
  BY DEF I!CpuHasCode, I!StubHasCode, I!TRAP_DOUBLE
<1> QED BY <1>1, Zenon DEF I!Misentered, HasCode

LEMMA FrameSizes ==
  ASSUME NEW t \in Frame
  PROVE  /\ t.len \in Nat /\ t.irq \in I!Gates /\ t.soft \in BOOLEAN
         /\ Entered(t) \in Nat /\ Entered(t) >= t.len + 5
         /\ Shimmed(t) \in Nat /\ Shimmed(t) >= t.len + 6
         /\ t.irq \in I!IrqGates => Shimmed(t) = t.len + 7
         /\ ~I!Misentered(t) => Shimmed(t) = t.len + 7
<1>1. t.len \in Nat /\ t.irq \in I!Gates /\ t.soft \in BOOLEAN
  BY DEF Frame
<1>2. t.irq \in I!IrqGates => t.irq \notin I!CpuHasCode /\ t.irq \notin I!StubHasCode
  BY DEF I!IrqGates, I!CpuHasCode, I!StubHasCode, I!TRAP_DOUBLE
<1>3. t.irq \in I!IrqGates => ~HasCode(t)
  BY <1>2 DEF HasCode
<1> QED BY <1>1, <1>2, <1>3, Entering DEF Entered, Shimmed

LEMMA LevelKept ==
  ASSUME NEW t \in Frame, NEW at, NEW top \in Nat, NEW rg, NEW st1, NEW st2,
         Agree(st1, st2, top), Level(t, at, top, rg, st1)
  PROVE  Level(t, at, top, rg, st2)
<1> USE DEF Frame
<1>1. /\ t.len \in Nat
      /\ Shimmed(t) \in Nat /\ Shimmed(t) >= t.len + 6
  BY FrameSizes
<1>2. top >= t.len + 5
  BY <1>1, FrameSizes DEF Level, InStub, InShim, InHandler, InIret
<1>3. FrameWords(t, st2)
  <2>1. /\ t.len + 2 \in 1 .. top /\ t.len + 3 \in 1 .. top
        /\ t.len + 4 \in 1 .. top /\ t.len + 5 \in 1 .. top
    BY <1>1, <1>2
  <2> QED BY <2>1 DEF Level, FrameWords, Agree
<1>4. CASE InStub(t, at, top, rg, st1)
  <2>1. HasCode(t) => t.len + 6 \in 1 .. top
    BY <1>1, <1>4 DEF InStub, Entered
  <2>2. InStub(t, at, top, rg, st2)
    BY <1>4, <2>1 DEF InStub, Agree
  <2> QED BY <1>3, <2>2 DEF Level
<1>5. ASSUME top >= Shimmed(t), CodeWords(t, st1)
      PROVE  CodeWords(t, st2)
  <2>1. Shimmed(t) \in 1 .. top /\ Shimmed(t) - 1 \in 1 .. top
    BY <1>1, <1>5
  <2> QED BY <1>5, <2>1 DEF CodeWords, Agree
<1>6. CASE InShim(t, at, top, rg, st1)
  <2>1. InShim(t, at, top, rg, st2)
    BY <1>1, <1>5, <1>6 DEF InShim
  <2> QED BY <1>3, <2>1 DEF Level
<1>7. CASE InHandler(t, at, top, st1)
  <2>1. \A n \in 1 .. 15 : Shimmed(t) + n \in 1 .. top
    BY <1>1, <1>7 DEF InHandler
  <2>2. CodeWords(t, st2)
    BY <1>1, <1>5, <1>7 DEF InHandler
  <2>3. InHandler(t, at, top, st2)
    BY <1>7, <2>1, <2>2 DEF InHandler, Agree
  <2> QED BY <1>3, <2>3 DEF Level
<1>8. CASE InIret(t, at, top, rg)
  BY <1>3, <1>8 DEF Level
<1> QED BY <1>4, <1>6, <1>7, <1>8 DEF Level

LEMMA BottomKept ==
  ASSUME NEW at, NEW top, NEW rg, NEW st1, NEW st2,
         Agree(st1, st2, top), Bottom(at, top, rg, st1)
  PROVE  Bottom(at, top, rg, st2)
<1>1. CASE top = 22
  <2>1. \A n \in 1 .. 15 : 7 + n \in 1 .. top
    BY <1>1
  <2>2. 10 \in 1 .. top /\ 17 \in 1 .. top
    BY <1>1
  <2> QED BY <2>1, <2>2 DEF Bottom, Agree
<1>2. CASE top # 22
  BY <1>2 DEF Bottom
<1> QED BY <1>1, <1>2

\* The codes of levels, and of what is below them.
LEMMA LevelCode ==
  ASSUME NEW t \in Frame, NEW at, NEW top, NEW rg, NEW st,
         Level(t, at, top, rg, st)
  PROVE  at[1] \in AboveCode
<1>1. CASE \/ InStub(t, at, top, rg, st) \/ InShim(t, at, top, rg, st)
           \/ InIret(t, at, top, rg)
  BY <1>1 DEF InStub, InShim, InIret, I!Code, AboveCode, TrapCode
<1>2. CASE InHandler(t, at, top, st)
  BY <1>2 DEF InHandler, I!Code, HandlerOf, AboveCode, TrapCode
<1> QED BY <1>1, <1>2 DEF Level

LEMMA BottomHasCode ==
  ASSUME NEW at, NEW top, NEW rg, NEW st, Bottom(at, top, rg, st)
  PROVE  at[1] \in BottomCode
<1>1. at \in {<<c, 0>> : c \in BottomCode}
  BY DEF Bottom, I!Code, BottomCode
<1> QED BY <1>1

LEMMA FramesTyped ==
  ASSUME CpuType
  PROVE  /\ Len(taken) \in Nat /\ Len(stack) \in Nat
         /\ \A j \in 1 .. Len(taken) : taken[j] \in Frame /\ taken[j].len \in Nat
<1>1. taken \in Seq(Frame) /\ stack \in Seq(Word)
  BY DEF CpuType
<1>2. \A t \in Frame : t.len \in Nat
  BY DEF Frame
<1> QED BY <1>1, <1>2

\* Nothing is handled when the kernel or a program runs, and only then.
LEMMA OnTheBottom ==
  ASSUME CpuType, Levels
  PROVE  /\ rip[1] \in BottomCode => taken = <<>>
         /\ rip[1] \in AboveCode => Len(taken) \in 1 .. Len(taken)
<1>1. /\ Len(taken) \in Nat
      /\ \A j \in 1 .. Len(taken) : taken[j] \in Frame
  BY FramesTyped
<1>2. CASE Len(taken) = 0
  <2>1. taken = <<>>
    BY <1>2 DEF CpuType
  <2>2. Bottom(rip, TopAt(0), RegsAt(0), stack)
    BY <1>2 DEF Levels, CodeAt
  <2>3. rip[1] \in BottomCode
    BY <2>2, BottomHasCode
  <2> QED BY <2>1, <2>3 DEF AboveCode, TrapCode, BottomCode
<1>3. CASE Len(taken) # 0
  <2>1. Len(taken) \in 1 .. Len(taken)
    BY <1>1, <1>3
  <2>2. Level(taken[Len(taken)], rip, TopAt(Len(taken)), RegsAt(Len(taken)), stack)
    BY <2>1 DEF Levels, CodeAt
  <2>3. rip[1] \in AboveCode
    BY <1>1, <2>1, <2>2, LevelCode
  <2> QED BY <2>1, <2>3 DEF AboveCode, TrapCode, BottomCode
<1> QED BY <1>2, <1>3

LEMMA ConcatPlaces ==
  ASSUME NEW S, NEW s \in Seq(S), NEW x \in Seq(S)
  PROVE  /\ s \o x \in Seq(S) /\ Len(s \o x) = Len(s) + Len(x)
         /\ \A j \in 1 .. Len(s) : (s \o x)[j] = s[j]
         /\ \A j \in 1 .. Len(x) : (s \o x)[Len(s) + j] = x[j]
  OBVIOUS

(***************************************************************************)
(* The last level goes on: it may push, and what is below stays.           *)
(***************************************************************************)
LEMMA LastLevelMoves ==
  ASSUME CpuType, Levels, taken # <<>>, taken' = taken,
         NEW x \in Seq(Word), stack' = stack \o x,
         Level(taken[Len(taken)], rip', Len(stack'), regs', stack')
  PROVE  Levels'
<1> DEFINE n == Len(taken)
<1>1. /\ n \in Nat \ {0} /\ n \in 1 .. n
      /\ stack \in Seq(Word) /\ Len(stack) \in Nat
      /\ \A j \in 1 .. n : taken[j] \in Frame /\ taken[j].len \in Nat
  BY FramesTyped DEF CpuType
<1>2. /\ Len(stack') = Len(stack) + Len(x) /\ Len(x) \in Nat
      /\ \A j \in 1 .. Len(stack) : stack'[j] = stack[j]
  BY <1>1, ConcatPlaces
<1>3. ASSUME NEW j \in 0 .. n - 1
      PROVE  /\ CodeAt(j)' = CodeAt(j) /\ TopAt(j)' = TopAt(j)
             /\ RegsAt(j)' = RegsAt(j)
             /\ TopAt(j) \in Nat /\ TopAt(j) <= Len(stack)
  <2>1. j # n /\ j + 1 \in 1 .. n
    BY <1>1
  <2> QED BY <1>1, <2>1 DEF CodeAt, TopAt, RegsAt, Levels
<1>4. \A j \in 0 .. n - 1 : Agree(stack, stack', TopAt(j))
  BY <1>1, <1>2, <1>3 DEF Agree
<1>5. Bottom(CodeAt(0), TopAt(0), RegsAt(0), stack)'
  <2>1. 0 \in 0 .. n - 1
    BY <1>1
  <2> QED BY <1>3, <1>4, <2>1, BottomKept DEF Levels
<1>6. ASSUME NEW j \in 1 .. n
      PROVE  Level(taken[j], CodeAt(j), TopAt(j), RegsAt(j), stack)'
  <2>1. CASE j = n
    BY <2>1 DEF CodeAt, TopAt, RegsAt
  <2>2. CASE j # n
    <3>1. j \in 0 .. n - 1
      BY <1>1, <2>2
    <3> QED BY <1>1, <1>3, <1>4, <3>1, LevelKept DEF Levels
  <2> QED BY <2>1, <2>2
<1>7. \A j \in 1 .. n : taken[j].len <= Len(stack')
  BY <1>1, <1>2 DEF Levels
<1> QED BY <1>5, <1>6, <1>7 DEF Levels

(***************************************************************************)
(* A new level begins, on whatever runs.                                   *)
(***************************************************************************)
LEMMA FiveWords ==
  ASSUME NEW S, NEW a \in S, NEW b \in S, NEW c \in S, NEW d \in S, NEW e \in S
  PROVE  LET s == <<a, b, c, d, e>>
         IN  /\ s \in Seq(S) /\ Len(s) = 5
             /\ s[2] = b /\ s[3] = c /\ s[4] = d /\ s[5] = e
  OBVIOUS

LEMMA WordMade ==
  ASSUME NEW m \in Int
  PROVE  /\ \A c \in AboveCode \union BottomCode :
              \A f \in {"ss", "cs", "rip"} : <<c, f, m>> \in Word
         /\ \A c \in {"on", "off"} : <<c, "rflags", m>> \in Word
         /\ I!Number(m) \in Word
  BY DEF Word, I!Number

LEMMA PushedWords ==
  ASSUME NEW at \in CodePlace, NEW l \in Nat, NEW v \in I!Gates, CpuType,
         NEW code \in {<<>>, <<I!Number(v)>>}
  PROVE  LET ws == I!Pushed(at, l, code)
         IN  /\ ws \in Seq(Word)
             /\ Len(ws) = IF code = <<>> THEN 5 ELSE 6
             /\ ws[2] = I!Number(l) /\ ws[3] = <<flags, "rflags", 0>>
             /\ ws[4] = <<at[1], "cs", selector>>
             /\ ws[5] = <<at[1], "rip", at[2]>>
             /\ code # <<>> => ws[6] = I!Number(v)
<1> DEFINE five == <<<<at[1], "ss", 0>>, I!Number(l), <<flags, "rflags", 0>>,
                     <<at[1], "cs", selector>>, <<at[1], "rip", at[2]>>>>
<1>1. /\ l \in Int /\ v \in Int /\ 0 \in Int /\ selector \in Int
      /\ at[1] \in AboveCode \union BottomCode /\ at[2] \in Int
      /\ flags \in {"on", "off"}
  BY DEF CpuType, CodePlace, I!Gates, Selectors, I!GDT_KERNEL_CODE,
         I!GDT_USER_CODE, I!SYSRET_CODE
<1>2. /\ <<at[1], "ss", 0>> \in Word /\ I!Number(l) \in Word
      /\ <<flags, "rflags", 0>> \in Word /\ <<at[1], "cs", selector>> \in Word
      /\ <<at[1], "rip", at[2]>> \in Word /\ I!Number(v) \in Word
  BY <1>1, WordMade
<1>3. /\ five \in Seq(Word) /\ Len(five) = 5
      /\ five[2] = I!Number(l) /\ five[3] = <<flags, "rflags", 0>>
      /\ five[4] = <<at[1], "cs", selector>>
      /\ five[5] = <<at[1], "rip", at[2]>>
  BY <1>2, FiveWords
<1>4. I!Pushed(at, l, code) = five \o code
  BY DEF I!Pushed
<1> HIDE DEF five
<1>5. CASE code = <<>>
  <2>1. five \o <<>> = five
    BY <1>3, ConcatEmptySeq
  <2>2. I!Pushed(at, l, code) = five
    BY <1>4, <1>5, <2>1
  <2> QED BY <1>3, <1>5, <2>2
<1>6. CASE code # <<>>
  <2>1. code = <<I!Number(v)>>
    BY <1>6
  <2>2. code \in Seq(Word) /\ Len(code) = 1 /\ code[1] = I!Number(v)
    BY <1>2, <2>1
  <2>3. /\ five \o code \in Seq(Word) /\ Len(five \o code) = 5 + 1
        /\ \A j \in 1 .. 5 : (five \o code)[j] = five[j]
        /\ \A j \in 1 .. 1 : (five \o code)[5 + j] = code[j]
    <3>1. five \in Seq(Word) /\ code \in Seq(Word)
      BY <1>3, <2>2
    <3>2. /\ five \o code \in Seq(Word)
          /\ Len(five \o code) = Len(five) + Len(code)
          /\ \A j \in 1 .. Len(five) : (five \o code)[j] = five[j]
          /\ \A j \in 1 .. Len(code) : (five \o code)[Len(five) + j] = code[j]
      BY <3>1, ConcatPlaces
    <3>3. Len(five) = 5 /\ Len(code) = 1
      BY <1>3, <2>2
    <3> QED BY <3>2, <3>3
  <2>4. /\ 2 \in 1 .. 5 /\ 3 \in 1 .. 5 /\ 4 \in 1 .. 5 /\ 5 \in 1 .. 5
        /\ 1 \in 1 .. 1 /\ 5 + 1 = 6
    OBVIOUS
  <2>5. (five \o code)[6] = I!Number(v)
    BY <2>2, <2>3, <2>4
  <2> QED BY <1>3, <1>4, <1>6, <2>3, <2>4, <2>5
<1> QED BY <1>5, <1>6

\* What the last level is of, as it would be at another place.
OnTop(at, rg, st) ==
  /\ \A j \in 0 .. Len(taken) - 1 : TopAt(j) <= Len(st) /\ Agree(stack, st, TopAt(j))
  /\ IF Len(taken) = 0 THEN Bottom(at, Len(st), rg, st)
     ELSE Level(taken[Len(taken)], at, Len(st), rg, st)

LEMMA AsItRuns ==
  ASSUME CpuType, Levels
  PROVE  OnTop(rip, regs, stack)
<1> DEFINE n == Len(taken)
<1>1. n \in Nat /\ n \in 0 .. n /\ (n # 0 => n \in 1 .. n)
  BY FramesTyped
<1>2. ASSUME NEW j \in 0 .. n - 1
      PROVE  TopAt(j) <= Len(stack) /\ Agree(stack, stack, TopAt(j))
  <2>1. j # n /\ j + 1 \in 1 .. n
    BY <1>1
  <2> QED BY <2>1 DEF TopAt, Levels, Agree
<1>3. CASE n = 0
  BY <1>2, <1>3 DEF OnTop, Levels, CodeAt, TopAt, RegsAt
<1>4. CASE n # 0
  BY <1>1, <1>2, <1>4 DEF OnTop, Levels, CodeAt, TopAt, RegsAt
<1> QED BY <1>3, <1>4

LEMMA LevelBegins ==
  ASSUME CpuType, Levels, NEW v \in I!Gates, NEW at \in CodePlace,
         NEW rs \in [I!Registers -> Word], NEW s \in Seq(Word), OnTop(at, rs, s),
         NEW soft \in BOOLEAN, NEW code,
         code = IF v \in I!CpuHasCode /\ ~soft THEN <<I!Number(v)>> ELSE <<>>,
         I!Follow(v, at, rs, s, code, soft)
  PROVE  /\ Levels'
         /\ rip' \in CodePlace /\ regs' \in [I!Registers -> Word]
         /\ selector' \in Selectors
         /\ stack' \in Seq(Word) /\ taken' \in Seq(Frame)
<1> DEFINE n == Len(taken)
           t == [irq |-> v, rip |-> at, regs |-> rs, flags |-> flags,
                 selector |-> selector, len |-> Len(s), soft |-> soft]
           ws == I!Pushed(at, Len(s), code)
<1>1. /\ n \in Nat /\ Len(s) \in Nat
      /\ \A j \in 1 .. n : taken[j] \in Frame /\ taken[j].len \in Nat
  <2>1. Len(s) \in Nat
    OBVIOUS
  <2> QED BY <2>1, FramesTyped
<1>2. t \in Frame
  BY <1>1 DEF CpuType, Frame
<1>3. /\ taken' = Append(taken, t) /\ taken' \in Seq(Frame) /\ Len(taken') = n + 1
      /\ taken'[n + 1] = t /\ \A j \in 1 .. n : taken'[j] = taken[j]
  BY <1>1, <1>2 DEF I!Follow, CpuType
<1>4. code \in {<<>>, <<I!Number(v)>>}
  OBVIOUS
<1>5. /\ ws \in Seq(Word) /\ Len(ws) = IF code = <<>> THEN 5 ELSE 6
      /\ ws[2] = I!Number(Len(s)) /\ ws[3] = <<flags, "rflags", 0>>
      /\ ws[4] = <<at[1], "cs", selector>> /\ ws[5] = <<at[1], "rip", at[2]>>
      /\ code # <<>> => ws[6] = I!Number(v)
  BY <1>1, <1>4, PushedWords
<1>6. stack' = s \o ws /\ rip' = <<"stub", v>> /\ regs' = rs
  BY DEF I!Follow
<1>7. code = <<>> <=> ~HasCode(t)
  BY DEF HasCode
<1> HIDE DEF ws
<1>8. /\ stack' \in Seq(Word) /\ Len(stack') = Len(s) + Len(ws)
      /\ \A j \in 1 .. Len(s) : stack'[j] = s[j]
      /\ \A j \in 1 .. Len(ws) : stack'[Len(s) + j] = ws[j]
  <2>1. /\ s \o ws \in Seq(Word) /\ Len(s \o ws) = Len(s) + Len(ws)
        /\ \A j \in 1 .. Len(s) : (s \o ws)[j] = s[j]
        /\ \A j \in 1 .. Len(ws) : (s \o ws)[Len(s) + j] = ws[j]
    <3>1. ws \in Seq(Word)
      BY <1>5
    <3> QED BY <3>1, ConcatPlaces
  <2> QED BY <1>6, <2>1
<1>9. Level(t, rip', Len(stack'), regs', stack')
  <2>1. FrameWords(t, stack')
    <3>1. /\ 2 \in 1 .. Len(ws) /\ 3 \in 1 .. Len(ws) /\ 4 \in 1 .. Len(ws)
          /\ 5 \in 1 .. Len(ws)
      BY <1>5
    <3>2. /\ stack'[Len(s) + 2] = ws[2] /\ stack'[Len(s) + 3] = ws[3]
          /\ stack'[Len(s) + 4] = ws[4] /\ stack'[Len(s) + 5] = ws[5]
      BY <1>8, <3>1
    <3> QED BY <1>5, <3>2 DEF FrameWords
  <2>2. HasCode(t) => stack'[Len(s) + 6] = I!Number(v)
    <3>1. HasCode(t) => Len(ws) = 6 /\ ws[6] = I!Number(v)
      BY <1>5, <1>7
    <3>2. 6 \in 1 .. 6
      OBVIOUS
    <3>3. Len(ws) = 6 => stack'[Len(s) + 6] = ws[6]
      BY <1>8, <3>2
    <3> QED BY <3>1, <3>3
  <2>3. Len(stack') = Entered(t)
    BY <1>1, <1>5, <1>7, <1>8 DEF Entered
  <2>4. InStub(t, rip', Len(stack'), regs', stack')
    BY <1>6, <2>2, <2>3 DEF InStub
  <2> QED BY <2>1, <2>4 DEF Level
<1>10. ASSUME NEW j \in 0 .. n - 1
       PROVE  /\ CodeAt(j)' = CodeAt(j) /\ TopAt(j)' = TopAt(j)
              /\ RegsAt(j)' = RegsAt(j)
              /\ TopAt(j) \in Nat /\ TopAt(j) <= Len(s)
              /\ Agree(stack, stack', TopAt(j))
  <2>1. j # n /\ j # Len(taken') /\ j + 1 \in 1 .. n
    BY <1>1, <1>3
  <2>2. /\ CodeAt(j)' = CodeAt(j) /\ TopAt(j)' = TopAt(j)
        /\ RegsAt(j)' = RegsAt(j) /\ TopAt(j) \in Nat
    BY <1>1, <1>3, <2>1 DEF CodeAt, TopAt, RegsAt
  <2>3. TopAt(j) <= Len(s) /\ Agree(stack, s, TopAt(j))
    BY DEF OnTop
  <2> QED BY <1>1, <1>8, <2>2, <2>3 DEF Agree
<1>11. /\ \A j : j = n => CodeAt(j)' = at /\ TopAt(j)' = Len(s) /\ RegsAt(j)' = rs
       /\ Agree(s, stack', Len(s))
  <2>1. ASSUME NEW j, j = n
        PROVE  CodeAt(j)' = at /\ TopAt(j)' = Len(s) /\ RegsAt(j)' = rs
    <3>1. j # Len(taken') /\ taken'[j + 1] = t
      BY <1>1, <1>3, <2>1
    <3>2. t.rip = at /\ t.len = Len(s) /\ t.regs = rs
      OBVIOUS
    <3> HIDE DEF t
    <3> QED BY <3>1, <3>2 DEF CodeAt, TopAt, RegsAt
  <2> QED BY <1>8, <2>1 DEF Agree
<1>12. Bottom(CodeAt(0), TopAt(0), RegsAt(0), stack)'
  <2>1. CASE n = 0
    <3>1. CodeAt(0)' = at /\ TopAt(0)' = Len(s) /\ RegsAt(0)' = rs
      BY <1>11, <2>1
    <3>2. Bottom(at, Len(s), rs, s)
      BY <2>1 DEF OnTop
    <3>3. Bottom(at, Len(s), rs, stack')
      BY <1>11, <3>2, BottomKept
    <3> QED BY <3>1, <3>3
  <2>2. CASE n # 0
    <3>1. 0 \in 0 .. n - 1
      BY <1>1, <2>2
    <3> QED BY <1>10, <3>1, BottomKept DEF Levels
  <2> QED BY <2>1, <2>2
<1>13. ASSUME NEW j \in 1 .. n + 1
       PROVE  Level(taken[j], CodeAt(j), TopAt(j), RegsAt(j), stack)'
  <2>1. CASE j = n + 1
    BY <1>3, <1>9, <2>1 DEF CodeAt, TopAt, RegsAt
  <2>2. CASE j = n
    <3>1. n # 0 /\ j \in 1 .. n /\ taken'[j] = taken[n] /\ taken[n] \in Frame
      BY <1>1, <1>3, <2>2
    <3>2. Level(taken[n], at, Len(s), rs, s)
      BY <3>1 DEF OnTop
    <3>3. Level(taken[n], at, Len(s), rs, stack')
      BY <1>1, <1>11, <3>1, <3>2, LevelKept
    <3>4. /\ CodeAt(j)' = at /\ TopAt(j)' = Len(s) /\ RegsAt(j)' = rs
          /\ taken[j]' = taken[n]
      BY <1>11, <2>2, <3>1
    <3> QED BY <3>3, <3>4
  <2>3. CASE j # n + 1 /\ j # n
    <3>1. j \in 0 .. n - 1 /\ j \in 1 .. n
      BY <1>1, <2>3
    <3> QED BY <1>1, <1>3, <1>10, <3>1, LevelKept DEF Levels
  <2> QED BY <2>1, <2>2, <2>3
<1>14. \A j \in 1 .. n : taken[j].len <= Len(s)
  <2>1. ASSUME NEW j \in 1 .. n PROVE taken[j].len <= Len(s)
    <3>1. j - 1 \in 0 .. n - 1 /\ j - 1 # n /\ (j - 1) + 1 = j
      BY <1>1
    <3>2. TopAt(j - 1) = taken[j].len
      BY <3>1 DEF TopAt
    <3> QED BY <1>10, <3>1, <3>2
  <2> QED BY <2>1
<1>15. \A j \in 1 .. n + 1 : taken'[j].len <= Len(stack')
  <2>1. Len(s) <= Len(stack')
    BY <1>1, <1>5, <1>8
  <2>2. \A j \in 1 .. n : taken[j].len <= Len(stack')
    BY <1>1, <1>8, <1>14, <2>1
  <2>3. \A j \in 1 .. n + 1 : j = n + 1 \/ j \in 1 .. n
    BY <1>1
  <2>4. taken'[n + 1].len = Len(s)
    BY <1>3
  <2>5. \A j \in 1 .. n : taken'[j].len = taken[j].len
    BY <1>3
  <2> HIDE DEF t
  <2> QED BY <2>1, <2>2, <2>3, <2>4, <2>5
<1>16. \A j, h \in 1 .. n + 1 : j <= h => taken'[j].len <= taken'[h].len
  <2>1. \A j \in 1 .. n + 1 : j = n + 1 \/ j \in 1 .. n
    BY <1>1
  <2>2. /\ taken'[n + 1].len = Len(s)
        /\ \A j \in 1 .. n : taken'[j].len = taken[j].len
    BY <1>3
  <2>3. Len(s) <= Len(s)
    BY <1>1
  <2>4. \A j \in 1 .. n : ~(n + 1 <= j)
    BY <1>1
  <2> HIDE DEF t
  <2> QED BY <1>14, <2>1, <2>2, <2>3, <2>4 DEF Levels
<1>17. Levels'
  BY <1>3, <1>12, <1>13, <1>15, <1>16 DEF Levels
<1>18. rip' \in CodePlace
  <2>1. v \in Int
    BY DEF I!Gates
  <2>2. "stub" \in AboveCode
    BY DEF AboveCode, TrapCode
  <2> QED BY <1>6, <2>1, <2>2 DEF CodePlace
<1>19. selector' \in Selectors
  BY DEF I!Follow, Selectors
<1> QED BY <1>3, <1>6, <1>8, <1>17, <1>18, <1>19

-----------------------------------------------------------------------------
(***************************************************************************)
(* The tables that the processor and the controllers go by.                *)
(***************************************************************************)
LEMMA PinsTyped ==
  ASSUME machine \in {c.machine : c \in Computers}
  PROVE  /\ machine.pins \in Seq(Nat \ {0}) /\ machine.raised \subseteq I!Pins(machine)
         /\ \A p \in I!Pins(machine) :
              /\ p = <<p[1], p[2]>>
              /\ p[1] \in DOMAIN machine.pins /\ p[2] \in 0 .. machine.pins[p[1]] - 1
<1>1. machine.pins \in Seq(Nat \ {0}) /\ machine.raised \subseteq I!Pins(machine)
  BY StartupAssumption DEF I!Constants
<1> QED BY SMTT(30), <1>1 DEF I!Pins

Valid(r) == \A p \in I!Pins(machine) : r[p] = I!Masked \/ r[p] \in Vectors

LEMMA RelocatedValid ==
  ASSUME IrqTables
  PROVE  I!Relocated \in Redirections /\ Valid(I!Relocated)
<1>1. /\ DOMAIN redir = I!Pins(machine) /\ redir \in Redirections
      /\ machine \in {c.machine : c \in Computers}
      /\ \A p \in I!Pins(machine) : redir[p] = I!Masked \/ redir[p] \in Vectors
  BY DEF IrqTables, Redirections
<1>2. \A p \in I!Pins(machine) : p[2] \in Nat
  <2>1. ASSUME NEW p \in I!Pins(machine) PROVE p[2] \in Nat
    <3>1. p[2] \in 0 .. machine.pins[p[1]] - 1
      BY <1>1, PinsTyped
    <3> QED BY <3>1
  <2> QED BY <2>1
<1> QED BY <1>1, <1>2 DEF I!Relocated, Redirections, Valid, Vectors,
                          I!IOAPIC_IRQ_BASE, I!Masked

LEMMA RedirectValid ==
  ASSUME NEW r \in Redirections, Valid(r), NEW l \in LegacyMap
  PROVE  Valid(I!Redirect(r, l))
<1>1. 32 + l.irq \in Int /\ 32 + l.irq >= 32
  BY DEF LegacyMap
<1> QED BY <1>1 DEF I!Redirect, Redirections, Valid, Vectors, I!IOAPIC_IRQ_BASE

LEMMA OverridesValid ==
  ASSUME IrqTables, AcpiType, NEW f, Overridden(f),
         NEW j \in 0 .. Len(legacymaps)
  PROVE  f[j] \in Redirections /\ Valid(f[j])
<1> DEFINE n == Len(legacymaps)
           Good == {m \in Nat : m <= n => Valid(f[m])}
<1>1. n \in Nat /\ \A m \in 1 .. n : legacymaps[m] \in LegacyMap
  BY DEF AcpiType
<1>2. \A m \in 0 .. n : f[m] \in Redirections
  BY DEF Overridden
<1>3. 0 \in Good
  BY RelocatedValid DEF Overridden
<1>4. ASSUME NEW m \in Good PROVE m + 1 \in Good
  <2>1. SUFFICES ASSUME m + 1 <= n PROVE Valid(f[m + 1])
    OBVIOUS
  <2>2. m + 1 \in 1 .. n /\ m \in 0 .. n /\ (m + 1) - 1 = m /\ Valid(f[m])
    BY <1>1, <2>1
  <2>3. f[m + 1] = I!Redirect(f[m], legacymaps[m + 1])
    BY <2>2 DEF Overridden
  <2> QED BY <1>1, <1>2, <2>2, <2>3, RedirectValid
<1>5. Good \subseteq Nat
  OBVIOUS
<1>6. \A m \in Nat : m \in Good
  <2> HIDE DEF Good
  <2> QED BY <1>3, <1>4, <1>5, NatInduct
<1> QED BY <1>1, <1>2, <1>6

LEMMA IrqTablesInit ==
  Init => IrqTables
<1> SUFFICES ASSUME Init PROVE IrqTables
  OBVIOUS
<1>1. I!Init
  BY DEF Init
<1>2. redir \in Redirections
  BY <1>1 DEF I!Init, Redirections, I!Masked
<1>3. idt \in GateTable /\ handlers \in HandlerTable
  BY <1>1 DEF I!Init, I!Absent, GateTable, HandlerTable
<1>4. irr = {} /\ IsFiniteSet(irr)
  BY <1>1, FS_EmptySet DEF I!Init
<1> QED BY <1>1, <1>2, <1>3, <1>4 DEF I!Init, IrqTables

LEMMA RegisteredGates ==
  ASSUME idt \in GateTable, NEW vs, NEW type \in {"trap", "int"}
  PROVE  /\ I!Registered(vs, type) \in GateTable
         /\ \A v \in I!Gates :
              I!Registered(vs, type)[v].type = IF v \in vs THEN type ELSE idt[v].type
  BY DEF I!Registered, GateTable

LEMMA IrqTablesStep ==
  ASSUME IrqTables, AcpiType, [Next]_vars
  PROVE  IrqTables'
<1>1. CASE UNCHANGED ivars
  BY <1>1 DEF IrqTables, ivars, Redirections
<1> SUFFICES ASSUME I!Next, UNCHANGED lists PROVE IrqTables'
  BY <1>1, InterruptSteps
<1> USE DEF IrqTables, Redirections, I!tables, I!lists, I!lapic, I!cpu
<1>2. CASE I!EnableTraps
  <2>1. /\ idt' = I!Registered(I!Traps, "trap") /\ irq_stage' = "traps"
        /\ handlers' = [v \in I!Gates |->
                          IF v = I!TRAP_PGF THEN "page_fault_handler"
                          ELSE IF v \in I!Traps THEN "default_trap_handler"
                          ELSE handlers[v]]
        /\ UNCHANGED <<machine, redir, irr>>
    BY <1>2 DEF I!EnableTraps
  <2>2. \A v \in I!Traps : v \in I!Gates
    BY DEF I!Traps, I!Gates
  <2>3. idt' \in GateTable /\ \A v \in I!Traps : idt'[v].type = TypeOf(v)
    BY <2>1, <2>2, RegisteredGates DEF TypeOf
  <2>4. \A v \in I!Traps : handlers'[v] = HandlerOf(v)
    BY <2>1, <2>2 DEF HandlerOf
  <2>5. handlers' \in HandlerTable
    BY <2>1 DEF HandlerTable
  <2> QED BY <2>1, <2>3, <2>4, <2>5
<1>3. CASE I!EnableApic
  <2>0. /\ idt' = I!Registered(I!IrqGates, "int") /\ irq_stage' = "enabled"
        /\ handlers' = [v \in I!Gates |->
                          IF v \in I!IrqGates THEN "irq_handler" ELSE handlers[v]]
        /\ redir' = I!FoldLeft(I!Redirect, I!Relocated, legacymaps)
        /\ UNCHANGED <<machine, irr>> /\ irq_stage = "traps"
    BY <1>3 DEF I!EnableApic
  <2>1. PICK f : /\ Overridden(f)
                 /\ I!FoldLeft(I!Redirect, I!Relocated, legacymaps)
                      = f[Len(legacymaps)]
    BY RelocatedValid, FoldOfOverrides DEF AcpiType
  <2>2. Len(legacymaps) \in 0 .. Len(legacymaps)
    BY DEF AcpiType
  <2>3. redir' \in Redirections /\ Valid(redir')
    BY <2>0, <2>1, <2>2, OverridesValid
  <2>4. \A v \in I!Gates : v \in I!IrqGates <=> v \notin I!Traps
    BY DEF I!Traps, I!Gates, I!IrqGates
  <2>5. /\ idt' \in GateTable
        /\ \A v \in I!Gates : idt'[v].type = TypeOf(v)
    BY <2>0, <2>4, RegisteredGates DEF TypeOf
  <2>6. \A v \in I!Gates \ I!Traps : HandlerOf(v) = "irq_handler"
    BY DEF I!Traps, HandlerOf, I!TRAP_PGF
  <2>7. \A v \in I!Gates : handlers'[v] = HandlerOf(v)
    BY <2>0, <2>4, <2>6
  <2>8. handlers' \in HandlerTable
    BY <2>0 DEF HandlerTable
  <2>9. \A v \in I!Traps : v \in I!Gates
    BY DEF I!Traps, I!Gates
  <2> QED BY <2>0, <2>3, <2>5, <2>7, <2>8, <2>9 DEF Valid
<1>4. CASE I!EnableIdt
  <2>1. /\ idt' = [v \in I!Gates |-> [type |-> I!GateType(v), entry |-> TRUE,
                                      user |-> idt[v].user]]
        /\ irq_stage = "enabled" /\ irq_stage' = "run"
        /\ UNCHANGED <<machine, redir, handlers, irr>>
    BY <1>4 DEF I!EnableIdt
  <2>2. \A v \in I!Gates : /\ idt[v].type = TypeOf(v)
                           /\ TypeOf(v) \in {"trap", "int"}
    BY <2>1 DEF TypeOf
  <2>3. \A v \in I!Gates : I!GateType(v) = TypeOf(v)
    BY <2>2 DEF I!GateType
  <2>4. idt' = [v \in I!Gates |-> [type |-> TypeOf(v), entry |-> TRUE,
                                   user |-> idt[v].user]]
    BY <2>1, <2>3
  <2>5. /\ idt' \in GateTable
        /\ \A v \in I!Gates : idt'[v].type = TypeOf(v) /\ idt'[v].entry
    <3>1. \A v \in I!Gates : idt[v].user \in BOOLEAN
      BY DEF GateTable
    <3> QED BY <2>2, <2>4, <3>1 DEF GateTable
  <2>6. \A v \in I!Traps : v \in I!Gates
    BY DEF I!Traps, I!Gates
  <2> QED BY <2>1, <2>5, <2>6
<1>5. ASSUME NEW p \in machine.raised, I!Raise(p)
      PROVE  IrqTables'
  <2>1. p \in I!Pins(machine)
    BY PinsTyped
  <2>2. irr' = irr \union {redir[p]} /\ IsFiniteSet(irr')
    BY <1>5, FS_AddElement DEF I!Raise
  <2> QED BY <1>5, <2>1, <2>2 DEF I!Raise
<1>6. CASE I!Interrupt
  <2>1. IsFiniteSet(irr') /\ irr' \subseteq irr
    BY <1>6, FS_Subset DEF I!Interrupt
  <2> QED BY <1>6, <2>1 DEF I!Interrupt
<1>7. ASSUME NEW v \in Faults, I!Fault(v) PROVE IrqTables'
  BY <1>7 DEF I!Fault
<1>8. CASE I!NoGate \/ I!CallNowhere \/ I!Panic
  BY <1>8 DEF I!NoGate, I!CallNowhere, I!Panic
<1>9. ASSUME NEW n \in Calls, I!Syscall(n) PROVE IrqTables'
  BY <1>9 DEF I!Syscall
<1>10. CASE I!Stub \/ I!Shim \/ I!IrqHandler \/ I!CallModule \/ I!ModuleReturns
              \/ I!Return \/ I!IretFaults \/ I!Sysret \/ I!StartUser
  BY <1>10 DEF I!Stub, I!Shim, I!IrqHandler, I!EndOfInterrupt, I!CallModule,
               I!ModuleReturns, I!Return, I!IretFaults, I!Sysret, I!StartUser
<1>11. ASSUME NEW v \in Ints, I!SoftInterrupt(v) PROVE IrqTables'
  BY <1>11 DEF I!SoftInterrupt
<1>12. ASSUME NEW v \in Registrations, I!RegisterIrqHandler(v) PROVE IrqTables'
  BY <1>12 DEF I!RegisterIrqHandler
<1> QED BY <1>2, <1>3, <1>4, <1>5, <1>6, <1>7, <1>8, <1>9, <1>10, <1>11, <1>12
        DEF I!Next, I!Kernel

-----------------------------------------------------------------------------
(***************************************************************************)
(* The processor, action by action.                                        *)
(***************************************************************************)
CpuInv == CpuType /\ Levels /\ FlagsSound /\ ProgramSound /\ Reported

Early == {"boot", "traps", "enabled"}

\* The registers are anyone's.
LEMMA RegistersHold ==
  ASSUME NEW who \in AboveCode \union BottomCode
                       \union {"number", "on", "off", "blank", "handler"}
  PROVE  I!Holds(who) \in [I!Registers -> Word]
<1> DEFINE whose == AboveCode \union BottomCode
                      \union {"number", "on", "off", "blank", "handler"}
           what == I!Registers \union {"", "ss", "rflags", "cs", "rip"}
<1>1. who \in whose /\ Word = whose \X what \X Int
  BY DEF Word
<1>2. \A r \in I!Registers : r \in what
  OBVIOUS
<1> HIDE DEF whose, what
<1>3. \A r \in I!Registers : <<who, r, 0>> \in Word
  BY <1>1, <1>2
<1> QED BY <1>3 DEF I!Holds

LEMMA HandlersHold ==
  I!Holds("handler") \in [I!Registers -> Word]
<1>1. "handler" \in AboveCode \union BottomCode
                      \union {"number", "on", "off", "blank", "handler"}
  OBVIOUS
<1> QED BY <1>1, RegistersHold

LEMMA CpuInit ==
  Init => CpuInv
<1> SUFFICES ASSUME Init PROVE CpuInv
  OBVIOUS
<1>1. /\ irq_stage = "boot" /\ flags = "off" /\ rip = I!Code("kernel")
      /\ regs = I!Holds("kernel") /\ stack = <<>> /\ taken = <<>>
      /\ selector = I!GDT_KERNEL_CODE /\ irq_handlers = {}
  BY DEF Init, I!Init
<1>2. I!Code("kernel") \in CodePlace
  BY DEF I!Code, CodePlace, BottomCode
<1>3. "kernel" \in BottomCode
  BY DEF BottomCode
<1>4. I!Holds("kernel") \in [I!Registers -> Word]
  BY <1>3, RegistersHold
<1>5. stack \in Seq(Word) /\ taken \in Seq(Frame) /\ Len(stack) = 0 /\ Len(taken) = 0
  BY <1>1, EmptySeq
<1>6. CpuType
  BY <1>1, <1>2, <1>4, <1>5 DEF CpuType, Selectors
<1>7. Levels
  BY <1>1, <1>5 DEF Levels, Bottom, CodeAt, TopAt
<1>8. FlagsSound
  BY <1>1, <1>5 DEF FlagsSound, Irqs
<1>9. ProgramSound
  BY <1>1, <1>5 DEF ProgramSound, I!GDT_KERNEL_CODE, I!SYSRET_CODE
<1> QED BY <1>1, <1>6, <1>7, <1>8, <1>9 DEF CpuInv, Reported, I!PanicTellsTruth

\* What leaves the processor alone.
LEMMA CpuUntouched ==
  ASSUME CpuInv, UNCHANGED I!cpu,
         irq_handlers' = irq_handlers \/ CodeAt(0)[1] # "kernel",
         \/ irq_stage' \in Early /\ irq_stage \in Early
         \/ irq_stage' \in {"run", "wild", "reset"}
  PROVE  CpuInv'
<1> USE DEF CpuInv, I!cpu
<1>1. CpuType'
  BY DEF CpuType, Early
<1>2. Levels'
  BY DEF Levels, CodeAt, TopAt, RegsAt
<1>3. FlagsSound'
  BY DEF FlagsSound, Irqs
<1>4. ProgramSound'
  BY DEF ProgramSound, CodeAt
<1>5. Reported'
  BY DEF Reported, I!PanicTellsTruth, Early
<1> QED BY <1>1, <1>2, <1>3, <1>4, <1>5

LEMMA CpuStutters ==
  ASSUME CpuInv, UNCHANGED ivars
  PROVE  CpuInv'
<1> USE DEF CpuInv, ivars
<1>1. CpuType'
  BY DEF CpuType
<1>2. Levels'
  BY DEF Levels, CodeAt, TopAt, RegsAt
<1>3. FlagsSound'
  BY DEF FlagsSound, Irqs
<1>4. ProgramSound'
  BY DEF ProgramSound, CodeAt
<1>5. Reported'
  BY DEF Reported, I!PanicTellsTruth, I!Tells, I!Last
<1> QED BY <1>1, <1>2, <1>3, <1>4, <1>5

\* Interrupts are turned on when only the kernel runs.
LEMMA CpuEnabled ==
  ASSUME CpuInv, I!EnableIdt
  PROVE  CpuInv'
<1>1. /\ irq_stage = "enabled" /\ irq_stage' = "run" /\ flags' = "on"
      /\ UNCHANGED <<selector, rip, regs, stack, taken, irq_handlers>>
  BY DEF I!EnableIdt
<1>2. rip = I!Code("kernel") /\ taken = <<>>
  <2>1. rip = I!Code("kernel")
    BY <1>1 DEF CpuInv, CpuType
  <2>2. rip[1] \in BottomCode
    BY <2>1 DEF I!Code, BottomCode
  <2> QED BY <2>1, <2>2, OnTheBottom DEF CpuInv
<1>3. CpuType'
  BY <1>1 DEF CpuInv, CpuType
<1>4. Levels'
  BY <1>1 DEF CpuInv, Levels, CodeAt, TopAt, RegsAt
<1>5. FlagsSound'
  <2>1. Len(taken') = 0
    BY <1>1, <1>2
  <2> QED BY <1>1, <1>2, <2>1 DEF FlagsSound, Irqs, I!Code, OfKernel
<1>6. ProgramSound'
  BY <1>1 DEF CpuInv, ProgramSound, CodeAt
<1> QED BY <1>1, <1>3, <1>4, <1>5, <1>6 DEF CpuInv, Reported, I!PanicTellsTruth

(***************************************************************************)
(* A frame is added, or none is.                                           *)
(***************************************************************************)
LEMMA FrameAdded ==
  ASSUME CpuType, NEW v, NEW at, NEW rs, NEW s, NEW code, NEW soft,
         I!Follow(v, at, rs, s, code, soft)
  PROVE  LET n == Len(taken)
         IN  /\ n \in Nat /\ Len(taken') = n + 1
             /\ taken'[n + 1].irq = v /\ taken'[n + 1].rip = at
             /\ taken'[n + 1].soft = soft /\ taken'[n + 1].flags = flags
             /\ taken'[n + 1].selector = selector
             /\ \A j \in 1 .. n : taken'[j] = taken[j]
             /\ rip' = <<"stub", v>> /\ selector' = I!GDT_KERNEL_CODE
             /\ flags' = IF idt[v].type = "int" THEN "off" ELSE flags
  BY DEF I!Follow, CpuType

LEMMA TrapKeepsFlags ==
  ASSUME CpuType, FlagsSound, IrqTables, irq_stage = "run",
         NEW v \in I!Traps, NEW at, NEW rs, NEW s, NEW code,
         I!Follow(v, at, rs, s, code, FALSE),
         flags = "on" => at[1] \in OfKernel,
         at[1] = "iret" => Len(taken) # 0 /\ taken[Len(taken)].soft
  PROVE  FlagsSound' /\ flags' = flags
<1> DEFINE n == Len(taken)
<1>1. v \notin I!IrqGates /\ idt[v].type # "int"
  <2>1. v \in I!Gates /\ v \notin I!IrqGates
    BY DEF I!Traps, I!Gates, I!IrqGates
  <2>2. idt[v].type = TypeOf(v)
    BY <2>1 DEF IrqTables
  <2> QED BY <2>1, <2>2 DEF TypeOf
<1>2. /\ n \in Nat /\ Len(taken') = n + 1
      /\ taken'[n + 1].irq = v /\ taken'[n + 1].rip = at /\ ~taken'[n + 1].soft
      /\ \A j \in 1 .. n : taken'[j] = taken[j]
      /\ rip'[1] \in OfKernel /\ flags' = flags
  <2>1. "stub" \in OfKernel
    BY DEF OfKernel, TrapCode
  <2>2. /\ n \in Nat /\ Len(taken') = n + 1
        /\ taken'[n + 1].irq = v /\ taken'[n + 1].rip = at
        /\ taken'[n + 1].soft = FALSE
        /\ \A j \in 1 .. n : taken'[j] = taken[j]
        /\ rip' = <<"stub", v>>
        /\ flags' = IF idt[v].type = "int" THEN "off" ELSE flags
    BY FrameAdded
  <2> QED BY <1>1, <2>1, <2>2
<1>3. Irqs' = Irqs /\ \A j \in Irqs : j \in 1 .. n
  <2>1. \A j : j \in Irqs' <=> j \in Irqs
    BY <1>1, <1>2 DEF Irqs
  <2> QED BY <2>1 DEF Irqs
<1>4. flags' = "on" => /\ Irqs' = {} /\ rip'[1] \in OfKernel
                       /\ \A j \in 1 .. n + 1 : taken'[j].rip[1] \in OfKernel
  BY <1>2, <1>3 DEF FlagsSound
<1>5. \A j, h \in Irqs' : j = h
  BY <1>3 DEF FlagsSound
<1>6. ASSUME NEW h \in Irqs, ~taken[h].soft, NEW j \in 1 .. h
      PROVE  taken'[j].rip[1] \in OfKernel
  <2>1. j \in 1 .. n
    BY <1>2, <1>3
  <2> QED BY <1>2, <1>6, <2>1 DEF FlagsSound
<1>7. \A h \in Irqs' : taken'[h].soft \/ \A j \in 1 .. h : taken'[j].rip[1] \in OfKernel
  <2>1. \A h \in Irqs : taken'[h] = taken[h]
    BY <1>2, <1>3
  <2> QED BY <1>3, <1>6, <2>1
<1>8. \A j \in 1 .. n + 1 : taken'[j].soft =>
        j = 1 /\ taken'[j].rip[1] = "user" /\ taken'[j].flags = "off"
  <2>1. \A j \in 1 .. n + 1 : j = n + 1 \/ j \in 1 .. n
    BY <1>2
  <2> QED BY <1>2, <2>1 DEF FlagsSound
<1>9. ASSUME NEW j \in 1 .. n + 1, taken'[j].rip[1] = "iret"
      PROVE  j # 1 /\ taken'[j - 1].soft
  <2>1. CASE j = n + 1
    <3>1. n # 0 /\ taken[n].soft
      BY <1>2, <1>9, <2>1
    <3>2. n \in 1 .. n /\ j - 1 = n /\ j # 1
      BY <1>2, <2>1, <3>1
    <3> QED BY <1>2, <3>1, <3>2
  <2>2. CASE j # n + 1
    <3>1. j \in 1 .. n
      BY <1>2, <2>2
    <3>2. j # 1 /\ taken[j - 1].soft
      BY <1>2, <1>9, <3>1 DEF FlagsSound
    <3>3. j - 1 \in 1 .. n
      BY <1>2, <3>1, <3>2
    <3> QED BY <1>2, <3>2, <3>3
  <2> QED BY <2>1, <2>2
<1> QED BY <1>2, <1>4, <1>5, <1>7, <1>8, <1>9 DEF FlagsSound

LEMMA FrameKeepsProgram ==
  ASSUME CpuType, ProgramSound, NEW v, NEW at, NEW rs, NEW s, NEW code, NEW soft,
         I!Follow(v, at, rs, s, code, soft), irq_handlers' = irq_handlers,
         at = rip \/ (Len(taken) # 0 /\ selector # I!SYSRET_CODE)
  PROVE  ProgramSound'
<1> DEFINE n == Len(taken)
<1>1. /\ n \in Nat /\ Len(taken') = n + 1
      /\ taken'[n + 1].rip = at /\ taken'[n + 1].selector = selector
      /\ \A j \in 1 .. n : taken'[j] = taken[j]
      /\ selector' = I!GDT_KERNEL_CODE
  BY FrameAdded
<1>2. selector' # I!SYSRET_CODE
  BY <1>1 DEF I!GDT_KERNEL_CODE, I!SYSRET_CODE
<1>3. \A j \in 1 .. n + 1 :
        taken'[j].selector = I!SYSRET_CODE => taken'[j].rip[1] = "user"
  <2>1. \A j \in 1 .. n + 1 : j = n + 1 \/ j \in 1 .. n
    BY <1>1
  <2> QED BY <1>1, <2>1 DEF ProgramSound
<1>4. CodeAt(0)' = CodeAt(0)
  <2>1. 0 # n + 1 /\ 0 + 1 = 1
    BY <1>1
  <2>2. CASE n = 0
    BY <1>1, <2>1, <2>2 DEF CodeAt
  <2>3. CASE n # 0
    <3>1. 1 \in 1 .. n
      BY <1>1, <2>3
    <3> QED BY <1>1, <2>1, <2>3, <3>1 DEF CodeAt
  <2> QED BY <2>2, <2>3
<1> QED BY <1>1, <1>2, <1>3, <1>4 DEF ProgramSound

LEMMA FlagsKept ==
  ASSUME FlagsSound, UNCHANGED <<flags, taken>>,
         flags = "on" => rip'[1] \in OfKernel
  PROVE  FlagsSound'
  BY DEF FlagsSound, Irqs

LEMMA ProgramKept ==
  ASSUME CpuType, ProgramSound, UNCHANGED <<selector, taken, irq_handlers>>,
         rip[1] # "user", taken # <<>>
  PROVE  ProgramSound'
<1>1. 0 # Len(taken)
  BY DEF CpuType
<1> QED BY <1>1 DEF ProgramSound, CodeAt

-----------------------------------------------------------------------------
\* An exception on whatever runs.
LEMMA CpuFaults ==
  ASSUME CpuInv, IrqTables, irq_stage = "run", I!Running,
         NEW v \in I!Traps, I!Deliver(v), UNCHANGED <<irq_stage, irq_handlers>>
  PROVE  CpuInv'
<1>1. /\ v \in I!Gates /\ I!Follow(v, rip, regs, stack, I!ErrorCode(v), FALSE)
      /\ CpuType /\ Levels /\ FlagsSound /\ ProgramSound
      /\ rip \in CodePlace /\ regs \in [I!Registers -> Word] /\ stack \in Seq(Word)
  <2>1. v \in I!Gates
    BY DEF I!Traps, I!Gates
  <2>2. rip \in CodePlace /\ regs \in [I!Registers -> Word] /\ stack \in Seq(Word)
    BY DEF CpuInv, CpuType
  <2> QED BY <2>1, <2>2 DEF I!Deliver, CpuInv
<1>2. /\ Levels' /\ rip' \in CodePlace /\ regs' \in [I!Registers -> Word]
      /\ selector' \in Selectors
      /\ stack' \in Seq(Word) /\ taken' \in Seq(Frame)
  BY <1>1, AsItRuns, LevelBegins DEF I!ErrorCode
<1>3. FlagsSound' /\ flags' = flags
  <2>1. flags = "on" => rip[1] \in OfKernel
    BY <1>1 DEF FlagsSound
  <2>2. rip[1] # "iret"
    BY DEF I!Running
  <2> QED BY <1>1, <2>1, <2>2, TrapKeepsFlags
<1>4. ProgramSound'
  BY <1>1, FrameKeepsProgram
<1>5. CpuType'
  BY <1>1, <1>2, <1>3 DEF CpuType
<1> QED BY <1>2, <1>3, <1>4, <1>5 DEF CpuInv, Reported, I!PanicTellsTruth

LEMMA FiniteVectors ==
  ASSUME IrqTables
  PROVE  IsFiniteSet(irr) /\ irr \subseteq Nat
  BY DEF IrqTables, Vectors, I!IOAPIC_IRQ_BASE

\* An interrupt of a device, while they are on.
LEMMA CpuInterrupted ==
  ASSUME CpuInv, IrqTables, I!Interrupt
  PROVE  CpuInv'
<1> DEFINE n == Len(taken)
           v == I!Max(irr)
<1>1. /\ irq_stage = "run" /\ irq_stage' = irq_stage /\ flags = "on"
      /\ v \in I!Gates /\ v \in irr /\ irq_handlers' = irq_handlers
      /\ I!Follow(v, rip, regs, stack, I!ErrorCode(v), FALSE)
  <2>1. /\ irq_stage = "run" /\ irq_stage' = irq_stage /\ flags = "on"
        /\ v \in I!Gates /\ irr # {} /\ irr' = irr \ {v} /\ I!Deliver(v)
        /\ irq_handlers' = irq_handlers
    BY DEF I!Interrupt, I!tables
  <2>2. v \in irr
    BY <2>1, FiniteVectors, MaxOfFinite DEF I!Max, Max
  <2> QED BY <2>1, <2>2 DEF I!Deliver
<1>2. v \notin I!Traps /\ v \in I!IrqGates /\ idt[v].type = "int"
  <2>1. v \in Vectors
    BY <1>1 DEF IrqTables
  <2>2. v \notin I!Traps /\ v \in I!IrqGates
    BY <1>1, <2>1 DEF I!Traps, I!IrqGates, I!Gates, Vectors, I!IOAPIC_IRQ_BASE
  <2> QED BY <1>1, <2>2 DEF IrqTables, TypeOf
<1> HIDE DEF v
<1>3. /\ CpuType /\ Levels /\ FlagsSound /\ ProgramSound
      /\ rip \in CodePlace /\ regs \in [I!Registers -> Word] /\ stack \in Seq(Word)
  BY DEF CpuInv, CpuType
<1>4. /\ Levels' /\ rip' \in CodePlace /\ regs' \in [I!Registers -> Word]
      /\ selector' \in Selectors
      /\ stack' \in Seq(Word) /\ taken' \in Seq(Frame)
  BY <1>1, <1>3, AsItRuns, LevelBegins DEF I!ErrorCode
<1>5. /\ n \in Nat /\ Len(taken') = n + 1
      /\ taken'[n + 1].irq = v /\ taken'[n + 1].rip = rip /\ ~taken'[n + 1].soft
      /\ \A j \in 1 .. n : taken'[j] = taken[j]
      /\ flags' = "off"
  BY <1>1, <1>2, <1>3, FrameAdded
<1>6. CpuType'
  BY <1>1, <1>3, <1>4, <1>5 DEF CpuType
<1>7. /\ Irqs = {}
      /\ \A j \in 1 .. n + 1 : taken'[j].rip[1] \in OfKernel /\ ~taken'[j].soft
  <2>1. /\ Irqs = {} /\ rip[1] \in OfKernel
        /\ \A j \in 1 .. n : taken[j].rip[1] \in OfKernel
    BY <1>1, <1>3 DEF FlagsSound
  <2>2. \A j \in 1 .. n : ~taken[j].soft
    BY <1>3, <2>1 DEF FlagsSound, OfKernel, TrapCode
  <2>3. \A j \in 1 .. n + 1 : j = n + 1 \/ j \in 1 .. n
    BY <1>5
  <2> QED BY <1>5, <2>1, <2>2, <2>3
<1>8. Irqs' = {n + 1}
  <2>1. \A j \in 1 .. n + 1 : j \in Irqs' <=> j = n + 1
    <3>1. \A j \in 1 .. n : taken[j].irq \notin I!IrqGates
      BY <1>7 DEF Irqs
    <3> QED BY <1>2, <1>5, <3>1 DEF Irqs
  <2> QED BY <1>5, <2>1 DEF Irqs
<1>9. FlagsSound'
  <2>1. \A j \in 1 .. n + 1 : taken'[j].rip[1] # "iret"
    BY <1>7 DEF OfKernel, TrapCode
  <2> QED BY <1>5, <1>7, <1>8, <2>1 DEF FlagsSound
<1>10. ProgramSound'
  BY <1>1, <1>3, FrameKeepsProgram
<1> QED BY <1>1, <1>4, <1>6, <1>9, <1>10 DEF CpuInv, Reported, I!PanicTellsTruth

\* What a program runs with.
LEMMA InProgram ==
  ASSUME CpuInv, rip[1] = "user"
  PROVE  taken = <<>> /\ Len(taken) = 0 /\ flags = "off"
<1>1. taken = <<>>
  BY OnTheBottom DEF CpuInv, BottomCode
<1>2. flags # "on"
  BY DEF CpuInv, FlagsSound, OfKernel, TrapCode
<1> QED BY <1>1, <1>2 DEF CpuInv, CpuType

\* An int of a program.
LEMMA CpuSoft ==
  ASSUME CpuInv, NEW v, I!SoftInterrupt(v)
  PROVE  CpuInv'
<1>1. /\ irq_stage = "run" /\ irq_stage' = "run" /\ rip[1] = "user"
      /\ v \in I!Gates /\ irq_handlers' = irq_handlers
      /\ I!Follow(v, rip, regs, stack, <<>>, TRUE)
  BY DEF I!SoftInterrupt, I!At, I!tables
<1>2. taken = <<>> /\ Len(taken) = 0 /\ flags = "off"
  BY <1>1, InProgram
<1>3. /\ CpuType /\ Levels /\ ProgramSound
      /\ rip \in CodePlace /\ regs \in [I!Registers -> Word] /\ stack \in Seq(Word)
  BY DEF CpuInv, CpuType
<1>4. /\ Levels' /\ rip' \in CodePlace /\ regs' \in [I!Registers -> Word]
      /\ selector' \in Selectors
      /\ stack' \in Seq(Word) /\ taken' \in Seq(Frame)
  BY <1>1, <1>3, AsItRuns, LevelBegins
<1>5. /\ Len(taken') = 1 /\ taken'[1].rip = rip /\ taken'[1].soft
      /\ taken'[1].flags = "off" /\ flags' = "off"
  <2>1. /\ Len(taken') = Len(taken) + 1 /\ taken'[Len(taken) + 1].rip = rip
        /\ taken'[Len(taken) + 1].soft = TRUE
        /\ taken'[Len(taken) + 1].flags = flags
        /\ flags' = IF idt[v].type = "int" THEN "off" ELSE flags
    BY <1>1, <1>3, FrameAdded
  <2>2. 0 + 1 = 1
    OBVIOUS
  <2> QED BY <1>2, <2>1, <2>2
<1>6. CpuType'
  BY <1>1, <1>3, <1>4, <1>5 DEF CpuType
<1>7. FlagsSound'
  <2>1. \A j \in 1 .. 1 : j = 1
    OBVIOUS
  <2> QED BY <1>1, <1>5, <2>1 DEF FlagsSound, Irqs
<1>8. ProgramSound'
  BY <1>1, <1>3, FrameKeepsProgram
<1> QED BY <1>1, <1>4, <1>6, <1>7, <1>8 DEF CpuInv, Reported, I!PanicTellsTruth

\* What the last level is of.
LEMMA LastLevel ==
  ASSUME CpuType, Levels, rip[1] \in AboveCode
  PROVE  LET n == Len(taken)
         IN  /\ n \in Nat /\ n \in 1 .. n /\ taken # <<>>
             /\ I!Last(taken) = taken[n]
             /\ taken[n] \in Frame /\ taken[n].len \in Nat
             /\ taken[n].irq \in I!Gates
             /\ Level(taken[n], rip, Len(stack), regs, stack)
<1> DEFINE n == Len(taken)
<1>1. n \in Nat /\ n \in 1 .. n /\ taken # <<>>
  BY OnTheBottom, FramesTyped
<1>2. taken[n] \in Frame /\ taken[n].len \in Nat /\ taken[n].irq \in I!Gates
  BY <1>1, FramesTyped DEF Frame
<1>3. Level(taken[n], rip, Len(stack), regs, stack)
  BY <1>1 DEF Levels, CodeAt, TopAt, RegsAt
<1> QED BY <1>1, <1>2, <1>3 DEF I!Last

LEMMA HandlerCode ==
  ASSUME NEW t, NEW at, NEW top, NEW st, InHandler(t, at, top, st)
  PROVE  /\ at[1] # "stub" /\ at[1] # "entry_shim"
         /\ at[1] \in {"restore", "module"} => t.irq \in I!IrqGates
         /\ at[1] = "module" => t.soft
         /\ at[1] \notin {"restore", "module"} => at = I!Code(HandlerOf(t.irq))
<1>1. \A c : I!Code(c)[1] = c
  BY DEF I!Code
<1>2. HandlerOf(t.irq) \in {"page_fault_handler", "default_trap_handler",
                            "irq_handler"}
  BY DEF HandlerOf
<1>3. CASE at = I!Code(HandlerOf(t.irq))
  BY <1>1, <1>2, <1>3
<1>4. CASE at = I!Code("restore") /\ t.irq \in I!IrqGates
  BY <1>1, <1>4
<1>5. CASE at = I!Code("module") /\ t.irq \in I!IrqGates /\ t.soft
  BY <1>1, <1>5
<1> QED BY <1>3, <1>4, <1>5 DEF InHandler

\* The words that the stub pushes make a struct regs of what is there.
LEMMA CpuStub ==
  ASSUME CpuInv, I!Stub
  PROVE  CpuInv'
<1> DEFINE n == Len(taken)
           t == taken[n]
           x == I!StubPushes(rip[2])
<1>1. /\ irq_stage = "run" /\ irq_stage' = "run" /\ rip[1] = "stub"
      /\ stack' = stack \o x /\ rip' = I!Code("entry_shim")
      /\ UNCHANGED <<flags, selector, regs, taken, irq_handlers>>
  BY DEF I!Stub, I!At, I!tables
<1>2. CpuType /\ Levels /\ FlagsSound /\ ProgramSound
  BY DEF CpuInv
<1>3. rip[1] \in AboveCode
  BY <1>1 DEF AboveCode, TrapCode
<1>4. /\ n \in Nat /\ taken # <<>> /\ t \in Frame /\ t.len \in Nat
      /\ t.irq \in I!Gates /\ Level(t, rip, Len(stack), regs, stack)
  BY <1>2, <1>3, LastLevel
<1> HIDE DEF t
<1>5. FrameWords(t, stack) /\ InStub(t, rip, Len(stack), regs, stack)
  <2>1. ~InShim(t, rip, Len(stack), regs, stack)
    BY <1>1 DEF InShim, I!Code
  <2>2. ~InHandler(t, rip, Len(stack), stack)
    BY <1>1, HandlerCode
  <2>3. ~InIret(t, rip, Len(stack), regs)
    BY <1>1 DEF InIret, I!Code
  <2> QED BY <1>4, <2>1, <2>2, <2>3 DEF Level
<1>6. rip[2] = t.irq /\ regs = t.regs /\ t.irq \in Int
  <2>1. rip = <<"stub", t.irq>> /\ regs = t.regs
    BY <1>5 DEF InStub
  <2>2. t.irq \in Int
    <3>1. \A v \in I!Gates : v \in Int
      BY DEF I!Gates
    <3> QED BY <1>4, <3>1
  <2> HIDE DEF x
  <2> QED BY <2>1, <2>2
<1>7. /\ stack \in Seq(Word) /\ Len(stack) \in Nat
      /\ I!Number(0) \in Word /\ I!Number(t.irq) \in Word
  <2>1. stack \in Seq(Word) /\ Len(stack) \in Nat
    BY <1>2 DEF CpuType
  <2>2. \A m \in Int : I!Number(m) \in Word
    BY WordMade
  <2> QED BY <1>6, <2>1, <2>2
<1>8. /\ x \in Seq(Word) /\ Len(x) = IF t.irq \in I!StubHasCode THEN 1 ELSE 2
      /\ x[Len(x)] = I!Number(t.irq)
      /\ t.irq \notin I!StubHasCode => x[1] = I!Number(0)
  <2>1. CASE t.irq \in I!StubHasCode
    <3>1. x = <<I!Number(t.irq)>>
      BY <1>6, <2>1 DEF I!StubPushes
    <3> HIDE DEF x
    <3> QED BY <1>7, <2>1, <3>1
  <2>2. CASE t.irq \notin I!StubHasCode
    <3>1. x = <<I!Number(0), I!Number(t.irq)>>
      BY <1>6, <2>2 DEF I!StubPushes
    <3> HIDE DEF x
    <3> QED BY <1>7, <2>2, <3>1
  <2> QED BY <2>1, <2>2
<1> HIDE DEF x
<1>9. /\ stack' \in Seq(Word) /\ Len(stack') = Len(stack) + Len(x)
      /\ \A j \in 1 .. Len(stack) : stack'[j] = stack[j]
      /\ \A j \in 1 .. Len(x) : stack'[Len(stack) + j] = x[j]
  BY SMTT(30), <1>1, <1>7, <1>8, ConcatPlaces
<1>10. FrameWords(t, stack')
  <2>1. Len(stack) >= t.len + 5
    BY <1>4, <1>5, FrameSizes DEF InStub
  <2>2. /\ t.len + 2 \in 1 .. Len(stack) /\ t.len + 3 \in 1 .. Len(stack)
        /\ t.len + 4 \in 1 .. Len(stack) /\ t.len + 5 \in 1 .. Len(stack)
    BY <1>4, <1>7, <2>1
  <2> QED BY <1>5, <1>9, <2>2 DEF FrameWords
<1>11. Len(stack') = Shimmed(t) /\ CodeWords(t, stack')
  <2> DEFINE e == Entered(t)
             l == Len(x)
  <2>1. /\ e \in Nat /\ l \in {1, 2} /\ Len(stack) = e /\ Len(stack') = e + l
        /\ Shimmed(t) = e + l /\ t.len \in Nat
    BY <1>4, <1>5, <1>8, <1>9, FrameSizes DEF InStub, Shimmed
  <2> HIDE DEF e, l
  <2>2. stack'[Shimmed(t)] = I!Number(t.irq)
    <3>1. l \in 1 .. l
      BY <2>1
    <3> QED BY <1>8, <1>9, <2>1, <3>1 DEF l
  <2>3. ASSUME ~I!Misentered(t)
        PROVE  stack'[Shimmed(t) - 1] = I!Number(I!CodeOf(t))
    <3>1. HasCode(t) <=> t.irq \in I!StubHasCode
      BY <1>4, <2>3, Entering
    <3>2. CASE HasCode(t)
      <4>1. l = 1 /\ e = t.len + 6 /\ stack[t.len + 6] = I!Number(t.irq)
        BY <1>5, <1>8, <2>1, <3>1, <3>2 DEF Entered, InStub, e, l
      <4>2. Shimmed(t) - 1 = e /\ e \in 1 .. Len(stack)
        BY <2>1, <4>1
      <4>3. I!CodeOf(t) = t.irq
        BY <3>2 DEF HasCode, I!CodeOf
      <4> QED BY <1>9, <4>1, <4>2, <4>3
    <3>3. CASE ~HasCode(t)
      <4>1. l = 2 /\ x[1] = I!Number(0)
        BY <1>8, <3>1, <3>3 DEF l
      <4>2. Shimmed(t) - 1 = e + 1 /\ 1 \in 1 .. l
        BY <2>1, <4>1
      <4>3. stack'[e + 1] = x[1]
        BY <1>9, <2>1, <4>2 DEF l
      <4>4. I!CodeOf(t) = 0
        BY <3>3 DEF HasCode, I!CodeOf
      <4> QED BY <4>1, <4>2, <4>3, <4>4
    <3> QED BY <3>2, <3>3
  <2> QED BY <2>1, <2>2, <2>3 DEF CodeWords
<1>12. Level(taken[Len(taken)], rip', Len(stack'), regs', stack')
  BY <1>1, <1>6, <1>10, <1>11 DEF Level, InShim, t
<1>13. Levels'
  BY <1>1, <1>2, <1>4, <1>8, <1>12, LastLevelMoves
<1>14. CpuType'
  <2>1. rip' \in CodePlace
    BY <1>1 DEF I!Code, CodePlace, AboveCode, TrapCode
  <2> QED BY <1>1, <1>2, <1>9, <2>1 DEF CpuType
<1>15. FlagsSound'
  <2>1. rip'[1] \in OfKernel
    BY <1>1 DEF I!Code, TrapCode, OfKernel
  <2> QED BY <1>1, <1>2, <2>1, FlagsKept
<1>16. ProgramSound'
  BY <1>1, <1>2, <1>4, ProgramKept
<1> QED BY <1>1, <1>13, <1>14, <1>15, <1>16
        DEF CpuInv, Reported, I!PanicTellsTruth

\* Where the shim and the handlers find the fields of struct regs.
LEMMA FieldWords ==
  ASSUME NEW st \in Seq(Word)
  PROVE  /\ I!Field(st, "irq") = st[Len(st) - 15]
         /\ I!Field(st, "error_code") = st[Len(st) - 16]
         /\ I!Field(st, "rip") = st[Len(st) - 17]
<1>1. /\ Len(st) - 16 + 1 = Len(st) - 15 /\ Len(st) - 17 + 1 = Len(st) - 16
      /\ Len(st) - 18 + 1 = Len(st) - 17
  OBVIOUS
<1> QED BY <1>1, FieldPlaces DEF I!Field

LEMMA SavedWords ==
  ASSUME regs \in [I!Registers -> Word]
  PROVE  /\ I!Saved \in Seq(Word) /\ Len(I!Saved) = 15
         /\ \A n \in 1 .. 15 : I!Saved[n] = regs[I!SaveOrder[n]]
<1>1. I!Saved = [n \in 1 .. 15 |-> regs[I!SaveOrder[n]]]
  BY SavedRegisters DEF I!Saved
<1>2. \A n \in 1 .. 15 : regs[I!SaveOrder[n]] \in Word
  BY SavedRegisters
<1> QED BY <1>1, <1>2

LEMMA PlacesBelow ==
  ASSUME NEW m \in Nat, NEW l \in Nat, l >= m + 6
  PROVE  /\ m + 2 \in 1 .. l /\ m + 3 \in 1 .. l /\ m + 4 \in 1 .. l
         /\ m + 5 \in 1 .. l /\ l \in 1 .. l /\ l - 1 \in 1 .. l
OBVIOUS

LEMMA CpuShim ==
  ASSUME CpuInv, IrqTables, I!Shim
  PROVE  CpuInv'
<1> DEFINE n == Len(taken)
           t == taken[n]
           x == I!Saved
<1>1. /\ irq_stage = "run" /\ irq_stage' = "run" /\ rip[1] = "entry_shim"
      /\ stack' = stack \o x /\ regs' = I!Holds("handler")
      /\ rip' = I!Code(handlers[I!Field(stack \o x, "irq")[3]])
      /\ UNCHANGED <<flags, selector, taken, irq_handlers>>
  BY DEF I!Shim, I!At, I!tables
<1>2. CpuType /\ Levels /\ FlagsSound /\ ProgramSound
  BY DEF CpuInv
<1>3. rip[1] \in AboveCode
  BY <1>1 DEF AboveCode, TrapCode
<1>4. /\ n \in Nat /\ taken # <<>> /\ t \in Frame /\ t.len \in Nat /\ n \in 1 .. n
      /\ t.irq \in I!Gates /\ Level(t, rip, Len(stack), regs, stack)
  BY <1>2, <1>3, LastLevel
<1> HIDE DEF t
<1>5. FrameWords(t, stack) /\ InShim(t, rip, Len(stack), regs, stack)
  <2>1. ~InStub(t, rip, Len(stack), regs, stack)
    BY <1>1 DEF InStub
  <2>2. ~InHandler(t, rip, Len(stack), stack)
    BY <1>1, HandlerCode
  <2>3. ~InIret(t, rip, Len(stack), regs)
    BY <1>1 DEF InIret, I!Code
  <2> QED BY <1>4, <2>1, <2>2, <2>3 DEF Level
<1>6. /\ regs = t.regs /\ Len(stack) = Shimmed(t) /\ CodeWords(t, stack)
      /\ Shimmed(t) \in Nat /\ Shimmed(t) >= t.len + 6
  BY <1>4, <1>5, FrameSizes DEF InShim
<1>7. /\ stack \in Seq(Word) /\ Len(stack) \in Nat
      /\ x \in Seq(Word) /\ Len(x) = 15
      /\ \A j \in 1 .. 15 : x[j] = regs[I!SaveOrder[j]]
  BY <1>2, SavedWords DEF CpuType
<1> HIDE DEF x
<1>8. /\ stack' \in Seq(Word) /\ Len(stack') = Len(stack) + 15
      /\ \A j \in 1 .. Len(stack) : stack'[j] = stack[j]
      /\ \A j \in 1 .. 15 : stack'[Len(stack) + j] = x[j]
  <2>1. /\ stack' \in Seq(Word) /\ Len(stack') = Len(stack) + Len(x)
        /\ \A j \in 1 .. Len(stack) : stack'[j] = stack[j]
        /\ \A j \in 1 .. Len(x) : stack'[Len(stack) + j] = x[j]
    <3>1. stack \in Seq(Word) /\ x \in Seq(Word) /\ stack' = stack \o x
      BY <1>1, <1>7
    <3>2. /\ stack \o x \in Seq(Word) /\ Len(stack \o x) = Len(stack) + Len(x)
          /\ \A j \in 1 .. Len(stack) : (stack \o x)[j] = stack[j]
          /\ \A j \in 1 .. Len(x) : (stack \o x)[Len(stack) + j] = x[j]
      BY <3>1, ConcatPlaces
    <3> QED BY <3>1, <3>2
  <2> QED BY <1>7, <2>1
<1>9. /\ t.len + 2 \in 1 .. Len(stack) /\ t.len + 3 \in 1 .. Len(stack)
      /\ t.len + 4 \in 1 .. Len(stack) /\ t.len + 5 \in 1 .. Len(stack)
      /\ Shimmed(t) \in 1 .. Len(stack) /\ Shimmed(t) - 1 \in 1 .. Len(stack)
  <2>1. t.len \in Nat /\ Shimmed(t) \in Nat /\ Shimmed(t) >= t.len + 6
    BY <1>4, <1>6
  <2> QED BY <1>6, <2>1, PlacesBelow
<1>10. FrameWords(t, stack') /\ CodeWords(t, stack')
  BY <1>5, <1>6, <1>8, <1>9 DEF FrameWords, CodeWords
<1>11. I!Field(stack', "irq") = I!Number(t.irq)
  <2>1. Len(stack') - 15 = Shimmed(t)
    <3> DEFINE b == Shimmed(t)
               c == Len(stack)
               d == Len(stack')
    <3>1. d = c + 15 /\ c = b /\ b \in Nat
      BY <1>6, <1>8
    <3> HIDE DEF b, c, d
    <3>2. d - 15 = b
      BY <3>1
    <3> QED BY <3>2 DEF b, d
  <2> QED BY <1>8, <1>10, <2>1, FieldWords DEF CodeWords
<1>12. rip' = I!Code(HandlerOf(t.irq))
  <2>1. handlers[t.irq] = HandlerOf(t.irq)
    BY <1>1, <1>4 DEF IrqTables
  <2>2. stack \o x = stack' /\ I!Number(t.irq)[3] = t.irq
    BY <1>1 DEF I!Number
  <2> QED BY <1>1, <1>11, <2>1, <2>2
<1>13. InHandler(t, rip', Len(stack'), stack')
  <2>1. \A j \in 1 .. 15 : stack'[Shimmed(t) + j] = t.regs[I!SaveOrder[j]]
    BY <1>6, <1>7, <1>8
  <2> QED BY <1>6, <1>8, <1>10, <1>12, <2>1 DEF InHandler
<1>14. Level(taken[Len(taken)], rip', Len(stack'), regs', stack')
  BY <1>10, <1>13 DEF Level, t
<1>15. Levels'
  BY <1>1, <1>2, <1>4, <1>7, <1>14, LastLevelMoves
<1>16. CpuType'
  <2>1. rip' \in CodePlace
    BY <1>12 DEF I!Code, HandlerOf, CodePlace, AboveCode, TrapCode
  <2>2. regs' \in [I!Registers -> Word]
    BY <1>1, HandlersHold
  <2> QED BY <1>1, <1>2, <1>8, <2>1, <2>2 DEF CpuType
<1>17. FlagsSound'
  <2>1. CASE t.irq \in I!Traps
    <3>1. rip'[1] \in OfKernel
      BY <1>12, <2>1 DEF I!Code, HandlerOf, TrapCode, OfKernel
    <3> QED BY <1>1, <1>2, <3>1, FlagsKept
  <2>2. CASE t.irq \notin I!Traps
    <3>1. t.irq \in I!IrqGates
      BY <1>4, <2>2 DEF I!Gates, I!Traps, I!IrqGates
    <3>2. n \in Irqs
      BY <1>4, <3>1 DEF Irqs, t
    <3>3. flags # "on"
      BY <1>2, <3>2 DEF FlagsSound
    <3> QED BY <1>1, <1>2, <3>3, FlagsKept
  <2> QED BY <2>1, <2>2
<1>18. ProgramSound'
  BY <1>1, <1>2, <1>4, ProgramKept
<1> QED BY <1>1, <1>15, <1>16, <1>17, <1>18
        DEF CpuInv, Reported, I!PanicTellsTruth

\* What a handler finds on the stack, and RESTORE_REGS after it.
LEMMA HandlerStack ==
  ASSUME CpuType, Levels,
         rip[1] \in {"page_fault_handler", "default_trap_handler", "irq_handler",
                     "module", "restore"}
  PROVE  LET n == Len(taken)
             t == taken[n]
         IN  /\ n \in Nat /\ n \in 1 .. n /\ taken # <<>> /\ I!Last(taken) = t
             /\ t \in Frame /\ t.len \in Nat /\ t.irq \in I!Gates
             /\ FrameWords(t, stack) /\ InHandler(t, rip, Len(stack), stack)
             /\ Shimmed(t) \in Nat
<1> DEFINE n == Len(taken)
           t == taken[n]
<1>1. rip[1] \in AboveCode
  BY DEF AboveCode, TrapCode
<1>2. /\ n \in Nat /\ n \in 1 .. n /\ taken # <<>> /\ I!Last(taken) = t
      /\ t \in Frame /\ t.len \in Nat /\ t.irq \in I!Gates
      /\ Level(t, rip, Len(stack), regs, stack)
  BY <1>1, LastLevel
<1> HIDE DEF t
<1>3. ~InStub(t, rip, Len(stack), regs, stack)
  BY DEF InStub
<1>4. ~InShim(t, rip, Len(stack), regs, stack)
  BY DEF InShim, I!Code
<1>5. ~InIret(t, rip, Len(stack), regs)
  BY DEF InIret, I!Code
<1>6. FrameWords(t, stack) /\ InHandler(t, rip, Len(stack), stack)
  BY <1>2, <1>3, <1>4, <1>5 DEF Level
<1>7. Shimmed(t) \in Nat
  BY <1>2, FrameSizes
<1> QED BY <1>2, <1>6, <1>7 DEF t

LEMMA PanicReports ==
  ASSUME CpuInv, I!Panic
  PROVE  I!PanicTellsTruth'
<1> DEFINE n == Len(taken)
           t == taken[n]
           h == Len(stack)
<1>1. /\ irq_stage' = "panic" /\ taken' = taken
      /\ report' = <<I!Field(stack, "irq"), I!Field(stack, "rip"),
                     I!Field(stack, "error_code")>>
      /\ rip[1] \in {"page_fault_handler", "default_trap_handler"}
  BY DEF I!Panic, I!cpu
<1>2. /\ I!Last(taken) = t /\ t.len \in Nat
      /\ FrameWords(t, stack) /\ InHandler(t, rip, h, stack)
      /\ t \in Frame /\ Shimmed(t) \in Nat
      /\ h \in Nat /\ stack \in Seq(Word)
  BY <1>1, HandlerStack DEF CpuInv, CpuType
<1> HIDE DEF t
<1>3. h = Shimmed(t) + 15 /\ CodeWords(t, stack)
  BY <1>2 DEF InHandler
<1>4. ~I!Misentered(t) => Shimmed(t) = t.len + 7
  BY <1>2, FrameSizes
<1>5. h - 15 = Shimmed(t) /\ h - 16 = Shimmed(t) - 1 /\ h - 17 = Shimmed(t) - 2
  <2> DEFINE b == Shimmed(t)
  <2>1. b \in Nat /\ h = b + 15
    BY <1>2, <1>3
  <2> HIDE DEF b, h
  <2>2. h - 15 = b /\ h - 16 = b - 1 /\ h - 17 = b - 2
    BY <2>1
  <2> QED BY <2>2 DEF b
<1>6. /\ I!Field(stack, "irq") = stack[Shimmed(t)]
      /\ I!Field(stack, "error_code") = stack[Shimmed(t) - 1]
      /\ I!Field(stack, "rip") = stack[Shimmed(t) - 2]
  BY <1>2, <1>5, FieldWords
<1>7. report'[1] = I!Number(t.irq)
  BY <1>1, <1>3, <1>6 DEF CodeWords
<1>8. ASSUME ~I!Misentered(t)
      PROVE  /\ report'[2] = <<t.rip[1], "rip", t.rip[2]>>
             /\ report'[3] = I!Number(I!CodeOf(t))
  <2>1. Shimmed(t) - 2 = t.len + 5
    BY <1>2, <1>4, <1>8
  <2>2. report'[2] = stack[t.len + 5] /\ report'[3] = stack[Shimmed(t) - 1]
    BY <1>1, <1>6, <2>1
  <2> QED BY <1>2, <1>3, <1>8, <2>2 DEF FrameWords, CodeWords
<1>9. I!Last(taken') = t
  BY <1>1, <1>2
<1> QED BY <1>7, <1>8, <1>9 DEF I!PanicTellsTruth, I!Tells

LEMMA CpuPanics ==
  ASSUME CpuInv, I!Panic
  PROVE  CpuInv'
<1>1. irq_stage' = "panic" /\ UNCHANGED <<I!cpu, irq_handlers>>
  BY DEF I!Panic, I!tables
<1> USE DEF I!cpu
<1>2. CpuType'
  BY <1>1 DEF CpuInv, CpuType
<1>3. Levels'
  BY <1>1 DEF CpuInv, Levels, CodeAt, TopAt, RegsAt
<1>4. FlagsSound'
  BY <1>1 DEF CpuInv, FlagsSound, Irqs
<1>5. ProgramSound'
  BY <1>1 DEF CpuInv, ProgramSound, CodeAt
<1> QED BY <1>2, <1>3, <1>4, <1>5, PanicReports DEF CpuInv, Reported

\* irq_handler and what it calls go on, to a module only for an int.
LEMMA InIrqHandler ==
  ASSUME CpuType, Levels, rip[1] \in {"irq_handler", "module", "restore"}
  PROVE  LET t == taken[Len(taken)]
         IN  /\ taken # <<>> /\ t.irq \in I!IrqGates /\ Len(taken) \in Irqs
             /\ I!Last(taken) = t
<1> DEFINE t == taken[Len(taken)]
<1>1. /\ taken # <<>> /\ Len(taken) \in 1 .. Len(taken) /\ I!Last(taken) = t
      /\ t.irq \in I!Gates /\ InHandler(t, rip, Len(stack), stack)
  BY HandlerStack
<1> HIDE DEF t
<1>2. t.irq \in I!IrqGates
  <2>1. CASE rip[1] = "irq_handler"
    <3>1. rip = I!Code(HandlerOf(t.irq))
      BY <1>1, <2>1, HandlerCode
    <3>2. t.irq \notin I!Traps
      BY <2>1, <3>1 DEF I!Code, HandlerOf
    <3> QED BY <1>1, <3>2 DEF I!Gates, I!Traps, I!IrqGates
  <2>2. CASE rip[1] # "irq_handler"
    BY <1>1, <2>2, HandlerCode
  <2> QED BY <2>1, <2>2
<1> QED BY <1>1, <1>2 DEF t, Irqs

LEMMA CpuHandles ==
  ASSUME CpuInv, irq_stage = "run", irq_stage' = "run",
         UNCHANGED <<flags, selector, regs, stack, taken, irq_handlers>>,
         rip[1] \in {"irq_handler", "module"},
         \/ rip' = I!Code("restore")
         \/ rip' = I!Code("module") /\ I!Last(taken).soft
  PROVE  CpuInv'
<1> DEFINE n == Len(taken)
           t == taken[n]
<1>1. /\ CpuType /\ Levels /\ FlagsSound /\ ProgramSound /\ stack \in Seq(Word)
  BY DEF CpuInv, CpuType
<1>2. /\ taken # <<>> /\ t.irq \in I!IrqGates /\ n \in Irqs /\ I!Last(taken) = t
      /\ FrameWords(t, stack) /\ InHandler(t, rip, Len(stack), stack)
  BY <1>1, InIrqHandler, HandlerStack
<1>3. InHandler(t, rip', Len(stack), stack)
  BY <1>2, Zenon DEF InHandler
<1>4. Level(taken[Len(taken)], rip', Len(stack'), regs', stack')
  BY <1>2, <1>3 DEF Level
<1>5. Levels'
  <2>1. stack' = stack \o <<>> /\ <<>> \in Seq(Word)
    BY <1>1, ConcatEmptySeq, EmptySeq
  <2> QED BY <1>1, <1>2, <1>4, <2>1, LastLevelMoves
<1>6. CpuType'
  <2>1. rip' \in CodePlace
    BY DEF I!Code, CodePlace, AboveCode
  <2> QED BY <1>1, <2>1 DEF CpuType
<1>7. FlagsSound'
  <2>1. flags # "on"
    BY <1>1, <1>2 DEF FlagsSound
  <2> QED BY <1>1, <2>1, FlagsKept
<1>8. ProgramSound'
  BY <1>1, <1>2, ProgramKept
<1> QED BY <1>5, <1>6, <1>7, <1>8 DEF CpuInv, Reported, I!PanicTellsTruth

LEMMA CpuEnds ==
  ASSUME CpuInv, I!IrqHandler \/ I!ModuleReturns
  PROVE  CpuInv'
  BY CpuHandles DEF I!IrqHandler, I!ModuleReturns, I!EndOfInterrupt, I!At, I!tables

LEMMA CpuCallsModule ==
  ASSUME CpuInv, I!CallModule
  PROVE  CpuInv'
<1> DEFINE n == Len(taken)
<1>1. /\ irq_stage = "run" /\ irq_stage' = "run" /\ rip[1] = "irq_handler"
      /\ irq_handlers # {} /\ rip' = I!Code("module")
      /\ UNCHANGED <<flags, selector, regs, stack, taken, irq_handlers>>
  BY DEF I!CallModule, I!At, I!tables
<1>2. /\ CpuType /\ Levels /\ FlagsSound /\ ProgramSound
      /\ n \in Irqs /\ I!Last(taken) = taken[n] /\ n \in Nat
  BY <1>1, InIrqHandler, FramesTyped DEF CpuInv
<1>3. taken[n].soft
  <2>1. 1 \in 1 .. n /\ n # 0
    BY <1>2 DEF Irqs
  <2>2. CodeAt(0) = taken[1].rip
    BY <1>2, <2>1 DEF CodeAt
  <2>3. taken[1].rip[1] \in BottomCode \ {"kernel"}
    <3>1. Bottom(CodeAt(0), TopAt(0), RegsAt(0), stack)
      BY <1>2 DEF Levels
    <3>2. CodeAt(0)[1] \in BottomCode
      BY <3>1, BottomHasCode
    <3> QED BY <1>1, <1>2, <2>2, <3>2 DEF ProgramSound
  <2>4. taken[1].rip[1] \notin OfKernel
    BY <2>3 DEF OfKernel, TrapCode, BottomCode
  <2> QED BY <1>2, <2>1, <2>4 DEF FlagsSound
<1> QED BY <1>1, <1>2, <1>3, CpuHandles

\* A module's handler is registered while a call runs.
LEMMA CpuRegisters ==
  ASSUME CpuInv, NEW v, I!RegisterIrqHandler(v)
  PROVE  CpuInv'
<1>1. irq_stage = "run" /\ irq_stage' = "run" /\ rip[1] = "syscall" /\ UNCHANGED I!cpu
  BY DEF I!RegisterIrqHandler, I!At
<1>2. taken = <<>>
  BY <1>1, OnTheBottom DEF CpuInv, BottomCode
<1>3. CodeAt(0)[1] # "kernel"
  BY <1>1, <1>2, EmptySeq DEF CodeAt
<1> QED BY <1>1, <1>3, CpuUntouched

\* What iretq and RESTORE_REGS find at the end of an interrupt.
LEMMA ReturnFinds ==
  ASSUME CpuType, Levels, rip[1] = "restore"
  PROVE  LET t == I!Last(taken)
         IN  /\ I!Popped = t.regs
             /\ Len(I!Iret) = t.len + 5
             /\ I!Iret[Len(I!Iret)] = <<t.rip[1], "rip", t.rip[2]>>
             /\ I!Iret[Len(I!Iret) - 1] = <<t.rip[1], "cs", t.selector>>
             /\ I!Iret[Len(I!Iret) - 2] = <<t.flags, "rflags", 0>>
             /\ I!Iret[Len(I!Iret) - 3] = I!Number(t.len)
             /\ I!Iret \in Seq(Word) /\ t.len + 5 <= Len(stack)
             /\ \A j \in 1 .. t.len + 5 : I!Iret[j] = stack[j]
<1> DEFINE t == taken[Len(taken)]
           h == Len(stack)
<1>1. /\ I!Last(taken) = t /\ t \in Frame /\ t.len \in Nat
      /\ FrameWords(t, stack) /\ InHandler(t, rip, h, stack)
      /\ h \in Nat /\ stack \in Seq(Word)
  BY HandlerStack DEF CpuType
<1> HIDE DEF t
<1>2. t.irq \in I!IrqGates
  BY <1>1, HandlerCode
<1>4. /\ Shimmed(t) = t.len + 7 /\ h = t.len + 22
      /\ \A n \in 1 .. 15 : stack[t.len + 7 + n] = t.regs[I!SaveOrder[n]]
  <2>1. Shimmed(t) = t.len + 7
    BY <1>1, <1>2, FrameSizes
  <2>2. /\ h = Shimmed(t) + 15
        /\ \A n \in 1 .. 15 : stack[Shimmed(t) + n] = t.regs[I!SaveOrder[n]]
    BY <1>1 DEF InHandler
  <2>3. h = t.len + 22
    BY <1>1, <2>1, <2>2
  <2> QED BY <2>1, <2>2, <2>3
<1>5. I!Popped = t.regs
  <2>1. ASSUME NEW r \in I!Registers PROVE I!Popped[r] = t.regs[r]
    <3>1. PICK n \in 1 .. 15 : r = I!SaveOrder[n]
      BY SavedRegisters
    <3>2. I!Popped[r] = stack[h - (16 - n) + 1]
      BY <3>1, PoppedWords
    <3>3. h - (16 - n) + 1 = t.len + 7 + n
      <4> DEFINE a == t.len
      <4>1. a \in Nat /\ h = a + 22
        BY <1>1, <1>4
      <4> HIDE DEF a, h
      <4>2. h - (16 - n) + 1 = a + 7 + n
        BY <4>1
      <4> QED BY <4>2 DEF a
    <3> QED BY <1>4, <3>1, <3>2, <3>3
  <2>2. t.regs \in [I!Registers -> Word]
    BY <1>1 DEF Frame
  <2>3. DOMAIN I!Popped = I!Registers /\ I!Popped = [r \in I!Registers |-> I!Popped[r]]
    BY DEF I!Popped
  <2> QED BY <2>1, <2>2, <2>3
<1>6. /\ Len(I!Iret) = t.len + 5 /\ I!Iret \in Seq(Word)
      /\ \A j \in 1 .. t.len + 5 : I!Iret[j] = stack[j]
  <2>1. I!Iret = SubSeq(stack, 1, h - 17) /\ h - 17 = t.len + 5
    BY <1>1, <1>4, SavedRegisters DEF I!Iret, I!Rest, I!Skips
  <2>2. \A j \in 1 .. t.len + 5 : stack[j] \in Word
    <3> DEFINE a == t.len
    <3>1. a \in Nat /\ h = a + 22
      BY <1>1, <1>4
    <3> HIDE DEF a, h
    <3>2. \A j \in 1 .. a + 5 : j \in 1 .. h
      BY <3>1
    <3>3. \A j \in 1 .. h : stack[j] \in Word
      BY <1>1 DEF h
    <3> QED BY <3>2, <3>3 DEF a
  <2>3. t.len + 5 \in Int /\ 1 <= t.len + 5
    BY <1>1
  <2> QED BY <2>1, <2>2, <2>3, SubSeqProperties
<1>7. /\ t.len + 5 - 2 = t.len + 3 /\ t.len + 5 - 3 = t.len + 2
      /\ t.len + 5 \in 1 .. t.len + 5 /\ t.len + 3 \in 1 .. t.len + 5
      /\ t.len + 2 \in 1 .. t.len + 5 /\ t.len + 4 \in 1 .. t.len + 5
  <2> DEFINE a == t.len
  <2>1. a \in Nat
    BY <1>1
  <2> HIDE DEF a
  <2>2. /\ a + 5 - 2 = a + 3 /\ a + 5 - 3 = a + 2 /\ a + 5 \in 1 .. a + 5
        /\ a + 3 \in 1 .. a + 5 /\ a + 2 \in 1 .. a + 5 /\ a + 4 \in 1 .. a + 5
    BY <2>1
  <2> QED BY <2>2 DEF a
<1>8. /\ I!Iret[Len(I!Iret)] = stack[t.len + 5]
      /\ I!Iret[Len(I!Iret) - 1] = stack[t.len + 4]
      /\ I!Iret[Len(I!Iret) - 2] = stack[t.len + 3]
      /\ I!Iret[Len(I!Iret) - 3] = stack[t.len + 2]
  <2>1. /\ Len(I!Iret) = t.len + 5 /\ Len(I!Iret) - 2 = t.len + 3
        /\ Len(I!Iret) - 3 = t.len + 2 /\ Len(I!Iret) - 1 = t.len + 4
    <3> DEFINE a == t.len
               b == Len(I!Iret)
    <3>1. a \in Nat /\ b = a + 5
      BY <1>1, <1>6
    <3> HIDE DEF a, b
    <3>2. b = a + 5 /\ b - 2 = a + 3 /\ b - 3 = a + 2 /\ b - 1 = a + 4
      BY <3>1
    <3> QED BY <3>2 DEF a, b
  <2>2. /\ I!Iret[t.len + 5] = stack[t.len + 5]
        /\ I!Iret[t.len + 3] = stack[t.len + 3]
        /\ I!Iret[t.len + 2] = stack[t.len + 2]
        /\ I!Iret[t.len + 4] = stack[t.len + 4]
    BY <1>6, <1>7
  <2> QED BY <2>1, <2>2
<1>9. t.len + 5 <= h
  <2> DEFINE a == t.len
  <2>1. a \in Nat /\ h = a + 22
    BY <1>1, <1>4
  <2> HIDE DEF a, h
  <2>2. a + 5 <= h
    BY <2>1
  <2> QED BY <2>2 DEF a
<1> QED BY <1>1, <1>5, <1>6, <1>8, <1>9 DEF FrameWords

LEMMA PrefixPlaces ==
  ASSUME NEW S, NEW s, NEW n \in Nat, \A j \in 1 .. n : s[j] \in S
  PROVE  /\ SubSeq(s, 1, n) \in Seq(S) /\ Len(SubSeq(s, 1, n)) = n
         /\ \A j \in 1 .. n : SubSeq(s, 1, n)[j] = s[j]
<1>1. /\ SubSeq(s, 1, n) \in Seq(S)
      /\ Len(SubSeq(s, 1, n)) = IF 1 <= n THEN n - 1 + 1 ELSE 0
      /\ \A j \in 1 .. n - 1 + 1 : SubSeq(s, 1, n)[j] = s[1 + j - 1]
  BY SubSeqProperties
<1>2. n - 1 + 1 = n /\ \A j \in 1 .. n : 1 + j - 1 = j
  OBVIOUS
<1>3. (IF 1 <= n THEN n - 1 + 1 ELSE 0) = n
  OBVIOUS
<1> QED BY <1>1, <1>2, <1>3

LEMMA CpuReturns ==
  ASSUME CpuInv, I!Return
  PROVE  CpuInv'
<1> DEFINE n == Len(taken)
           t == taken[n]
           m == t.len
<1>1. /\ irq_stage = "run" /\ irq_stage' = "run" /\ rip[1] = "restore"
      /\ regs' = I!Popped /\ rip' = I!RipOf(I!Iret[Len(I!Iret)])
      /\ flags' = I!Iret[Len(I!Iret) - 2][1]
      /\ stack' = SubSeq(stack, 1, I!Iret[Len(I!Iret) - 3][3])
      /\ taken' = I!Front(taken) /\ irq_handlers' = irq_handlers
      /\ selector' = I!PoppedSelector /\ I!PoppedSelector # I!SYSRET_CODE
  BY DEF I!Return, I!At, I!tables
<1>2. /\ CpuType /\ Levels /\ FlagsSound /\ ProgramSound
      /\ stack \in Seq(Word) /\ taken \in Seq(Frame)
  BY DEF CpuInv, CpuType
<1>3. /\ n \in Nat /\ n \in 1 .. n /\ I!Last(taken) = t /\ t \in Frame /\ m \in Nat
      /\ \A j \in 1 .. n : taken[j].len \in Nat
  BY <1>1, <1>2, HandlerStack, FramesTyped
<1>4. /\ regs' = t.regs /\ rip' = t.rip /\ flags' = t.flags
      /\ stack' = SubSeq(stack, 1, m) /\ selector' = t.selector
  <2>0. selector' = t.selector
    <3>1. selector' = I!Iret[Len(I!Iret) - 1][3]
      BY <1>1 DEF I!PoppedSelector
    <3>2. I!Iret[Len(I!Iret) - 1] = <<t.rip[1], "cs", t.selector>>
      BY <1>1, <1>2, <1>3, ReturnFinds
    <3> QED BY <3>1, <3>2
  <2>1. /\ regs' = t.regs
        /\ rip' = I!RipOf(<<t.rip[1], "rip", t.rip[2]>>)
        /\ flags' = <<t.flags, "rflags", 0>>[1]
        /\ stack' = SubSeq(stack, 1, I!Number(m)[3])
    BY <1>1, <1>2, <1>3, ReturnFinds
  <2>2. t.rip = <<t.rip[1], t.rip[2]>>
    BY <1>3 DEF Frame, CodePlace
  <2> QED BY <2>0, <2>1, <2>2 DEF I!RipOf, I!Number
<1>5. /\ taken' \in Seq(Frame) /\ Len(taken') = n - 1
      /\ \A j \in 1 .. n - 1 : taken'[j] = taken[j]
  <2>1. taken' = SubSeq(taken, 1, n - 1)
    BY <1>1 DEF I!Front
  <2>2. \A j \in 1 .. n - 1 : taken[j] \in Frame
    BY <1>2, <1>3
  <2> DEFINE e == n - 1
  <2>3. /\ e \in Nat /\ taken' = SubSeq(taken, 1, e)
        /\ \A j \in 1 .. e : taken[j] \in Frame
    BY <1>3, <2>1, <2>2
  <2> HIDE DEF e
  <2>4. /\ taken' \in Seq(Frame) /\ Len(taken') = e
        /\ \A j \in 1 .. e : taken'[j] = taken[j]
    BY <2>3, PrefixPlaces
  <2> QED BY <2>4 DEF e
<1>6. m <= Len(stack) /\ Len(stack) \in Nat
  BY <1>2, <1>3 DEF Levels
<1>7. /\ stack' \in Seq(Word) /\ Len(stack') = m
      /\ \A j \in 1 .. m : stack'[j] = stack[j]
  <2> HIDE DEF m
  <2>2. \A j \in 1 .. m : stack[j] \in Word
    BY <1>2, <1>3, <1>6
  <2> QED BY <1>3, <1>4, <2>2, PrefixPlaces
<1>8. ASSUME NEW j \in 0 .. n - 1
      PROVE  /\ CodeAt(j)' = CodeAt(j) /\ TopAt(j)' = TopAt(j)
             /\ RegsAt(j)' = RegsAt(j)
             /\ TopAt(j) \in Nat /\ TopAt(j) <= m
  <2>1. /\ CodeAt(j) = taken[j + 1].rip /\ TopAt(j) = taken[j + 1].len
        /\ RegsAt(j) = taken[j + 1].regs /\ j + 1 \in 1 .. n
    <3>1. j # n /\ j + 1 \in 1 .. n
      BY <1>3
    <3> QED BY <3>1 DEF CodeAt, TopAt, RegsAt
  <2>2. TopAt(j) \in Nat /\ TopAt(j) <= m
    BY <1>2, <1>3, <2>1 DEF Levels
  <2>3. CASE j = n - 1
    <3>1. j = Len(taken') /\ j + 1 = n
      BY <1>3, <1>5, <2>3
    <3> QED BY <1>4, <1>7, <2>1, <2>2, <3>1 DEF CodeAt, TopAt, RegsAt
  <2>4. CASE j # n - 1
    <3>1. j # Len(taken') /\ j + 1 \in 1 .. n - 1
      BY <1>3, <1>5, <2>4
    <3> QED BY <1>5, <2>1, <2>2, <3>1 DEF CodeAt, TopAt, RegsAt
  <2> QED BY <2>3, <2>4
<1> HIDE DEF m
<1>9. \A j \in 0 .. n - 1 : Agree(stack, stack', TopAt(j))
  BY <1>3, <1>7, <1>8 DEF Agree
<1>10. \A j \in 1 .. n - 1 : /\ j \in 0 .. n - 1 /\ j \in 1 .. n
                             /\ taken'[j] = taken[j]
  BY <1>3, <1>5
<1>11. Levels'
  <2>1. Bottom(CodeAt(0), TopAt(0), RegsAt(0), stack)'
    <3>1. 0 \in 0 .. n - 1
      BY <1>3
    <3> QED BY <1>2, <1>8, <1>9, <3>1, BottomKept DEF Levels
  <2>2. ASSUME NEW j \in 1 .. n - 1
        PROVE  Level(taken[j], CodeAt(j), TopAt(j), RegsAt(j), stack)'
    <3>1. j \in 0 .. n - 1 /\ j \in 1 .. n /\ taken'[j] = taken[j]
      BY <1>10
    <3>2. taken[j] \in Frame /\ Level(taken[j], CodeAt(j), TopAt(j), RegsAt(j), stack)
      BY <1>2, <3>1 DEF Levels
    <3>3. /\ CodeAt(j)' = CodeAt(j) /\ TopAt(j)' = TopAt(j)
          /\ RegsAt(j)' = RegsAt(j) /\ TopAt(j) \in Nat
          /\ Agree(stack, stack', TopAt(j))
      BY <1>8, <1>9, <3>1
    <3> QED BY <3>1, <3>2, <3>3, LevelKept
  <2>3. \A j \in 1 .. n - 1 : taken'[j].len <= Len(stack')
    <3>1. ASSUME NEW j \in 1 .. n - 1 PROVE taken'[j].len <= Len(stack')
      <4>1. j \in 1 .. n /\ taken'[j] = taken[j] /\ j <= n
        BY <1>3, <1>10
      <4>2. taken[j].len <= taken[n].len
        BY <1>2, <1>3, <4>1 DEF Levels
      <4> QED BY <1>7, <4>1, <4>2 DEF m
    <3> QED BY <3>1
  <2>4. \A j, h \in 1 .. n - 1 : j <= h => taken'[j].len <= taken'[h].len
    BY <1>2, <1>10 DEF Levels
  <2> QED BY <1>5, <2>1, <2>2, <2>3, <2>4 DEF Levels
<1>12. CpuType'
  <2>1. /\ rip' \in CodePlace /\ regs' \in [I!Registers -> Word]
        /\ flags' \in {"on", "off"} /\ selector' \in Selectors
    BY <1>3, <1>4 DEF Frame
  <2> QED BY <1>1, <1>5, <1>7, <2>1 DEF CpuType
<1>13. FlagsSound'
  <2>1. n \in Irqs
    BY <1>1, <1>2, InIrqHandler
  <2>2. \A j \in Irqs : j = n
    BY <1>2, <2>1 DEF FlagsSound
  <2>3. Irqs' = {}
    <3>1. \A j \in 1 .. n - 1 : taken[j].irq \notin I!IrqGates
      BY <1>3, <1>10, <2>2 DEF Irqs
    <3> QED BY <1>5, <1>10, <3>1 DEF Irqs
  <2>4. CASE t.soft
    <3>1. n = 1 /\ flags' = "off"
      BY <1>2, <1>3, <1>4, <2>4 DEF FlagsSound
    <3>2. Len(taken') = 0
      BY <1>5, <3>1
    <3> QED BY <2>3, <3>1, <3>2 DEF FlagsSound
  <2>5. CASE ~t.soft
    <3>1. \A j \in 1 .. n : taken[j].rip[1] \in OfKernel
      BY <1>2, <2>1, <2>5 DEF FlagsSound
    <3>2. /\ rip'[1] \in OfKernel
          /\ \A j \in 1 .. n - 1 : taken'[j].rip[1] \in OfKernel
      BY <1>3, <1>4, <1>10, <3>1
    <3>3. \A c \in OfKernel : c # "user" /\ c # "iret"
      BY DEF OfKernel, TrapCode
    <3>4. \A j \in 1 .. n - 1 : ~taken'[j].soft
      BY <1>2, <1>10, <3>2, <3>3 DEF FlagsSound
    <3> QED BY <1>5, <2>3, <3>2, <3>3, <3>4 DEF FlagsSound
  <2> QED BY <2>4, <2>5
<1>14. ProgramSound'
  <2>1. CodeAt(0)' = CodeAt(0)
    <3>1. 0 \in 0 .. n - 1
      BY <1>3
    <3> QED BY <1>8, <3>1
  <2>2. selector' # I!SYSRET_CODE
    BY <1>1
  <2> QED BY <1>1, <1>2, <1>5, <1>10, <2>1, <2>2 DEF ProgramSound
<1> QED BY <1>1, <1>11, <1>12, <1>13, <1>14 DEF CpuInv, Reported, I!PanicTellsTruth

\* iretq refuses the selector of sysretq, which only an int finds there.
LEMMA CpuIretFaults ==
  ASSUME CpuInv, IrqTables, I!IretFaults
  PROVE  CpuInv'
<1> DEFINE n == Len(taken)
           t == taken[n]
           m == t.len + 5
           v == I!TRAP_GPF
<1>1. /\ irq_stage = "run" /\ irq_stage' = "run" /\ rip[1] = "restore"
      /\ I!PoppedSelector = I!SYSRET_CODE /\ irq_handlers' = irq_handlers
      /\ I!Follow(v, I!Code("iret"), I!Popped, I!Iret, I!ErrorCode(v), FALSE)
  BY DEF I!IretFaults, I!At, I!tables
<1>2. CpuType /\ Levels /\ FlagsSound /\ ProgramSound
  BY DEF CpuInv
<1>3. /\ n \in Nat /\ n \in 1 .. n /\ n # 0 /\ n \in Irqs /\ I!Last(taken) = t
      /\ t \in Frame /\ t.len \in Nat /\ FrameWords(t, stack)
      /\ \A j \in 1 .. n : taken[j].len \in Nat
  BY <1>1, <1>2, InIrqHandler, HandlerStack, FramesTyped
<1>4. /\ I!Popped = t.regs /\ Len(I!Iret) = m
      /\ I!Iret[Len(I!Iret) - 1] = <<t.rip[1], "cs", t.selector>>
      /\ I!Iret \in Seq(Word) /\ m <= Len(stack)
      /\ \A j \in 1 .. m : I!Iret[j] = stack[j]
  BY <1>1, <1>2, <1>3, ReturnFinds
<1> HIDE DEF t
<1>5. t.soft
  <2>1. t.selector = I!SYSRET_CODE
    BY <1>1, <1>4 DEF I!PoppedSelector
  <2>2. t.rip[1] = "user"
    BY <1>2, <1>3, <2>1 DEF ProgramSound, t
  <2>3. t.rip[1] \notin OfKernel
    BY <2>2 DEF OfKernel, TrapCode
  <2> QED BY <1>2, <1>3, <2>3 DEF FlagsSound, t
<1>6. /\ v \in I!Gates /\ v \in I!Traps /\ I!Code("iret") \in CodePlace
      /\ I!Popped \in [I!Registers -> Word]
  <2>1. I!Code("iret") \in CodePlace
    BY DEF I!Code, CodePlace, AboveCode
  <2>2. I!Popped \in [I!Registers -> Word]
    BY <1>3, <1>4 DEF Frame
  <2> QED BY <2>1, <2>2 DEF I!TRAP_GPF, I!Gates, I!Traps
<1>7. OnTop(I!Code("iret"), I!Popped, I!Iret)
  <2>1. ASSUME NEW j \in 0 .. n - 1
        PROVE  TopAt(j) <= m /\ Agree(stack, I!Iret, TopAt(j))
    <3>1. j # n /\ j + 1 \in 1 .. n /\ j + 1 <= n
      BY <1>3
    <3>2. TopAt(j) = taken[j + 1].len /\ taken[j + 1].len \in Nat
      BY <1>3, <3>1 DEF TopAt
    <3>3. taken[j + 1].len <= t.len
      BY <1>2, <1>3, <3>1 DEF Levels, t
    <3>4. TopAt(j) \in Nat /\ TopAt(j) <= m
      BY <1>3, <3>2, <3>3
    <3> QED BY <1>3, <1>4, <3>4 DEF Agree
  <2>2. FrameWords(t, I!Iret)
    <3>1. /\ t.len + 2 \in 1 .. m /\ t.len + 3 \in 1 .. m /\ t.len + 4 \in 1 .. m
          /\ t.len + 5 \in 1 .. m
      BY <1>3
    <3> QED BY <1>3, <1>4, <3>1 DEF FrameWords
  <2>3. Level(t, I!Code("iret"), Len(I!Iret), I!Popped, I!Iret)
    BY <1>4, <2>2 DEF Level, InIret
  <2> QED BY <1>3, <1>4, <2>1, <2>3 DEF OnTop, t
<1>8. /\ Levels' /\ rip' \in CodePlace /\ regs' \in [I!Registers -> Word]
      /\ selector' \in Selectors
      /\ stack' \in Seq(Word) /\ taken' \in Seq(Frame)
  BY <1>1, <1>2, <1>4, <1>6, <1>7, LevelBegins DEF I!ErrorCode
<1>9. FlagsSound' /\ flags' = flags
  <2>1. flags # "on" /\ Len(taken) # 0 /\ taken[Len(taken)].soft
    BY <1>2, <1>3, <1>5 DEF FlagsSound, t
  <2> QED BY <1>1, <1>2, <1>6, <2>1, TrapKeepsFlags
<1>10. ProgramSound'
  <2>1. selector # I!SYSRET_CODE
    BY <1>1, <1>2 DEF ProgramSound
  <2> QED BY <1>1, <1>2, <1>3, <2>1, FrameKeepsProgram
<1>11. CpuType'
  BY <1>1, <1>2, <1>8, <1>9 DEF CpuType
<1> QED BY <1>1, <1>8, <1>9, <1>10, <1>11 DEF CpuInv, Reported, I!PanicTellsTruth

\* The kernel starts a program, with its interrupts off.
LEMMA CpuStartsUser ==
  ASSUME CpuInv, I!StartUser
  PROVE  CpuInv'
<1>1. /\ irq_stage = "run" /\ irq_stage' = "run" /\ rip[1] = "kernel"
      /\ rip' = I!Code("user") /\ regs' = I!Holds("user")
      /\ flags' = "off" /\ stack' = <<>> /\ taken' = taken
      /\ selector' = I!GDT_USER_CODE
  BY DEF I!StartUser, I!At, I!UserFlags
<1>2. rip[1] \in BottomCode
  BY <1>1 DEF BottomCode
<1>3. taken' = <<>> /\ Len(taken') = 0
  BY <1>1, <1>2, OnTheBottom DEF CpuInv
<1>4. stack' \in Seq(Word) /\ taken' \in Seq(Frame) /\ Len(stack') = 0
  BY <1>1, <1>3, EmptySeq
<1>5. CpuType'
  <2>1. "user" \in BottomCode /\ rip' \in CodePlace
    BY <1>1 DEF I!Code, CodePlace, BottomCode
  <2>2. regs' \in [I!Registers -> Word]
    BY <1>1, <2>1, RegistersHold
  <2> QED BY <1>1, <1>4, <2>1, <2>2 DEF CpuType, Selectors
<1>6. \A r \in KeptByCall : regs'[r] = <<"user", r, 0>>
  BY <1>1 DEF KeptByCall, I!Holds
<1>7. Levels'
  <2>1. /\ CodeAt(0)' = I!Code("user") /\ TopAt(0)' = 0 /\ RegsAt(0)' = regs'
    BY <1>1, <1>3, <1>4 DEF CodeAt, TopAt, RegsAt
  <2>2. Bottom(CodeAt(0), TopAt(0), RegsAt(0), stack)'
    BY <1>6, <2>1 DEF Bottom
  <2> QED BY <1>3, <2>2 DEF Levels
<1>8. FlagsSound'
  BY <1>1, <1>3 DEF FlagsSound, Irqs
<1>9. ProgramSound'
  BY <1>1, <1>3 DEF ProgramSound, CodeAt, I!Code, I!GDT_USER_CODE, I!SYSRET_CODE
<1> QED BY <1>1, <1>5, <1>7, <1>8, <1>9 DEF CpuInv, Reported, I!PanicTellsTruth

\* A program calls the kernel, and the kernel goes back to it.
LEMMA Triple ==
  ASSUME NEW S, NEW T, NEW U, NEW a \in S, NEW b \in T, NEW c \in U
  PROVE  <<a, b, c>> \in S \X T \X U
  OBVIOUS

LEMMA BlankWords ==
  ASSUME NEW r \in [I!Registers -> Word]
  PROVE  LET b == [j \in 1 .. 7 |-> <<"blank", "", 0>>]
             x == [j \in 1 .. Len(I!SaveOrder) |-> r[I!SaveOrder[j]]]
         IN  /\ b \in Seq(Word) /\ Len(b) = 7
             /\ x \in Seq(Word) /\ Len(x) = 15
             /\ \A j \in 1 .. 15 : x[j] = r[I!SaveOrder[j]]
<1> DEFINE w == <<"blank", "", 0>>
           b == [j \in 1 .. 7 |-> w]
           x == [j \in 1 .. Len(I!SaveOrder) |-> r[I!SaveOrder[j]]]
<1>1. w \in Word
  <2> DEFINE whose == AboveCode \union BottomCode
                        \union {"number", "on", "off", "blank", "handler"}
             what == I!Registers \union {"", "ss", "rflags", "cs", "rip"}
  <2>1. "blank" \in whose /\ "" \in what /\ 0 \in Int
    OBVIOUS
  <2>2. Word = whose \X what \X Int
    BY DEF Word
  <2> HIDE DEF whose, what
  <2> QED BY <2>1, <2>2, Triple
<1> HIDE DEF w
<1>2. Len(I!SaveOrder) = 15 /\ \A j \in 1 .. 15 : r[I!SaveOrder[j]] \in Word
  BY SavedRegisters
<1>3. b \in Seq(Word) /\ Len(b) = 7
  BY <1>1
<1>4. /\ x \in Seq(Word) /\ Len(x) = 15
      /\ \A j \in 1 .. 15 : x[j] = r[I!SaveOrder[j]]
  BY <1>2
<1> QED BY <1>3, <1>4 DEF w

LEMMA CpuCalls ==
  ASSUME CpuInv, NEW m \in Calls, I!Syscall(m)
  PROVE  CpuInv'
<1> DEFINE r == [I!Entered EXCEPT !["rax"] = I!Number(m)]
           b == [j \in 1 .. 7 |-> <<"blank", "", 0>>]
           x == [j \in 1 .. Len(I!SaveOrder) |-> r[I!SaveOrder[j]]]
<1>1. /\ irq_stage = "run" /\ irq_stage' = "run" /\ rip[1] = "user"
      /\ stack' = (stack \o b) \o x
      /\ rip' = I!Code(IF m < SYSCALL_MAX THEN "syscall" ELSE "nowhere")
      /\ regs' = I!Holds("handler") /\ UNCHANGED <<flags, taken>>
      /\ selector' = I!GDT_KERNEL_CODE
  BY DEF I!Syscall, I!At
<1>2. CpuType /\ Levels /\ FlagsSound
  BY DEF CpuInv
<1>3. rip[1] \in BottomCode
  BY <1>1 DEF BottomCode
<1>4. taken = <<>> /\ Len(taken) = 0
  BY <1>2, <1>3, OnTheBottom
<1>5. /\ rip = I!Code("user") /\ Len(stack) = 0
      /\ \A g \in KeptByCall : regs[g] = <<"user", g, 0>>
  <2>1. Bottom(rip, Len(stack), regs, stack)
    BY <1>2, <1>4 DEF Levels, CodeAt, TopAt, RegsAt
  <2>2. rip[1] = "user"
    BY <1>1
  <2>3. CASE rip = I!Code("kernel")
    BY <2>2, <2>3 DEF I!Code
  <2>4. rip # I!Code("syscall") /\ rip # I!Code("nowhere")
    BY <2>2 DEF I!Code
  <2> QED BY <2>1, <2>3, <2>4 DEF Bottom
<1>6. flags = "off"
  BY <1>1, InProgram
<1>7. stack = <<>> /\ stack \in Seq(Word)
  BY <1>2, <1>5, EmptySeq DEF CpuType
<1>8. "rcx" \in I!Registers /\ "r11" \in I!Registers /\ "rax" \in I!Registers
  <2>1. I!SaveOrder[1] = "rax" /\ I!SaveOrder[3] = "rcx" /\ I!SaveOrder[10] = "r11"
    BY DEF I!SaveOrder
  <2>2. 1 \in 1 .. 15 /\ 3 \in 1 .. 15 /\ 10 \in 1 .. 15
    OBVIOUS
  <2> QED BY <2>1, <2>2, SavedRegisters
<1>9. /\ r \in [I!Registers -> Word]
      /\ r["rcx"] = <<"user", "rip", 0>> /\ r["r11"] = <<"off", "rflags", 0>>
      /\ \A g \in KeptByCall : r[g] = <<"user", g, 0>>
  <2>1. r = [g \in I!Registers |-> IF g = "rax" THEN I!Number(m)
                                   ELSE IF g = "r11" THEN <<"off", "rflags", 0>>
                                   ELSE IF g = "rcx" THEN <<"user", "rip", 0>>
                                   ELSE regs[g]]
    <3>1. regs \in [I!Registers -> Word]
      BY <1>2 DEF CpuType
    <3>2. rip[1] = "user" /\ rip[2] = 0
      BY <1>5 DEF I!Code
    <3> QED BY <1>6, <3>1, <3>2, Zenon DEF I!Entered
  <2>2. /\ I!Number(m) \in Word /\ <<"off", "rflags", 0>> \in Word
        /\ <<"user", "rip", 0>> \in Word
    <3>1. m \in Int /\ 0 \in Int
      BY StartupAssumption DEF I!Constants
    <3>2. "user" \in AboveCode \union BottomCode
      BY DEF BottomCode
    <3> QED BY <3>1, <3>2, WordMade
  <2>3. \A g \in I!Registers : regs[g] \in Word
    BY <1>2 DEF CpuType
  <2> HIDE DEF r
  <2>4. r \in [I!Registers -> Word]
    BY <2>1, <2>2, <2>3
  <2>5. r["rcx"] = <<"user", "rip", 0>> /\ r["r11"] = <<"off", "rflags", 0>>
    BY <1>8, <2>1
  <2>6. \A g \in KeptByCall : r[g] = <<"user", g, 0>>
    BY <1>5, <2>1 DEF KeptByCall
  <2> QED BY <2>4, <2>5, <2>6
<1> HIDE DEF r
<1>10. /\ b \in Seq(Word) /\ Len(b) = 7 /\ x \in Seq(Word) /\ Len(x) = 15
       /\ \A j \in 1 .. 15 : x[j] = r[I!SaveOrder[j]]
  BY <1>9, BlankWords
<1> HIDE DEF b, x
<1>11. /\ stack' \in Seq(Word) /\ Len(stack') = 22
       /\ \A j \in 1 .. 15 : stack'[7 + j] = x[j]
  <2>1. stack' = b \o x
    BY <1>1, <1>7, <1>10, ConcatEmptySeq
  <2>2. b \in Seq(Word) /\ x \in Seq(Word) /\ Len(b) = 7 /\ Len(x) = 15
    BY <1>10
  <2>3. /\ b \o x \in Seq(Word) /\ Len(b \o x) = Len(b) + Len(x)
        /\ \A j \in 1 .. Len(x) : (b \o x)[Len(b) + j] = x[j]
    <3>1. b \in Seq(Word) /\ x \in Seq(Word)
      BY <2>2
    <3> QED BY <3>1, ConcatPlaces
  <2>4. Len(b) + Len(x) = 22
    BY <2>2
  <2> QED BY <2>1, <2>2, <2>3, <2>4
<1>12. \/ rip' = I!Code("syscall")
       \/ rip' = I!Code("nowhere")
  BY <1>1
<1>13. CpuType'
  <2>1. rip' \in CodePlace
    BY <1>12 DEF I!Code, CodePlace, BottomCode
  <2>2. regs' \in [I!Registers -> Word]
    BY <1>1, HandlersHold
  <2> QED BY <1>1, <1>2, <1>11, <2>1, <2>2 DEF CpuType, Selectors
<1>14. Levels'
  <2>1. stack'[10] = <<"user", "rip", 0>> /\ stack'[17] = <<"off", "rflags", 0>>
    <3>1. I!SaveOrder[3] = "rcx" /\ I!SaveOrder[10] = "r11"
      BY DEF I!SaveOrder
    <3>2. /\ 3 \in 1 .. 15 /\ 10 \in 1 .. 15 /\ 7 + 3 = 10 /\ 7 + 10 = 17
      OBVIOUS
    <3>3. stack'[7 + 3] = x[3] /\ stack'[7 + 10] = x[10]
      BY <1>11, <3>2
    <3> QED BY <1>9, <1>10, <3>1, <3>2, <3>3
  <2>2. \A j \in 1 .. 15 : I!SaveOrder[j] \in KeptByCall =>
          stack'[7 + j] = <<"user", I!SaveOrder[j], 0>>
    BY ZenonT(60), <1>9, <1>10, <1>11
  <2>3. CodeAt(0)' = rip' /\ TopAt(0)' = 22
    BY <1>1, <1>4, <1>11 DEF CodeAt, TopAt
  <2>4. Bottom(CodeAt(0), TopAt(0), RegsAt(0), stack)'
    BY <1>12, <2>1, <2>2, <2>3 DEF Bottom
  <2> QED BY <1>1, <1>4, <2>4 DEF Levels
<1>15. FlagsSound'
  BY <1>1, <1>2, <1>6, FlagsKept
<1>16. ProgramSound'
  BY <1>1, <1>4, <1>12 DEF ProgramSound, CodeAt, I!Code, I!GDT_KERNEL_CODE,
                           I!SYSRET_CODE
<1> QED BY <1>1, <1>13, <1>14, <1>15, <1>16 DEF CpuInv, Reported, I!PanicTellsTruth

\* What sysretq and RESTORE_REGS find at the end of a call.
LEMMA CallFinds ==
  ASSUME CpuType, Levels, rip[1] = "syscall"
  PROVE  /\ taken = <<>> /\ I!Popped["rcx"] = <<"user", "rip", 0>>
         /\ I!Popped["r11"] = <<"off", "rflags", 0>>
         /\ \A r \in KeptByCall : I!Popped[r] = <<"user", r, 0>>
         /\ I!Rest(I!Drop) = <<>>
<1>1. rip[1] \in BottomCode
  BY DEF BottomCode
<1>2. taken = <<>> /\ Len(taken) = 0
  BY <1>1, OnTheBottom
<1>3. /\ Len(stack) = 22
      /\ \A n \in 1 .. 15 : I!SaveOrder[n] \in KeptByCall =>
           stack[7 + n] = <<"user", I!SaveOrder[n], 0>>
      /\ stack[10] = <<"user", "rip", 0>> /\ stack[17] = <<"off", "rflags", 0>>
  <2>1. Bottom(rip, Len(stack), regs, stack)
    BY <1>2 DEF Levels, CodeAt, TopAt, RegsAt
  <2>2. CASE rip = I!Code("kernel")
    BY <2>2 DEF I!Code
  <2>3. CASE rip = I!Code("user")
    BY <2>3 DEF I!Code
  <2> QED BY <2>1, <2>2, <2>3 DEF Bottom
<1>4. \A n \in 1 .. 15 : I!Popped[I!SaveOrder[n]] = stack[7 + n]
  <2>1. ASSUME NEW n \in 1 .. 15 PROVE I!Popped[I!SaveOrder[n]] = stack[7 + n]
    <3>1. I!Popped[I!SaveOrder[n]] = stack[Len(stack) - (16 - n) + 1]
      BY PoppedWords
    <3>2. Len(stack) - (16 - n) + 1 = 7 + n
      BY <1>3
    <3> QED BY <3>1, <3>2
  <2> QED BY <2>1
<1>5. I!Popped["rcx"] = stack[10] /\ I!Popped["r11"] = stack[17]
  <2>1. I!SaveOrder[3] = "rcx" /\ I!SaveOrder[10] = "r11"
    BY DEF I!SaveOrder
  <2>2. /\ 3 \in 1 .. 15 /\ 10 \in 1 .. 15 /\ 7 + 3 = 10 /\ 7 + 10 = 17
    OBVIOUS
  <2>3. /\ I!Popped[I!SaveOrder[3]] = stack[7 + 3]
        /\ I!Popped[I!SaveOrder[10]] = stack[7 + 10]
    BY <1>4, <2>2
  <2> QED BY <2>1, <2>2, <2>3
<1>6. ASSUME NEW r \in KeptByCall PROVE I!Popped[r] = <<"user", r, 0>>
  <2>1. PICK n \in 1 .. 15 : r = I!SaveOrder[n]
    BY SavedRegisters DEF KeptByCall
  <2> QED BY <1>3, <1>4, <2>1
<1>7. I!Rest(I!Drop) = <<>>
  <2>1. I!Drop = 22
    BY SavedRegisters DEF I!Drop
  <2>2. I!Rest(22) = SubSeq(stack, 1, 22 - 22)
    BY <1>3 DEF I!Rest
  <2>3. SubSeq(stack, 1, 0) = <<>>
    BY SubSeqEmpty
  <2>4. 22 - 22 = 0
    OBVIOUS
  <2> QED BY <2>1, <2>2, <2>3, <2>4
<1> QED BY <1>2, <1>3, <1>5, <1>6, <1>7

LEMMA CallReturns ==
  ASSUME CpuType, Levels, I!Sysret
  PROVE  /\ irq_stage = "run" /\ irq_stage' = "run" /\ taken' = <<>>
         /\ rip' = I!Code("user") /\ stack' = <<>> /\ flags' = "off"
         /\ selector' = I!SYSRET_CODE /\ regs' \in [I!Registers -> Word]
         /\ \A r \in KeptByCall : regs'[r] = <<"user", r, 0>>
<1>1. /\ irq_stage = "run" /\ irq_stage' = "run" /\ rip[1] = "syscall"
      /\ regs' = [I!Popped EXCEPT !["rax"] = <<"handler", "rax", 0>>]
      /\ rip' = I!RipOf(I!Popped["rcx"]) /\ flags' = I!Popped["r11"][1]
      /\ stack' = I!Rest(I!Drop) /\ taken' = taken /\ selector' = I!SYSRET_CODE
  BY DEF I!Sysret, I!At
<1>2. /\ taken = <<>> /\ I!Popped["rcx"] = <<"user", "rip", 0>>
      /\ I!Popped["r11"] = <<"off", "rflags", 0>>
      /\ \A r \in KeptByCall : I!Popped[r] = <<"user", r, 0>>
      /\ I!Rest(I!Drop) = <<>>
  BY <1>1, CallFinds
<1>3. rip' = I!Code("user") /\ flags' = "off"
  BY <1>1, <1>2 DEF I!RipOf, I!Code
<1>4. I!Popped \in [I!Registers -> Word]
  <2>1. ASSUME NEW r \in I!Registers PROVE I!Popped[r] \in Word
    <3>1. PICK n \in 1 .. 15 : r = I!SaveOrder[n]
      BY SavedRegisters
    <3>2. Len(stack) = 22 /\ stack \in Seq(Word)
      <4>1. rip = I!Code("syscall") \/ rip # I!Code("syscall")
        OBVIOUS
      <4>2. Bottom(rip, Len(stack), regs, stack)
        <5>1. Len(taken) = 0
          BY <1>2
        <5> QED BY <5>1 DEF Levels, CodeAt, TopAt, RegsAt
      <4>3. rip # I!Code("kernel") /\ rip # I!Code("user")
        BY <1>1 DEF I!Code
      <4> QED BY <4>2, <4>3 DEF Bottom, CpuType
    <3>3. I!Popped[r] = stack[Len(stack) - (16 - n) + 1]
      BY <3>1, PoppedWords
    <3>4. Len(stack) - (16 - n) + 1 \in 1 .. Len(stack)
      BY <3>2
    <3> DEFINE place == Len(stack) - (16 - n) + 1
    <3>5. stack[place] \in Word
      <4> HIDE DEF place
      <4> QED BY <3>2, <3>4, ElementOfSeq DEF place
    <3> QED BY <3>3, <3>5
  <2>2. I!Popped = [r \in I!Registers |-> I!Popped[r]]
    BY DEF I!Popped
  <2> QED BY <2>1, <2>2
<1>5. regs' = [r \in I!Registers |-> IF r = "rax" THEN <<"handler", "rax", 0>>
                                     ELSE I!Popped[r]]
  BY <1>1, <1>4
<1>6. I!Holds("handler")["rax"] = <<"handler", "rax", 0>> /\ "rax" \in I!Registers
  <2>1. I!SaveOrder[1] = "rax" /\ 1 \in 1 .. 15
    BY DEF I!SaveOrder
  <2>2. "rax" \in I!Registers
    BY <2>1, SavedRegisters
  <2> QED BY <2>2 DEF I!Holds
<1>7. <<"handler", "rax", 0>> \in Word
  BY <1>6, HandlersHold
<1>8. regs' \in [I!Registers -> Word]
  BY <1>4, <1>5, <1>7
<1>9. \A r \in KeptByCall : regs'[r] = <<"user", r, 0>>
  BY <1>2, <1>5 DEF KeptByCall
<1> QED BY <1>1, <1>2, <1>3, <1>8, <1>9

LEMMA CpuReturnsToCaller ==
  ASSUME CpuInv, I!Sysret
  PROVE  CpuInv'
<1>1. /\ irq_stage = "run" /\ irq_stage' = "run" /\ taken' = <<>>
      /\ rip' = I!Code("user") /\ stack' = <<>> /\ flags' = "off"
      /\ selector' = I!SYSRET_CODE /\ regs' \in [I!Registers -> Word]
      /\ \A r \in KeptByCall : regs'[r] = <<"user", r, 0>>
  BY CallReturns DEF CpuInv
<1>2. /\ stack' \in Seq(Word) /\ taken' \in Seq(Frame)
      /\ Len(stack') = 0 /\ Len(taken') = 0
  BY <1>1, EmptySeq
<1>3. CpuType'
  <2>1. rip' \in CodePlace
    BY <1>1 DEF I!Code, CodePlace, BottomCode
  <2> QED BY <1>1, <1>2, <2>1 DEF CpuType, Selectors
<1>4. Levels'
  <2>1. /\ CodeAt(0)' = I!Code("user") /\ TopAt(0)' = 0 /\ RegsAt(0)' = regs'
    BY <1>1, <1>2 DEF CodeAt, TopAt, RegsAt
  <2>2. Bottom(CodeAt(0), TopAt(0), RegsAt(0), stack)'
    BY <1>1, <2>1 DEF Bottom
  <2> QED BY <1>2, <2>2 DEF Levels
<1>5. FlagsSound'
  BY <1>1, <1>2 DEF FlagsSound, Irqs
<1>6. ProgramSound'
  BY <1>1, <1>2 DEF ProgramSound, CodeAt, I!Code
<1> QED BY <1>1, <1>3, <1>4, <1>5, <1>6 DEF CpuInv, Reported, I!PanicTellsTruth

-----------------------------------------------------------------------------
(***************************************************************************)
(* Every step of the machine keeps the invariant.                          *)
(***************************************************************************)
LEMMA CpuStep ==
  ASSUME CpuInv, IrqTables, [Next]_vars
  PROVE  CpuInv'
<1>1. CASE UNCHANGED ivars
  BY <1>1, CpuStutters
<1> SUFFICES ASSUME I!Next PROVE CpuInv'
  BY <1>1, InterruptSteps
<1>2. CASE I!EnableTraps \/ I!EnableApic
  BY <1>2, CpuUntouched DEF I!EnableTraps, I!EnableApic, Early
<1>3. CASE I!EnableIdt
  BY <1>3, CpuEnabled
<1>4. ASSUME NEW p \in machine.raised, I!Raise(p)
      PROVE  CpuInv'
  BY <1>4, CpuUntouched DEF I!Raise, I!tables, Early
<1>5. ASSUME NEW v \in Faults, I!Fault(v)
      PROVE  CpuInv'
  <2>1. v \in I!Traps
    BY StartupAssumption DEF I!Constants
  <2>2. CASE irq_stage = "run"
    BY <1>5, <2>1, <2>2, CpuFaults DEF I!Fault, I!tables
  <2>3. CASE irq_stage # "run"
    BY <1>5, <2>3, CpuUntouched DEF I!Fault, I!tables
  <2> QED BY <2>2, <2>3
<1>6. CASE I!NoGate \/ I!CallNowhere
  BY <1>6, CpuUntouched DEF I!NoGate, I!CallNowhere, I!tables
<1>7. CASE I!Interrupt
  BY <1>7, CpuInterrupted
<1>8. ASSUME NEW m \in Calls, I!Syscall(m)
      PROVE  CpuInv'
  BY <1>8, CpuCalls
<1>9. CASE I!Stub
  BY <1>9, CpuStub
<1>10. CASE I!Shim
  BY <1>10, CpuShim
<1>11. CASE I!Panic
  BY <1>11, CpuPanics
<1>12. CASE I!IrqHandler \/ I!ModuleReturns
  BY <1>12, CpuEnds
<1>13. CASE I!Return
  BY <1>13, CpuReturns
<1>14. CASE I!StartUser
  BY <1>14, CpuStartsUser
<1>15. CASE I!Sysret
  BY <1>15, CpuReturnsToCaller
<1>16. CASE I!CallModule
  BY <1>16, CpuCallsModule
<1>17. CASE I!IretFaults
  BY <1>17, CpuIretFaults
<1>18. ASSUME NEW v \in Ints, I!SoftInterrupt(v)
       PROVE  CpuInv'
  BY <1>18, CpuSoft
<1>19. ASSUME NEW v \in Registrations, I!RegisterIrqHandler(v)
       PROVE  CpuInv'
  BY <1>19, CpuRegisters
<1> QED BY <1>2, <1>3, <1>4, <1>5, <1>6, <1>7, <1>8, <1>9, <1>10, <1>11, <1>12,
           <1>13, <1>14, <1>15, <1>16, <1>17, <1>18, <1>19 DEF I!Next, I!Kernel

InterruptInv == AcpiType /\ IrqTables /\ CpuInv

(***************************************************************************)
(* The invariant of interrupts: each level of handling on the stack is as  *)
(* far as its code says, with what it saved in its place                   *)
(* (entry_shim.S, int_shim.h, sysentry.S).                                 *)
(***************************************************************************)
THEOREM InterruptsInductive == Spec => []InterruptInv
<1>1. Init => InterruptInv
  BY AcpiTypeInit, IrqTablesInit, CpuInit DEF InterruptInv
<1>2. InterruptInv /\ [Next]_vars => InterruptInv'
  BY AcpiTypeStep, IrqTablesStep, CpuStep DEF InterruptInv
<1> QED BY <1>1, <1>2, PTL DEF Spec

(***************************************************************************)
(* However exceptions and interrupts nest, what was interrupted goes on    *)
(* where it was, with its registers, its flags and its stack, and iretq    *)
(* finds its selector (entry_shim.S:78-90, int_shim.h:6-42).               *)
(***************************************************************************)
THEOREM ResumesAlways == Spec => []InterruptedResumes
<1>1. InterruptInv => InterruptedResumes
  BY ReturnFinds DEF InterruptInv, CpuInv, InterruptedResumes, I!InterruptedResumes,
                     I!At
<1> QED BY <1>1, InterruptsInductive, PTL

(***************************************************************************)
(* A panic names the vector, and where and with which code it was raised,  *)
(* but for the double fault of the processor and an int of a program for a *)
(* vector with a code (exception_handlers.c:6-21, register_handler.c:71).  *)
(***************************************************************************)
THEOREM PanicsTell == Spec => []PanicTellsTruth
<1>1. InterruptInv => PanicTellsTruth
  BY DEF InterruptInv, CpuInv, Reported, PanicTellsTruth
<1> QED BY <1>1, InterruptsInductive, PTL

(***************************************************************************)
(* At most one interrupt is handled at a time; while a program, or a       *)
(* system call of it, runs, only one that the program asked for with int,  *)
(* the only kind for which a module's handler runs and of which the return *)
(* is refused (exec_process.c:99, enable_syscalls.S:21-23).                *)
(***************************************************************************)
LEMMA AtMostOne ==
  ASSUME NEW T, \A x, y \in T : x = y
  PROVE  Cardinality(T) <= 1
<1>1. CASE T = {}
  BY <1>1, FS_EmptySet
<1>2. CASE T # {}
  <2>1. PICK x \in T : TRUE
    BY <1>2
  <2>2. T = {x}
    BY <2>1
  <2>3. Cardinality(T) = 1
    BY <2>2, FS_Singleton
  <2> QED BY <2>3
<1> QED BY <1>1, <1>2

THEOREM NoInterruptNests == Spec => []RunsUninterrupted
<1>1. ASSUME InterruptInv PROVE RunsUninterrupted
  <2>1. /\ Len(taken) \in Nat /\ DOMAIN taken = 1 .. Len(taken) /\ FlagsSound
    BY <1>1, FramesTyped DEF InterruptInv, CpuInv, CpuType
  <2>2. I!NoNesting
    <3>1. {j \in DOMAIN taken : taken[j].irq \in I!IrqGates} = Irqs
      BY <2>1 DEF Irqs
    <3>2. Cardinality(Irqs) <= 1
      BY <2>1, AtMostOne DEF FlagsSound
    <3>3. I!Cardinality(Irqs) = Cardinality(Irqs)
      BY DEF I!Cardinality, Cardinality
    <3>4. I!Cardinality(Irqs) <= 1
      BY <3>2, <3>3
    <3> QED BY <3>1, <3>4 DEF I!NoNesting
  <2>3. ASSUME NEW j \in DOMAIN taken, taken[j].rip[1] \in {"user", "syscall"},
               NEW h \in j .. Len(taken), taken[h].irq \in I!IrqGates
        PROVE  taken[h].soft
    <3>1. h \in Irqs /\ j \in 1 .. h
      BY <2>1, <2>3 DEF Irqs
    <3>2. taken[j].rip[1] \notin OfKernel
      BY <2>3 DEF OfKernel, TrapCode
    <3> QED BY <2>1, <3>1, <3>2 DEF FlagsSound
  <2>4. ASSUME rip[1] = "module" PROVE I!Last(taken).soft
    <3> DEFINE t == taken[Len(taken)]
    <3>1. I!Last(taken) = t /\ InHandler(t, rip, Len(stack), stack)
      BY <1>1, <2>4, HandlerStack DEF InterruptInv, CpuInv
    <3> HIDE DEF t
    <3> QED BY <2>4, <3>1, HandlerCode
  <2>5. \A j \in DOMAIN taken : taken[j].rip[1] = "iret" => taken[j - 1].soft
    BY <2>1 DEF FlagsSound
  <2> QED BY <2>2, <2>3, <2>4, <2>5 DEF RunsUninterrupted, I!RunsUninterrupted
<1> QED BY <1>1, InterruptsInductive, PTL

(***************************************************************************)
(* A system call returns to its program, with the registers, the flags and *)
(* the stack that it had (sysentry.S:8-20).                                *)
(***************************************************************************)
LEMMA SysretResumes ==
  ASSUME InterruptInv, [Next]_vars
  PROVE  [I!ResumesCaller]_ivars
<1> SUFFICES ASSUME I!Next, I!At("syscall"), rip' # rip, taken' = taken
             PROVE  I!ResumesCaller
  BY InterruptSteps DEF I!ResumesCaller
<1>1. irq_stage = "run" /\ rip[1] = "syscall" /\ rip[1] \in BottomCode
  BY DEF I!At, BottomCode
<1>2. taken = <<>>
  BY <1>1, OnTheBottom DEF InterruptInv, CpuInv
<1>3. flags = "off"
  <2>1. flags # "on"
    BY <1>1 DEF InterruptInv, CpuInv, FlagsSound, OfKernel, TrapCode
  <2> QED BY <2>1 DEF InterruptInv, CpuInv, CpuType
<1>4. CASE I!Sysret
  BY <1>3, <1>4, CallReturns DEF InterruptInv, CpuInv, I!ResumesCaller, KeptByCall
<1>5. ASSUME NEW v \in I!Gates, I!Deliver(v)
      PROVE  FALSE
  BY <1>5 DEF I!Deliver, I!Follow, InterruptInv, CpuInv, CpuType
<1>6. CASE I!Interrupt
  <2>1. flags = "on"
    BY <1>6 DEF I!Interrupt
  <2> QED BY <1>3, <2>1
<1>7. ASSUME NEW v \in Faults, I!Fault(v)
      PROVE  FALSE
  <2>1. v \in I!Gates
    BY StartupAssumption DEF I!Constants, I!Traps, I!Gates
  <2>2. I!Deliver(v)
    BY <1>1, <1>7 DEF I!Fault
  <2> QED BY <1>5, <2>1, <2>2
<1>8. CASE I!EnableTraps \/ I!EnableApic \/ I!EnableIdt
  BY <1>1, <1>8 DEF I!EnableTraps, I!EnableApic, I!EnableIdt
<1>9. CASE \/ I!Stub \/ I!Shim \/ I!Panic \/ I!IrqHandler \/ I!CallModule
           \/ I!ModuleReturns \/ I!Return \/ I!IretFaults \/ I!CallNowhere
           \/ I!StartUser
  BY <1>1, <1>9 DEF I!Stub, I!Shim, I!Panic, I!IrqHandler, I!CallModule,
                    I!ModuleReturns, I!Return, I!IretFaults, I!CallNowhere,
                    I!StartUser, I!At
<1>10. CASE I!NoGate
  BY <1>10 DEF I!NoGate, I!cpu
<1>11. ASSUME NEW p \in machine.raised, I!Raise(p)
       PROVE  FALSE
  BY <1>11 DEF I!Raise, I!cpu
<1>12. ASSUME NEW m \in Calls, I!Syscall(m)
       PROVE  FALSE
  BY <1>1, <1>12 DEF I!Syscall, I!At
<1>13. ASSUME NEW v \in Ints, I!SoftInterrupt(v)
       PROVE  FALSE
  BY <1>1, <1>13 DEF I!SoftInterrupt, I!At
<1>14. ASSUME NEW v \in Registrations, I!RegisterIrqHandler(v)
       PROVE  FALSE
  BY <1>14 DEF I!RegisterIrqHandler, I!cpu
<1> QED BY <1>4, <1>6, <1>7, <1>8, <1>9, <1>10, <1>11, <1>12, <1>13, <1>14
        DEF I!Next, I!Kernel

THEOREM CallsResume == Spec => SyscallResumes
<1> QED BY InterruptsInductive, SysretResumes, PTL DEF Spec, SyscallResumes
=============================================================================
