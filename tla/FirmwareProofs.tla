---------------------------- MODULE FirmwareProofs ----------------------------
(***************************************************************************)
(* What the kernel makes of what it is told, for every firmware, kernel    *)
(* and memory map: the search finds the first root pointer, the walk of    *)
(* the MADT records every structure once and never leaves the table, and,  *)
(* where the code's numbers for them are wide enough, each legacy          *)
(* interrupt arrives from its pin at the vector of its number.  The first  *)
(* 512 GiB of the direct map and the TSS are where the kernel computes     *)
(* them, the list of the memory map fits its array, and on a PC the arena  *)
(* is a part of the memory that the kernel is not in, and no other has     *)
(* more; but it reaches past the kernel's region if it is of that.         *)
(***************************************************************************)
EXTENDS StartupProofs

-----------------------------------------------------------------------------
(***************************************************************************)
(* The search.  What has been passed has no pointer.                       *)
(***************************************************************************)
Searched ==
  /\ acpi_stage \in {"ebda", "bios"} => xsdp = -1 /\ check \in Nat
  /\ acpi_stage = "ebda" =>
       /\ check >= firmware.ebda
       /\ \A p \in A!Where(firmware) : A!InEbda(firmware, p) => p >= check
  /\ acpi_stage = "bios" =>
       /\ check >= BIOS_BEGIN
       /\ \A p \in A!Where(firmware) : ~A!InEbda(firmware, p) /\ p >= check
  /\ acpi_stage \notin {"ebda", "bios", "panic"} => xsdp # -1

LEMMA FirmwareTyped ==
  ASSUME AcpiType
  PROVE  /\ firmware.ebda \in Nat /\ DOMAIN firmware.xsdps \subseteq Nat
         /\ EBDA_MAX \in Nat /\ BIOS_BEGIN \in Nat /\ BIOS_END \in Nat
         /\ SLOTS \in Nat
  BY StartupAssumption DEF A!Constants, AcpiType

LEMMA SearchInit ==
  ASSUME Init
  PROVE  Searched /\ A!PointerFound
<1>1. A!Init /\ AcpiType
  BY AcpiTypeInit DEF Init
<1>2. \A p \in A!Where(firmware) :
        A!InEbda(firmware, p) => p >= firmware.ebda
  BY <1>1, FirmwareTyped DEF A!InEbda
<1>3. xsdp = -1 /\ check = firmware.ebda /\ acpi_stage = "ebda"
  BY <1>1 DEF A!Init
<1> QED BY <1>1, <1>2, <1>3, FirmwareTyped DEF Searched, A!PointerFound

LEMMA SearchStep ==
  ASSUME AcpiType, Searched, A!PointerFound, [Next]_vars
  PROVE  Searched' /\ A!PointerFound'
<1>1. CASE UNCHANGED <<avars, lists>>
  BY <1>1 DEF Searched, A!PointerFound, A!Where, A!InEbda, A!Before, avars, lists
<1> SUFFICES ASSUME A!Next PROVE Searched' /\ A!PointerFound'
  BY <1>1, AcpiSteps
<1>2. /\ firmware.ebda \in Nat /\ DOMAIN firmware.xsdps \subseteq Nat
      /\ EBDA_MAX \in Nat /\ BIOS_BEGIN \in Nat /\ BIOS_END \in Nat
  BY FirmwareTyped
<1> USE DEF A!Where, A!InEbda, A!found
<1>3. CASE A!FoundXsdp
  <2>1. /\ check \in Nat /\ check \in A!Where(firmware)
        /\ \A p \in A!Where(firmware) : p \in Nat
        /\ xsdp' = check /\ firmware' = firmware
        /\ acpi_stage \in {"ebda", "bios"} /\ acpi_stage' = "table"
    BY <1>2, <1>3 DEF A!FoundXsdp, A!AreaEnds, A!IsXsdp, Searched
  <2>2. ASSUME NEW p \in A!Where(firmware) PROVE ~A!Before(firmware, p, check)
    <3>1. CASE acpi_stage = "ebda"
      <4>1. A!InEbda(firmware, check)
        BY <1>2, <1>3, <2>1, <3>1 DEF A!FoundXsdp, A!AreaEnds, Searched
      <4>2. A!InEbda(firmware, p) => p >= check
        BY <2>2, <3>1 DEF Searched
      <4>3. p \in Nat /\ A!InEbda(firmware, p) \in BOOLEAN
              /\ A!InEbda(firmware, check) \in BOOLEAN
        BY <2>1, <2>2
      <4>4. CASE A!InEbda(firmware, p)
        <5>1. ~(p < check)
          BY <2>1, <4>2, <4>3, <4>4
        <5>2. A!InEbda(firmware, p) = A!InEbda(firmware, check)
          <6> HIDE DEF A!InEbda, A!Where
          <6> QED BY <4>1, <4>3, <4>4
        <5> QED BY <5>1, <5>2 DEF A!Before
      <4>5. CASE ~A!InEbda(firmware, p)
        <5>1. A!InEbda(firmware, p) # A!InEbda(firmware, check)
          <6> HIDE DEF A!InEbda, A!Where
          <6> QED BY <4>1, <4>5
        <5> QED BY <4>5, <5>1 DEF A!Before
      <4> QED BY <4>4, <4>5
    <3>2. CASE acpi_stage = "bios"
      <4>1. \A q \in A!Where(firmware) : ~A!InEbda(firmware, q) /\ q >= check
        BY <3>2 DEF Searched
      <4> HIDE DEF A!InEbda, A!Where
      <4> QED BY <2>1, <2>2, <4>1 DEF A!Before
    <3> QED BY <2>1, <3>1, <3>2
  <2>3. A!PointerFound'
    <3>1. /\ acpi_stage' # "panic" /\ xsdp' \in A!Where(firmware')
          /\ \A p \in A!Where(firmware') : ~A!Before(firmware', p, xsdp')
      <4> HIDE DEF A!InEbda, A!Where
      <4> QED BY <2>1, <2>2
    <3> QED BY <3>1 DEF A!PointerFound
  <2> QED BY <2>1, <2>3 DEF Searched
<1>4. CASE A!SearchOn
  <2>1. \A p \in A!Where(firmware) : p # check /\ p \in Nat
    BY <1>2, <1>4 DEF A!SearchOn, A!IsXsdp
  <2> QED BY <1>2, <1>4, <2>1 DEF A!SearchOn, Searched, A!PointerFound
<1>5. CASE A!SearchBios
  <2>1. \A p \in A!Where(firmware) : ~A!InEbda(firmware, p)
    BY <1>2, <1>5 DEF A!SearchBios, A!AreaEnds, Searched
  <2>2. \A p \in A!Where(firmware) : p >= BIOS_BEGIN
    BY <1>2, <2>1
  <2> QED BY <1>2, <1>5, <2>1, <2>2
          DEF A!SearchBios, A!NextArea, Searched, A!PointerFound
<1>6. CASE A!NoXsdp
  <2>1. A!Where(firmware) = {}
    BY <1>2, <1>6 DEF A!NoXsdp, A!AreaEnds, Searched
  <2> QED BY <1>6, <2>1 DEF A!NoXsdp, Searched, A!PointerFound
<1>7. CASE \/ A!UnknownVersion \/ A!FoundMadt \/ A!NoMadt \/ A!MadtIoapic
           \/ A!MadtLapic \/ A!MadtIso \/ A!MadtOverride \/ A!MadtOther
           \/ A!Overrun \/ A!RunsOn \/ A!MadtDone
  <2>1. /\ UNCHANGED <<firmware, xsdp>>
        /\ acpi_stage \in {"table", "madt"}
        /\ acpi_stage' \in {"panic", "madt", "reset", "wild", "done"}
    BY <1>7 DEF A!UnknownVersion, A!FoundMadt, A!NoMadt, A!MadtIoapic, A!MadtLapic,
         A!MadtIso, A!MadtOverride, A!MadtOther, A!Overrun, A!RunsOn, A!MadtDone,
         A!Inside
  <2> QED BY <2>1 DEF Searched, A!PointerFound, A!Before
<1> QED BY <1>3, <1>4, <1>5, <1>6, <1>7 DEF A!Next

-----------------------------------------------------------------------------
(***************************************************************************)
(* The sums and picks of a table, and what they tell of its parts.         *)
(***************************************************************************)
LEMMA SumsAgree ==
  ASSUME NEW es \in Seq(A!Structure), NEW m \in 0 .. Len(es),
         NEW f, SumsOf(es, f), NEW g, SumsOf(SubSeq(es, 1, m), g)
  PROVE  g[m] = f[m]
<1> DEFINE part == SubSeq(es, 1, m)
           Good == {j \in 0 .. m : g[j] = f[j]}
<1>1. /\ Len(es) \in Nat /\ m \in Nat /\ m <= Len(es)
      /\ Len(part) = m /\ \A j \in 1 .. m : part[j] = es[j]
  BY SubSeqProperties
<1>2. 0 \in Good
  BY <1>1 DEF SumsOf
<1>3. ASSUME NEW j \in 0 .. m - 1, j \in Good PROVE j + 1 \in Good
  <2>1. j + 1 \in 1 .. m /\ j + 1 \in 1 .. Len(es) /\ j + 1 \in 0 .. m
        /\ (j + 1) - 1 = j
    BY <1>1
  <2>2. g[j + 1] = g[j] + part[j + 1].len /\ f[j + 1] = f[j] + es[j + 1].len
    <3> HIDE DEF part
    <3> QED BY <1>1, <2>1 DEF SumsOf
  <2> QED BY <1>1, <1>3, <2>1, <2>2
<1>4. \A j \in 0 .. m : j \in Good
  <2> HIDE DEF Good
  <2> QED BY <1>1, <1>2, <1>3, InductUpTo
<1> QED BY <1>1, <1>4

LEMMA PrefixSize ==
  ASSUME NEW es \in Seq(A!Structure), NEW m \in 0 .. Len(es), NEW f, SumsOf(es, f)
  PROVE  A!Size(SubSeq(es, 1, m)) = f[m]
<1> DEFINE part == SubSeq(es, 1, m)
<1>1. part \in Seq(A!Structure) /\ Len(part) = m
  BY SubSeqProperties
<1>2. PICK g : SumsOf(part, g) /\ A!Size(part) = g[Len(part)]
  <2> HIDE DEF part
  <2> QED BY <1>1, SizeTrace
<1> QED BY <1>1, <1>2, SumsAgree

LEMMA SumsGrow ==
  ASSUME NEW es \in Seq(A!Structure), NEW f, SumsOf(es, f),
         NEW m \in 0 .. Len(es), NEW j \in 0 .. m
  PROVE  /\ f[j] \in Nat /\ f[m] \in Nat /\ f[j] <= f[m]
         /\ (\A x \in 1 .. m : es[x].len > 0) /\ j < m => f[j] < f[m]
<1> DEFINE Good == {x \in 0 .. m :
              /\ j <= x => f[j] <= f[x]
              /\ (\A y \in 1 .. m : es[y].len > 0) /\ j < x => f[j] < f[x]}
<1>1. /\ Len(es) \in Nat /\ m \in Nat /\ m <= Len(es) /\ j \in Nat /\ j <= m
      /\ \A x \in 0 .. m : f[x] \in Nat
      /\ \A x \in 1 .. m : es[x].len \in Nat
  <2>1. \A x \in 1 .. Len(es) : es[x] \in A!Structure
    OBVIOUS
  <2>2. Len(es) \in Nat /\ \A x \in 1 .. Len(es) : es[x].len \in Nat
    BY <2>1, StructureTyped
  <2>3. \A x \in 0 .. Len(es) : f[x] \in Nat
    BY DEF SumsOf
  <2> QED BY <2>2, <2>3
<1>2. 0 \in Good
  <2>1. 0 \in 0 .. m /\ (j <= 0 => j = 0) /\ ~(j < 0)
    BY <1>1
  <2>2. f[0] \in Nat /\ f[0] <= f[0]
    BY <1>1, <2>1
  <2> QED BY <2>1, <2>2
<1>3. ASSUME NEW x \in 0 .. m - 1, x \in Good PROVE x + 1 \in Good
  <2>1. x + 1 \in 1 .. m /\ x + 1 \in 1 .. Len(es) /\ x + 1 \in 0 .. m
        /\ (x + 1) - 1 = x /\ x \in 0 .. m
    BY <1>1
  <2>2. f[x + 1] = f[x] + es[x + 1].len
    BY <2>1 DEF SumsOf
  <2>3. f[x] \in Nat /\ es[x + 1].len \in Nat /\ f[x + 1] \in Nat
    BY <1>1, <2>1
  <2>4. j <= x + 1 => f[j] <= f[x + 1]
    BY <1>1, <1>3, <2>2, <2>3
  <2>5. ASSUME \A y \in 1 .. m : es[y].len > 0, j < x + 1
        PROVE  f[j] < f[x + 1]
    <3>1. es[x + 1].len > 0
      BY <2>1, <2>5
    <3>2. f[j] <= f[x]
      BY <1>1, <1>3, <2>5
    <3> QED BY <1>1, <2>2, <2>3, <3>1, <3>2
  <2> QED BY <2>1, <2>4, <2>5
<1>4. \A x \in 0 .. m : x \in Good
  <2> HIDE DEF Good
  <2> QED BY <1>1, <1>2, <1>3, InductUpTo
<1>5. m \in Good
  <2> HIDE DEF Good
  <2> QED BY <1>1, <1>4
<1> QED BY <1>1, <1>5

LEMMA PicksGrow ==
  ASSUME NEW es \in Seq(A!Structure), NEW type, NEW f, PicksOf(es, type, f),
         NEW n \in 0 .. Len(es), NEW m \in n .. Len(es)
  PROVE  /\ f[n] \in Seq(A!Structure) /\ f[m] \in Seq(A!Structure)
         /\ Len(f[n]) <= Len(f[m])
         /\ (\A x \in n + 1 .. m : es[x].type # type) => f[m] = f[n]
<1> DEFINE Good == {d \in 0 .. m - n :
              /\ Len(f[n]) <= Len(f[n + d])
              /\ (\A x \in n + 1 .. m : es[x].type # type) => f[n + d] = f[n]}
<1>1. /\ Len(es) \in Nat /\ m \in Nat /\ n \in Nat /\ n <= m /\ m <= Len(es)
      /\ \A x \in 0 .. Len(es) : f[x] \in Seq(A!Structure)
      /\ \A x \in 1 .. Len(es) : es[x] \in A!Structure
  BY DEF PicksOf
<1>2. 0 \in Good
  BY <1>1
<1>3. ASSUME NEW d \in 0 .. (m - n) - 1, d \in Good PROVE d + 1 \in Good
  <2> DEFINE x == n + d
  <2>1. /\ x + 1 \in n + 1 .. m /\ x + 1 \in 1 .. Len(es) /\ x \in 0 .. Len(es)
        /\ (x + 1) - 1 = x /\ d + 1 \in 0 .. m - n /\ n + (d + 1) = x + 1
    BY <1>1
  <2>2. f[x + 1] = IF es[x + 1].type = type THEN Append(f[x], es[x + 1]) ELSE f[x]
    <3> HIDE DEF x
    <3> QED BY <2>1 DEF PicksOf
  <2>3. f[x] \in Seq(A!Structure) /\ es[x + 1] \in A!Structure
        /\ f[n] \in Seq(A!Structure)
    <3> HIDE DEF x
    <3> QED BY <1>1, <2>1
  <2>4. Len(f[n]) <= Len(f[x])
        /\ ((\A y \in n + 1 .. m : es[y].type # type) => f[x] = f[n])
    BY <1>3
  <2>5. Len(f[x]) <= Len(f[x + 1])
    <3> HIDE DEF x
    <3> QED BY <2>2, <2>3
  <2>6. Len(f[n]) <= Len(f[x + 1])
    <3> HIDE DEF x
    <3>1. Len(f[n]) \in Nat /\ Len(f[x]) \in Nat /\ Len(f[x + 1]) \in Nat
      BY <2>2, <2>3
    <3> QED BY <2>4, <2>5, <3>1
  <2>7. (\A y \in n + 1 .. m : es[y].type # type) => f[x + 1] = f[n]
    <3> HIDE DEF x
    <3> QED BY <2>1, <2>2, <2>4
  <2> HIDE DEF x
  <2> QED BY <2>1, <2>6, <2>7
<1>4. \A d \in 0 .. m - n : d \in Good
  <2> HIDE DEF Good
  <2>1. m - n \in Nat
    BY <1>1
  <2> QED BY <1>2, <1>3, <2>1, InductUpTo
<1>5. m - n \in Good /\ n + (m - n) = m
  <2> HIDE DEF Good
  <2>1. m - n \in 0 .. m - n /\ n + (m - n) = m
    BY <1>1
  <2> QED BY <1>4, <2>1
<1> QED BY <1>1, <1>5

-----------------------------------------------------------------------------
(***************************************************************************)
(* The walk.  It is behind the first n structures, and each list has what  *)
(* it is given of them.                                                    *)
(***************************************************************************)
Whole(es, s, a, b, c) ==
  /\ SumsOf(es, s) /\ A!Size(es) = s[Len(es)]
  /\ PicksOf(es, A!PROC_LOCALAPIC, a)
  /\ A!Picked(es, A!PROC_LOCALAPIC) = a[Len(es)]
  /\ PicksOf(es, A!IOAPIC, b) /\ A!Picked(es, A!IOAPIC) = b[Len(es)]
  /\ PicksOf(es, A!IOAPIC_ISO, c) /\ A!Picked(es, A!IOAPIC_ISO) = c[Len(es)]
Processors(kept, es) ==
  /\ Len(kept) = Len(es)
  /\ \A j \in 1 .. Len(kept) : kept[j] = es[j].id
Ioapics(kept, es) ==
  /\ Len(kept) = Len(es)
  /\ \A j \in 1 .. Len(kept) : kept[j].id = es[j].id /\ kept[j].base = es[j].gsid
LegacyMaps(kept, es) ==
  /\ Len(kept) = Len(es)
  /\ \A j \in 1 .. Len(kept) :
       kept[j].irq = es[j].irq /\ kept[j].gsi = es[j].gsi % 256
Listed(n, a, b, c) ==
  Processors(lapics, a[n]) /\ Ioapics(ioapics, b[n]) /\ LegacyMaps(legacymaps, c[n])
WalkedTo(n, s) ==
  /\ n \in 0 .. Len(madt.entries) /\ acpi_i = s[n]
  /\ \A j \in 1 .. n : madt.entries[j].len > 0
Walked == \E n, s, a, b, c : /\ Whole(madt.entries, s, a, b, c)
                             /\ WalkedTo(n, s) /\ Listed(n, a, b, c)
Fits == /\ Len(lapics) <= SLOTS /\ Len(ioapics) <= SLOTS
        /\ Len(legacymaps) <= SLOTS
BeforeMadt == acpi_stage \notin {"madt", "done", "wild"} => madt = A!NoTable

WalkInv == BeforeMadt /\ Walked /\ Fits /\ A!TableRecorded /\ A!StaysInTable

LEMMA WholeExists ==
  ASSUME NEW es \in Seq(A!Structure)
  PROVE  \E s, a, b, c : Whole(es, s, a, b, c)
<1>1. PICK s : SumsOf(es, s) /\ A!Size(es) = s[Len(es)]
  BY SizeTrace
<1>2. PICK a : /\ PicksOf(es, A!PROC_LOCALAPIC, a)
               /\ A!Picked(es, A!PROC_LOCALAPIC) = a[Len(es)]
  BY PickTrace
<1>3. PICK b : PicksOf(es, A!IOAPIC, b) /\ A!Picked(es, A!IOAPIC) = b[Len(es)]
  BY PickTrace
<1>4. PICK c : /\ PicksOf(es, A!IOAPIC_ISO, c)
               /\ A!Picked(es, A!IOAPIC_ISO) = c[Len(es)]
  BY PickTrace
<1> QED BY <1>1, <1>2, <1>3, <1>4 DEF Whole

\* The structure that the walk is at is the one after those it is behind.
LEMMA AtNext ==
  ASSUME madt \in A!SysTable, NEW n, NEW s, SumsOf(madt.entries, s), WalkedTo(n, s)
  PROVE  A!At = IF n < Len(madt.entries) THEN n + 1 ELSE 0
<1> DEFINE es == madt.entries
           L == Len(es)
           sizes == [j \in 1 .. L |-> A!Size(SubSeq(es, 1, j - 1))]
           T == {j \in 1 .. Len(sizes) : sizes[j] = acpi_i}
<1>1. es \in Seq(A!Structure) /\ L \in Nat /\ Len(sizes) = L
  BY DEF A!SysTable
<1>2. A!At = IF T # {} THEN Min(T) ELSE 0
  BY DEF A!At, A!SelectInSeq, A!Min, Min
<1>3. n \in 0 .. L /\ n \in Nat /\ n <= L /\ acpi_i = s[n]
      /\ \A x \in 1 .. n : es[x].len > 0
  BY <1>1 DEF WalkedTo
<1>4. ASSUME NEW j \in 1 .. L PROVE sizes[j] = s[j - 1]
  <2>1. j - 1 \in 0 .. L
    BY <1>1
  <2> HIDE DEF es, L
  <2>2. A!Size(SubSeq(es, 1, j - 1)) = s[j - 1]
    BY <1>1, <2>1, PrefixSize DEF es, L
  <2> QED BY <2>2
<1>5. ASSUME NEW j \in 0 .. n, j < n PROVE s[j] # s[n]
  <2> HIDE DEF es, L
  <2>1. s[j] < s[n] /\ s[j] \in Nat /\ s[n] \in Nat
    BY <1>1, <1>3, <1>5, SumsGrow DEF es, L
  <2> QED BY <2>1
<1>6. ASSUME NEW j \in 1 .. L, sizes[j] = acpi_i PROVE j >= n + 1
  <2> HIDE DEF es, L, sizes
  <2>1. s[j - 1] = s[n]
    BY <1>3, <1>4, <1>6
  <2>2. ~(j - 1 \in 0 .. n /\ j - 1 < n)
    BY <1>5, <2>1
  <2> QED BY <1>1, <1>3, <2>2
<1>7. CASE n < L
  <2> HIDE DEF es, L, sizes
  <2>1. n + 1 \in 1 .. L /\ (n + 1) - 1 = n
    BY <1>1, <1>3, <1>7
  <2>2. sizes[n + 1] = acpi_i
    BY <1>3, <1>4, <2>1
  <2>3. n + 1 \in T /\ T \subseteq 1 .. L
    BY <1>1, <2>1, <2>2
  <2>4. \A m \in T : m >= n + 1
    BY <1>1, <1>6
  <2> HIDE DEF T
  <2>5. Min(T) \in T /\ \A m \in T : Min(T) <= m
    BY <1>1, <2>3, FirstPlace
  <2>6. Min(T) = n + 1
    <3>1. Min(T) \in 1 .. L /\ Min(T) >= n + 1 /\ Min(T) <= n + 1
      BY <2>3, <2>4, <2>5
    <3> QED BY <1>1, <1>3, <3>1
  <2>7. A!At = n + 1
    BY <1>2, <2>3, <2>6
  <2> QED BY <1>7, <2>7 DEF L, es
<1>8. CASE n = L
  <2> HIDE DEF es, L, sizes
  <2>1. T = {}
    BY <1>1, <1>3, <1>6, <1>8
  <2> QED BY <1>2, <1>3, <1>8, <2>1 DEF L, es
<1> HIDE DEF es, L
<1> QED BY <1>1, <1>3, <1>7, <1>8

\* What the walk reads next, where there is more of the table.
LEMMA NextOf ==
  ASSUME madt \in A!SysTable, NEW n, NEW s, NEW a, NEW b, NEW c,
         Whole(madt.entries, s, a, b, c), WalkedTo(n, s), A!At # 0
  PROVE  /\ n + 1 \in 1 .. Len(madt.entries) /\ A!Header = madt.entries[n + 1]
         /\ A!Header \in A!Structure
         /\ n \in 0 .. Len(madt.entries) /\ n + 1 \in 0 .. Len(madt.entries)
         /\ s[n + 1] = s[n] + A!Header.len
         /\ a[n + 1] = IF A!Header.type = A!PROC_LOCALAPIC
                       THEN Append(a[n], A!Header) ELSE a[n]
         /\ b[n + 1] = IF A!Header.type = A!IOAPIC
                       THEN Append(b[n], A!Header) ELSE b[n]
         /\ c[n + 1] = IF A!Header.type = A!IOAPIC_ISO
                       THEN Append(c[n], A!Header) ELSE c[n]
<1> DEFINE es == madt.entries
<1>1. es \in Seq(A!Structure)
  BY DEF A!SysTable
<1>2. n \in 0 .. Len(es) /\ Len(es) \in Nat
  BY <1>1 DEF WalkedTo
<1>3. n < Len(es) /\ A!At = n + 1
  BY <1>2, AtNext DEF Whole
<1>4. n + 1 \in 1 .. Len(es) /\ n + 1 \in 0 .. Len(es) /\ (n + 1) - 1 = n
  <2> HIDE DEF es
  <2> QED BY <1>2, <1>3
<1>5. A!Header = es[n + 1] /\ A!Header \in A!Structure
  BY <1>1, <1>3, <1>4 DEF A!Header
<1>6. s[n + 1] = s[n] + es[n + 1].len
  <2> HIDE DEF es
  <2> QED BY <1>4 DEF SumsOf, Whole, es
<1>7. /\ a[n + 1] = IF es[n + 1].type = A!PROC_LOCALAPIC
                    THEN Append(a[n], es[n + 1]) ELSE a[n]
      /\ b[n + 1] = IF es[n + 1].type = A!IOAPIC
                    THEN Append(b[n], es[n + 1]) ELSE b[n]
      /\ c[n + 1] = IF es[n + 1].type = A!IOAPIC_ISO
                    THEN Append(c[n], es[n + 1]) ELSE c[n]
  <2> HIDE DEF es
  <2>1. /\ PicksOf(es, A!PROC_LOCALAPIC, a) /\ PicksOf(es, A!IOAPIC, b)
        /\ PicksOf(es, A!IOAPIC_ISO, c)
    BY DEF Whole, es
  <2> QED BY <1>4, <2>1 DEF PicksOf
<1> HIDE DEF es
<1> QED BY <1>2, <1>4, <1>5, <1>6, <1>7 DEF es

LEMMA PickTyped ==
  ASSUME madt \in A!SysTable, NEW n \in 0 .. Len(madt.entries), NEW s, NEW a,
         NEW b, NEW c, Whole(madt.entries, s, a, b, c)
  PROVE  /\ a[n] \in Seq(A!Structure) /\ b[n] \in Seq(A!Structure)
         /\ c[n] \in Seq(A!Structure)
  BY DEF Whole, PicksOf

\* A step with one structure more, or with none.
LEMMA WalkOn ==
  ASSUME madt \in A!SysTable, NEW n, NEW s, NEW a, NEW b, NEW c,
         Whole(madt.entries, s, a, b, c), WalkedTo(n, s), A!At # 0,
         madt' = madt, acpi_i' = acpi_i + A!Step,
         A!Header.len > 0 => Listed(n + 1, a, b, c)',
         A!Header.len = 0 => Listed(n, a, b, c)'
  PROVE  Walked'
<1>1. /\ n + 1 \in 1 .. Len(madt.entries) /\ A!Header = madt.entries[n + 1]
      /\ A!Header \in A!Structure /\ n + 1 \in 0 .. Len(madt.entries)
      /\ s[n + 1] = s[n] + A!Header.len
  BY NextOf
<1>2. /\ acpi_i = s[n] /\ n \in 0 .. Len(madt.entries)
      /\ \A j \in 1 .. n : madt.entries[j].len > 0
  BY DEF WalkedTo
<1>3. A!Header.len \in Nat
  BY <1>1, StructureTyped
<1>4. CASE A!Header.len > 0
  <2>1. acpi_i' = s[n + 1]
    BY <1>1, <1>2 DEF A!Step
  <2>2. \A j \in 1 .. n + 1 : madt.entries[j].len > 0
    <3>1. \A j \in 1 .. n + 1 : j \in 1 .. n \/ j = n + 1
      BY <1>2
    <3> QED BY <1>1, <1>2, <1>4, <3>1
  <2>3. WalkedTo(n + 1, s)'
    BY <1>1, <2>1, <2>2 DEF WalkedTo
  <2> QED BY <1>4, <2>3 DEF Walked
<1>5. CASE A!Header.len = 0
  <2>1. s[n] \in Nat
    BY <1>2 DEF Whole, SumsOf
  <2>2. WalkedTo(n, s)'
    BY <1>2, <1>5, <2>1 DEF A!Step, WalkedTo
  <2> QED BY <1>5, <2>2 DEF Walked
<1> QED BY <1>3, <1>4, <1>5

LEMMA ProcessorMore ==
  ASSUME NEW kept \in Seq(Nat), NEW es \in Seq(A!Structure),
         Processors(kept, es), NEW e \in A!Structure
  PROVE  Processors(Append(kept, e.id), Append(es, e))
BY StructureTyped DEF Processors

LEMMA IoapicMore ==
  ASSUME NEW kept \in Seq(Ioapic), NEW es \in Seq(A!Structure),
         Ioapics(kept, es), NEW e \in A!Structure
  PROVE  Ioapics(Append(kept, [id |-> e.id, regs |-> e.addr, base |-> e.gsid]),
                 Append(es, e))
<1> DEFINE x == [id |-> e.id, regs |-> e.addr, base |-> e.gsid]
<1>1. x \in Ioapic /\ x.id = e.id /\ x.base = e.gsid
  BY StructureTyped DEF Ioapic
<1> HIDE DEF x
<1> QED BY <1>1 DEF Ioapics, x

LEMMA LegacyMore ==
  ASSUME NEW kept \in Seq(LegacyMap), NEW es \in Seq(A!Structure),
         LegacyMaps(kept, es), NEW e \in A!Structure
  PROVE  LegacyMaps(Append(kept, [irq |-> e.irq, gsi |-> e.gsi % 256]),
                    Append(es, e))
<1> DEFINE x == [irq |-> e.irq, gsi |-> e.gsi % 256]
<1>1. x \in LegacyMap /\ x.irq = e.irq /\ x.gsi = e.gsi % 256
  BY StructureTyped DEF LegacyMap
<1> HIDE DEF x
<1> QED BY <1>1 DEF LegacyMaps, x

LEMMA NothingWalked ==
  ASSUME NEW es \in Seq(A!Structure), madt'.entries = es, acpi_i' = 0,
         lapics' = <<>>, ioapics' = <<>>, legacymaps' = <<>>
  PROVE  Walked'
<1>1. PICK s, a, b, c : Whole(es, s, a, b, c)
  BY WholeExists
<1>2. s[0] = 0 /\ a[0] = <<>> /\ b[0] = <<>> /\ c[0] = <<>>
  BY <1>1 DEF Whole, SumsOf, PicksOf
<1>3. WalkedTo(0, s)'
  <2>1. Len(es) \in Nat
    OBVIOUS
  <2> QED BY <1>2, <2>1 DEF WalkedTo
<1>4. Listed(0, a, b, c)'
  BY <1>2 DEF Listed, Processors, Ioapics, LegacyMaps
<1> QED BY <1>1, <1>3, <1>4 DEF Walked

LEMMA WalkInit ==
  ASSUME Init
  PROVE  WalkInv
<1>1. /\ acpi_stage = "ebda" /\ madt = A!NoTable /\ acpi_i = 0
      /\ lapics = <<>> /\ ioapics = <<>> /\ legacymaps = <<>>
  BY DEF Init, A!Init
<1>2. madt.entries = <<>> /\ madt.entries \in Seq(A!Structure)
  BY <1>1, EmptySeq DEF A!NoTable
<1>3. Walked
  <2>1. PICK s, a, b, c : Whole(madt.entries, s, a, b, c)
    BY <1>2, WholeExists
  <2>2. s[0] = 0 /\ a[0] = <<>> /\ b[0] = <<>> /\ c[0] = <<>>
    BY <2>1 DEF Whole, SumsOf, PicksOf
  <2>3. WalkedTo(0, s) /\ Listed(0, a, b, c)
    BY <1>1, <1>2, <2>2 DEF WalkedTo, Listed, Processors, Ioapics, LegacyMaps
  <2> QED BY <2>1, <2>3 DEF Walked
<1>4. Fits
  BY <1>1, StartupAssumption DEF Fits, A!Constants
<1> QED BY <1>1, <1>3, <1>4
        DEF WalkInv, BeforeMadt, A!TableRecorded, A!StaysInTable

\* At the end nothing is left that is recorded.
LEMMA AtTheEnd ==
  ASSUME AcpiType, NEW n, NEW s, NEW a, NEW b, NEW c,
         Whole(madt.entries, s, a, b, c), WalkedTo(n, s), A!Behind
  PROVE  /\ a[n] = a[Len(madt.entries)] /\ b[n] = b[Len(madt.entries)]
         /\ c[n] = c[Len(madt.entries)]
<1> DEFINE es == madt.entries
           L == Len(es)
<1>1. es \in Seq(A!Structure) /\ L \in Nat
  BY DEF AcpiType, A!SysTable
<1>2. n \in 0 .. L /\ n \in Nat /\ n <= L /\ L \in n .. L /\ acpi_i = s[n]
      /\ \A x \in 0 .. L : s[x] \in Nat
  BY <1>1 DEF WalkedTo, Whole, SumsOf
<1>3. acpi_i + 4 >= s[L]
  <2>1. A!Size(es) = s[L] /\ s[L] \in Nat /\ s[n] \in Nat
    BY <1>1, <1>2 DEF Whole
  <2> HIDE DEF es, L
  <2> QED BY <1>2, <2>1 DEF A!Behind, A!FIRST_HDR, A!SIZEOF_MADT, es
<1>4. ASSUME NEW x \in n + 1 .. L PROVE es[x].type \notin A!RecordedTypes
  <2>1. /\ x \in 1 .. L /\ x - 1 \in 0 .. L /\ x \in 0 .. L /\ n \in 0 .. x - 1
        /\ x \in 0 .. L /\ L \in 0 .. L
    BY <1>1, <1>2
  <2> HIDE DEF es, L
  <2>2. es[x] \in A!Structure
    BY <1>1, <2>1 DEF es, L
  <2>3. s[n] <= s[x - 1]
    BY <1>1, <1>2, <2>1, SumsGrow DEF es, L, Whole
  <2>4. s[x] <= s[L]
    BY <1>1, <1>2, <2>1, SumsGrow DEF es, L, Whole
  <2>5. s[x] = s[x - 1] + es[x].len
    BY <1>1, <2>1 DEF es, L, Whole, SumsOf
  <2>6. es[x].len < 6
    <3>1. /\ s[n] \in Nat /\ s[x - 1] \in Nat /\ s[x] \in Nat /\ s[L] \in Nat
          /\ es[x].len \in Nat
      BY <1>2, <2>1, <2>2, StructureTyped
    <3> QED BY <1>2, <1>3, <2>3, <2>4, <2>5, <3>1
  <2> QED BY <2>2, <2>6, StructureTyped
<1>5. \A x \in n + 1 .. L : /\ es[x].type # A!PROC_LOCALAPIC
                            /\ es[x].type # A!IOAPIC
                            /\ es[x].type # A!IOAPIC_ISO
  <2> HIDE DEF es, L
  <2> QED BY <1>4 DEF A!RecordedTypes
<1>6. /\ PicksOf(es, A!PROC_LOCALAPIC, a) /\ PicksOf(es, A!IOAPIC, b)
      /\ PicksOf(es, A!IOAPIC_ISO, c)
  BY DEF Whole
<1> HIDE DEF es
<1>7. a[L] = a[n]
  <2>1. \A x \in n + 1 .. L : es[x].type # A!PROC_LOCALAPIC
    BY <1>5
  <2> QED BY <1>1, <1>2, <1>6, <2>1, PicksGrow
<1>8. b[L] = b[n]
  <2>1. \A x \in n + 1 .. L : es[x].type # A!IOAPIC
    BY <1>5
  <2> QED BY <1>1, <1>2, <1>6, <2>1, PicksGrow
<1>9. c[L] = c[n]
  <2>1. \A x \in n + 1 .. L : es[x].type # A!IOAPIC_ISO
    BY <1>5
  <2> QED BY <1>1, <1>2, <1>6, <2>1, PicksGrow
<1> QED BY <1>7, <1>8, <1>9 DEF es

LEMMA WalkStep ==
  ASSUME AcpiType, WalkInv, [Next]_vars
  PROVE  WalkInv'
<1>1. CASE UNCHANGED <<avars, lists>>
  <2>1. /\ BeforeMadt' /\ Fits' /\ A!TableRecorded' /\ A!StaysInTable'
    BY <1>1 DEF WalkInv, BeforeMadt, Fits, A!TableRecorded, A!StaysInTable,
         A!OfType, avars, lists
  <2>2. Walked'
    BY <1>1 DEF WalkInv, Walked, WalkedTo, Listed, avars, lists
  <2> QED BY <2>1, <2>2 DEF WalkInv
<1> SUFFICES ASSUME A!Next PROVE WalkInv'
  BY <1>1, AcpiSteps
<1> USE DEF A!lists, A!found
<1>2. /\ BeforeMadt /\ Walked /\ Fits /\ A!TableRecorded /\ A!StaysInTable
      /\ madt \in A!SysTable /\ SLOTS \in Nat
  BY FirmwareTyped DEF WalkInv, AcpiType
<1>3. PICK n, s, a, b, c : /\ Whole(madt.entries, s, a, b, c)
                           /\ WalkedTo(n, s) /\ Listed(n, a, b, c)
  BY <1>2 DEF Walked
<1>4. n \in 0 .. Len(madt.entries)
  BY <1>3 DEF WalkedTo
<1>5. /\ a[n] \in Seq(A!Structure) /\ b[n] \in Seq(A!Structure)
      /\ c[n] \in Seq(A!Structure)
  BY <1>2, <1>3, <1>4, PickTyped
<1>6. CASE A!FoundXsdp \/ A!SearchOn \/ A!SearchBios \/ A!NoXsdp
             \/ A!UnknownVersion \/ A!NoMadt
  <2>1. /\ UNCHANGED <<madt, acpi_i, lapics, ioapics, legacymaps>>
        /\ acpi_stage \notin {"madt", "done", "wild"}
        /\ acpi_stage' \notin {"madt", "done", "wild"}
    BY <1>6 DEF A!FoundXsdp, A!SearchOn, A!SearchBios, A!NoXsdp, A!UnknownVersion,
         A!NoMadt
  <2>2. BeforeMadt' /\ Fits' /\ A!TableRecorded' /\ A!StaysInTable'
    BY <1>2, <2>1 DEF BeforeMadt, Fits, A!TableRecorded, A!StaysInTable
  <2>3. Walked'
    BY <1>2, <2>1 DEF Walked, WalkedTo, Listed
  <2> QED BY <2>2, <2>3 DEF WalkInv
<1>7. CASE A!FoundMadt
  <2>1. /\ acpi_stage = "table" /\ acpi_stage' = "madt"
        /\ UNCHANGED <<acpi_i, lapics, ioapics, legacymaps>>
    BY <1>7 DEF A!FoundMadt
  <2>2. madt' \in A!SysTable
    BY AcpiTypeStep DEF AcpiType
  <2>3. madt = A!NoTable
    BY <1>2, <2>1 DEF BeforeMadt
  <2>4. Len(madt.entries) = 0
    BY <2>3 DEF A!NoTable
  <2>5. n = 0
    BY <1>4, <2>4
  <2>6. acpi_i = 0
    BY <1>3, <2>5 DEF WalkedTo, Whole, SumsOf
  <2>7. a[0] = <<>> /\ b[0] = <<>> /\ c[0] = <<>>
    BY <1>3 DEF Whole, PicksOf
  <2>8. /\ lapics \in Seq(Nat) /\ ioapics \in Seq(Ioapic)
        /\ legacymaps \in Seq(LegacyMap)
    BY DEF AcpiType
  <2>9. Len(lapics) = 0 /\ Len(ioapics) = 0 /\ Len(legacymaps) = 0
    BY <1>3, <2>5, <2>7 DEF Listed, Processors, Ioapics, LegacyMaps
  <2>10. lapics = <<>> /\ ioapics = <<>> /\ legacymaps = <<>>
    BY <2>8, <2>9, EmptySeq
  <2>11. madt'.entries \in Seq(A!Structure)
    BY <2>2 DEF A!SysTable
  <2>12. Walked'
    BY <2>1, <2>6, <2>10, <2>11, NothingWalked
  <2>13. BeforeMadt' /\ Fits' /\ A!TableRecorded' /\ A!StaysInTable'
    BY <1>2, <2>1 DEF BeforeMadt, Fits, A!TableRecorded, A!StaysInTable
  <2> QED BY <2>12, <2>13 DEF WalkInv
<1>8. CASE A!MadtIoapic \/ A!MadtLapic \/ A!MadtIso \/ A!MadtOverride
             \/ A!MadtOther
  <2>1. /\ A!Inside /\ acpi_stage = "madt" /\ acpi_stage' = "madt"
        /\ A!At # 0 /\ madt' = madt /\ acpi_i' = acpi_i + A!Step
    BY <1>8 DEF A!MadtIoapic, A!MadtLapic, A!MadtIso, A!MadtOverride, A!MadtOther,
         A!Inside
  <2> DEFINE h == A!Header
  <2>2. /\ h \in A!Structure
        /\ a[n + 1] = IF h.type = A!PROC_LOCALAPIC THEN Append(a[n], h) ELSE a[n]
        /\ b[n + 1] = IF h.type = A!IOAPIC THEN Append(b[n], h) ELSE b[n]
        /\ c[n + 1] = IF h.type = A!IOAPIC_ISO THEN Append(c[n], h) ELSE c[n]
    BY <1>2, <1>3, <2>1, NextOf
  <2>3. A!PROC_LOCALAPIC = 0 /\ A!IOAPIC = 1 /\ A!IOAPIC_ISO = 2
        /\ A!LAPIC_OVERRIDE = 5 /\ A!RecordedTypes = {0, 1, 2}
    BY DEF A!PROC_LOCALAPIC, A!IOAPIC, A!IOAPIC_ISO, A!LAPIC_OVERRIDE,
         A!RecordedTypes
  <2>4. /\ lapics \in Seq(Nat) /\ ioapics \in Seq(Ioapic)
        /\ legacymaps \in Seq(LegacyMap)
        /\ Processors(lapics, a[n]) /\ Ioapics(ioapics, b[n])
        /\ LegacyMaps(legacymaps, c[n])
        /\ Len(lapics) <= SLOTS /\ Len(ioapics) <= SLOTS
        /\ Len(legacymaps) <= SLOTS
    BY <1>2, <1>3 DEF AcpiType, Listed, Fits
  <2>5. h.len \in Nat /\ (h.type \in {0, 1, 2} => h.len > 0)
    BY <2>2, <2>3, StructureTyped
  <2>6. /\ h.len > 0 => Listed(n + 1, a, b, c)'
        /\ h.len = 0 => Listed(n, a, b, c)'
        /\ Fits'
    <3> HIDE DEF h
    <3>1. CASE A!MadtIoapic
      <4>1. /\ h.type = 1 /\ Len(ioapics) < SLOTS
            /\ ioapics' = Append(ioapics, [id |-> h.id, regs |-> h.addr,
                                           base |-> h.gsid])
            /\ UNCHANGED <<lapics, legacymaps>>
        BY <2>3, <3>1 DEF A!MadtIoapic, A!Recorded, h
      <4>2. Ioapics(ioapics', b[n + 1])
        BY <1>5, <2>2, <2>3, <2>4, <4>1, IoapicMore DEF h
      <4>3. Len(ioapics') = Len(ioapics) + 1
        BY <2>4, <4>1
      <4>4. Len(ioapics) \in Nat
        BY <2>4
      <4> QED BY <1>2, <2>2, <2>3, <2>4, <2>5, <4>1, <4>2, <4>3, <4>4
              DEF Listed, Fits
    <3>2. CASE A!MadtLapic
      <4>1. /\ h.type = 0 /\ Len(lapics) < SLOTS
            /\ lapics' = Append(lapics, h.id) /\ UNCHANGED <<ioapics, legacymaps>>
        BY <2>3, <3>2 DEF A!MadtLapic, A!Recorded, h
      <4>2. Processors(lapics', a[n + 1])
        BY <1>5, <2>2, <2>3, <2>4, <4>1, ProcessorMore DEF h
      <4>3. Len(lapics') = Len(lapics) + 1
        BY <2>2, <2>4, <4>1, StructureTyped DEF h
      <4>4. Len(lapics) \in Nat
        BY <2>4
      <4> QED BY <1>2, <2>2, <2>3, <2>4, <2>5, <4>1, <4>2, <4>3, <4>4
              DEF Listed, Fits
    <3>3. CASE A!MadtIso
      <4>1. /\ h.type = 2 /\ Len(legacymaps) < SLOTS
            /\ legacymaps' = Append(legacymaps,
                                     [irq |-> h.irq, gsi |-> h.gsi % 256])
            /\ UNCHANGED <<lapics, ioapics>>
        BY <2>3, <3>3 DEF A!MadtIso, A!Recorded, h
      <4>2. LegacyMaps(legacymaps', c[n + 1])
        BY <1>5, <2>2, <2>3, <2>4, <4>1, LegacyMore DEF h
      <4>3. Len(legacymaps') = Len(legacymaps) + 1
        BY <2>4, <4>1
      <4>4. Len(legacymaps) \in Nat
        BY <2>4
      <4> QED BY <1>2, <2>2, <2>3, <2>4, <2>5, <4>1, <4>2, <4>3, <4>4
              DEF Listed, Fits
    <3>4. CASE A!MadtOverride \/ A!MadtOther
      <4>1. h.type \notin {0, 1, 2} /\ UNCHANGED <<lapics, ioapics, legacymaps>>
        BY <2>3, <3>4 DEF A!MadtOverride, A!MadtOther, h
      <4> QED BY <2>2, <2>3, <2>4, <4>1 DEF Listed, Fits, h
    <3> QED BY <1>8, <3>1, <3>2, <3>3, <3>4
  <2>7. Walked'
    BY <1>2, <1>3, <2>1, <2>6, WalkOn
  <2> QED BY <2>1, <2>6, <2>7 DEF WalkInv, BeforeMadt, A!TableRecorded,
          A!StaysInTable
<1>9. CASE A!Overrun
  <2> DEFINE h == A!Header
  <2>1. /\ A!At # 0 /\ acpi_stage = "madt" /\ acpi_stage' = "wild"
        /\ UNCHANGED <<madt, acpi_i, lapics, ioapics, legacymaps>>
        /\ h.type \in A!RecordedTypes
    BY <1>9 DEF A!Overrun, A!Inside
  <2>2. /\ h \in A!Structure
        /\ n + 1 \in 0 .. Len(madt.entries)
        /\ a[n + 1] = IF h.type = A!PROC_LOCALAPIC THEN Append(a[n], h) ELSE a[n]
        /\ b[n + 1] = IF h.type = A!IOAPIC THEN Append(b[n], h) ELSE b[n]
        /\ c[n + 1] = IF h.type = A!IOAPIC_ISO THEN Append(c[n], h) ELSE c[n]
    BY <1>2, <1>3, <2>1, NextOf
  <2>3. /\ madt.entries \in Seq(A!Structure)
        /\ Len(madt.entries) \in n + 1 .. Len(madt.entries)
    BY <1>2, <2>2 DEF A!SysTable
  <2>4. /\ PicksOf(madt.entries, A!PROC_LOCALAPIC, a)
        /\ PicksOf(madt.entries, A!IOAPIC, b)
        /\ PicksOf(madt.entries, A!IOAPIC_ISO, c)
        /\ A!OfType(A!PROC_LOCALAPIC) = a[Len(madt.entries)]
        /\ A!OfType(A!IOAPIC) = b[Len(madt.entries)]
        /\ A!OfType(A!IOAPIC_ISO) = c[Len(madt.entries)]
    BY <1>3 DEF Whole, A!OfType
  <2>5. /\ Len(a[n + 1]) <= Len(A!OfType(A!PROC_LOCALAPIC))
        /\ Len(b[n + 1]) <= Len(A!OfType(A!IOAPIC))
        /\ Len(c[n + 1]) <= Len(A!OfType(A!IOAPIC_ISO))
        /\ A!OfType(A!PROC_LOCALAPIC) \in Seq(A!Structure)
        /\ A!OfType(A!IOAPIC) \in Seq(A!Structure)
        /\ A!OfType(A!IOAPIC_ISO) \in Seq(A!Structure)
    <3>1. /\ Len(a[n + 1]) <= Len(a[Len(madt.entries)])
          /\ a[Len(madt.entries)] \in Seq(A!Structure)
      BY <2>2, <2>3, <2>4, PicksGrow
    <3>2. /\ Len(b[n + 1]) <= Len(b[Len(madt.entries)])
          /\ b[Len(madt.entries)] \in Seq(A!Structure)
      BY <2>2, <2>3, <2>4, PicksGrow
    <3>3. /\ Len(c[n + 1]) <= Len(c[Len(madt.entries)])
          /\ c[Len(madt.entries)] \in Seq(A!Structure)
      BY <2>2, <2>3, <2>4, PicksGrow
    <3> QED BY <2>4, <3>1, <3>2, <3>3
  <2>6. /\ Len(lapics) = Len(a[n]) /\ Len(ioapics) = Len(b[n])
        /\ Len(legacymaps) = Len(c[n])
    BY <1>3 DEF Listed, Processors, Ioapics, LegacyMaps
  <2> HIDE DEF h
  <2>7. \E t \in A!RecordedTypes : Len(A!OfType(t)) > SLOTS
    <3>1. CASE h.type = A!PROC_LOCALAPIC
      <4>1. SLOTS <= Len(a[n])
        BY <1>9, <2>6, <3>1
           DEF A!Overrun, h, A!PROC_LOCALAPIC, A!IOAPIC, A!IOAPIC_ISO
      <4>2. Len(a[n + 1]) = Len(a[n]) + 1 /\ Len(a[n]) \in Nat
        BY <1>5, <2>2, <3>1
      <4>3. Len(A!OfType(A!PROC_LOCALAPIC)) \in Nat
        BY <2>5
      <4> QED BY <1>2, <2>5, <4>1, <4>2, <4>3 DEF A!RecordedTypes
    <3>2. CASE h.type = A!IOAPIC
      <4>1. SLOTS <= Len(b[n])
        BY <1>9, <2>6, <3>2
           DEF A!Overrun, h, A!PROC_LOCALAPIC, A!IOAPIC, A!IOAPIC_ISO
      <4>2. Len(b[n + 1]) = Len(b[n]) + 1 /\ Len(b[n]) \in Nat
        BY <1>5, <2>2, <3>2
      <4>3. Len(A!OfType(A!IOAPIC)) \in Nat
        BY <2>5
      <4> QED BY <1>2, <2>5, <4>1, <4>2, <4>3 DEF A!RecordedTypes
    <3>3. CASE h.type = A!IOAPIC_ISO
      <4>1. SLOTS <= Len(c[n])
        BY <1>9, <2>6, <3>3
           DEF A!Overrun, h, A!PROC_LOCALAPIC, A!IOAPIC, A!IOAPIC_ISO
      <4>2. Len(c[n + 1]) = Len(c[n]) + 1 /\ Len(c[n]) \in Nat
        BY <1>5, <2>2, <3>3
      <4>3. Len(A!OfType(A!IOAPIC_ISO)) \in Nat
        BY <2>5
      <4> QED BY <1>2, <2>5, <4>1, <4>2, <4>3 DEF A!RecordedTypes
    <3> QED BY <2>1, <3>1, <3>2, <3>3 DEF A!RecordedTypes
  <2>8. A!StaysInTable'
    BY <2>1, <2>7 DEF A!StaysInTable, A!OfType
  <2>9. Walked'
    BY <1>3, <2>1 DEF Walked, WalkedTo, Listed
  <2> QED BY <1>2, <2>1, <2>8, <2>9
          DEF WalkInv, BeforeMadt, Fits, A!TableRecorded
<1>10. CASE A!RunsOn
  <2>1. /\ A!At = 0 /\ ~A!Behind /\ acpi_stage = "madt" /\ acpi_stage' = "wild"
        /\ UNCHANGED <<madt, acpi_i, lapics, ioapics, legacymaps>>
    BY <1>10 DEF A!RunsOn
  <2> DEFINE es == madt.entries
  <2>2. es \in Seq(A!Structure) /\ Len(es) \in Nat
    BY <1>2 DEF A!SysTable
  <2>3. n = Len(es) /\ SumsOf(es, s)
    <3>1. A!At = IF n < Len(es) THEN n + 1 ELSE 0
      BY <1>2, <1>3, AtNext DEF Whole
    <3> QED BY <1>3, <1>4, <2>1, <2>2, <3>1 DEF Whole
  <2>4. A!Size(es) = s[n] /\ acpi_i = s[n] /\ s[n] \in Nat
    BY <1>3, <2>2, <2>3 DEF Whole, WalkedTo, SumsOf
  <2>5. s[n] < 4
    BY <2>1, <2>4 DEF A!Behind, A!FIRST_HDR, A!SIZEOF_MADT
  <2>6. n = 0
    <3>1. SUFFICES ASSUME n # 0 PROVE FALSE
      OBVIOUS
    <3>2. n \in 1 .. Len(es) /\ n - 1 \in 0 .. Len(es) /\ n \in 1 .. n
      BY <1>4, <2>2, <2>3, <3>1
    <3>3. es[n].len > 0
      BY <1>3, <3>2 DEF WalkedTo
    <3>4. es[n] \in A!Structure
      BY <2>2, <3>2
    <3>5. es[n].len >= 6
      BY <3>3, <3>4, StructureTyped
    <3>6. s[n] = s[n - 1] + es[n].len /\ s[n - 1] \in Nat
      BY <2>3, <3>2 DEF SumsOf
    <3>7. es[n].len \in Nat
      BY <3>4, StructureTyped
    <3> QED BY <2>5, <3>5, <3>6, <3>7
  <2>7. madt.entries = <<>>
    BY <2>2, <2>3, <2>6, EmptySeq
  <2>8. Walked'
    BY <1>3, <2>1 DEF Walked, WalkedTo, Listed
  <2> QED BY <1>2, <2>1, <2>7, <2>8
          DEF WalkInv, BeforeMadt, Fits, A!TableRecorded, A!StaysInTable
<1>11. CASE A!MadtDone
  <2>1. /\ A!Behind /\ acpi_stage = "madt" /\ acpi_stage' = "done"
        /\ UNCHANGED <<madt, acpi_i, lapics, ioapics, legacymaps>>
    BY <1>11 DEF A!MadtDone
  <2>2. /\ A!OfType(A!PROC_LOCALAPIC) = a[n]
        /\ A!OfType(A!IOAPIC) = b[n]
        /\ A!OfType(A!IOAPIC_ISO) = c[n]
    <3>1. /\ a[n] = a[Len(madt.entries)] /\ b[n] = b[Len(madt.entries)]
          /\ c[n] = c[Len(madt.entries)]
      BY <1>3, <2>1, AtTheEnd
    <3> QED BY <1>3, <3>1 DEF Whole, A!OfType
  <2>3. /\ Processors(lapics, A!OfType(A!PROC_LOCALAPIC))
        /\ Ioapics(ioapics, A!OfType(A!IOAPIC))
        /\ LegacyMaps(legacymaps, A!OfType(A!IOAPIC_ISO))
    BY <1>3, <2>2 DEF Listed
  <2>4. /\ DOMAIN lapics = 1 .. Len(lapics) /\ DOMAIN ioapics = 1 .. Len(ioapics)
        /\ DOMAIN legacymaps = 1 .. Len(legacymaps)
    BY DEF AcpiType
  <2>5. A!TableRecorded'
    <3>1. A!OfType(A!PROC_LOCALAPIC)' = A!OfType(A!PROC_LOCALAPIC)
          /\ A!OfType(A!IOAPIC)' = A!OfType(A!IOAPIC)
          /\ A!OfType(A!IOAPIC_ISO)' = A!OfType(A!IOAPIC_ISO)
      BY <2>1 DEF A!OfType
    <3> QED BY <2>1, <2>3, <2>4, <3>1
            DEF A!TableRecorded, Processors, Ioapics, LegacyMaps
  <2>6. Walked'
    BY <1>3, <2>1 DEF Walked, WalkedTo, Listed
  <2> QED BY <1>2, <2>1, <2>5, <2>6 DEF WalkInv, BeforeMadt, Fits, A!StaysInTable
<1> QED BY <1>6, <1>7, <1>8, <1>9, <1>10, <1>11 DEF A!Next

-----------------------------------------------------------------------------
(***************************************************************************)
(* The inductive invariant of the search and the walk.                     *)
(***************************************************************************)
FirmwareInv == AcpiType /\ Searched /\ A!PointerFound /\ WalkInv

LEMMA FirmwareInvRead ==
  ASSUME FirmwareInv
  PROVE  FirmwareRead
<1>1. PICK n, s, a, b, c : /\ Whole(madt.entries, s, a, b, c)
                           /\ WalkedTo(n, s) /\ Listed(n, a, b, c)
  BY DEF FirmwareInv, WalkInv, Walked
<1>2. madt \in A!SysTable
  BY DEF FirmwareInv, AcpiType
<1>3. Len(madt.entries) \in Nat
  BY <1>2 DEF A!SysTable
<1>4. A!At = 0 => acpi_i = A!Size(madt.entries)
  <2>1. A!At = IF n < Len(madt.entries) THEN n + 1 ELSE 0
    BY <1>1, <1>2, AtNext DEF Whole
  <2>2. n \in 0 .. Len(madt.entries)
    BY <1>1 DEF WalkedTo
  <2>3. A!At = 0 => n = Len(madt.entries)
    BY <1>3, <2>1, <2>2
  <2> QED BY <1>1, <2>3 DEF Whole, WalkedTo
<1> QED BY <1>4 DEF FirmwareInv, WalkInv, Fits, FirmwareRead, A!ListsFit

(***************************************************************************)
(* For every firmware the first root pointer is found, every controller,   *)
(* processor and override of the MADT recorded once, in its order and in   *)
(* its array, of an override's global interrupt the byte that there is     *)
(* room for, and nothing behind the table read (init_acpi.c:28-66,         *)
(* search_madt.c:11-40, apic.h:59-62).                                     *)
(***************************************************************************)
THEOREM FirmwareInductive == Spec => []FirmwareInv
<1>1. Init => FirmwareInv
  BY AcpiTypeInit, SearchInit, WalkInit DEF FirmwareInv
<1>2. FirmwareInv /\ [Next]_vars => FirmwareInv'
  BY AcpiTypeStep, SearchStep, WalkStep DEF FirmwareInv
<1> QED BY <1>1, <1>2, PTL DEF Spec

THEOREM FirmwareIsRead == Spec => []FirmwareRead
<1>1. FirmwareInv => FirmwareRead
  BY FirmwareInvRead
<1> QED BY <1>1, FirmwareInductive, PTL

-----------------------------------------------------------------------------
(***************************************************************************)
(* The pins.  Once the MADT is read its lists stay, so that the            *)
(* redirections are those that enable_apic made of them: of the overrides  *)
(* that name a pin the last counts, and without one what enable_ioapic     *)
(* wrote.                                                                  *)
(***************************************************************************)
Hits(m, p) ==
  \E c \in I!ReachedAs(p[1]) :
    /\ ioapics[c].base <= legacymaps[m].gsi
    /\ p[2] = legacymaps[m].gsi - ioapics[c].base
Untouched(p) ==
  IF I!ReachedAs(p[1]) # {} /\ p[2] < machine.pins[p[1]] - 1
  THEN 32 + p[2] ELSE I!Masked

LEMMA SameControllers ==
  ASSUME UNCHANGED ioapics
  PROVE  \A c : I!ReachedAs(c)' = I!ReachedAs(c)
  BY DEF I!ReachedAs, I!Reached, I!SelectInSeq

\* Where no two controllers have one id, each has its own registers.
LEMMA OwnRegisters ==
  ASSUME ioapics \in Seq(Ioapic),
         \A c, d \in DOMAIN ioapics : ioapics[c].id = ioapics[d].id => c = d,
         NEW c \in DOMAIN ioapics
  PROVE  I!ReachedAs(c) = {c}
<1>1. ASSUME NEW d \in DOMAIN ioapics PROVE I!Reached(d) = d
  <2> DEFINE T == {x \in 1 .. Len(ioapics) : ioapics[x].id = ioapics[d].id}
  <2>1. T = {d}
    <3>1. DOMAIN ioapics = 1 .. Len(ioapics)
      OBVIOUS
    <3> QED BY <3>1
  <2>2. I!Reached(d) = IF T # {} THEN Min(T) ELSE 0
    BY DEF I!Reached, I!SelectInSeq, I!Min, Min
  <2>3. d \in Nat
    OBVIOUS
  <2>4. Min({d}) = d
    <3>1. {d} \subseteq Nat /\ {d} # {}
      BY <2>3
    <3> QED BY <3>1, MinOfNats
  <2> HIDE DEF T
  <2> QED BY <2>1, <2>2, <2>4
<1> QED BY <1>1 DEF I!ReachedAs
RedirAfter(r, j) ==
  \A p \in I!Pins(machine) :
    /\ (\A m \in 1 .. j : ~Hits(m, p)) => r[p] = Untouched(p)
    /\ \A m \in 1 .. j :
         Hits(m, p) /\ (\A x \in m + 1 .. j : ~Hits(x, p)) =>
           r[p] = 32 + legacymaps[m].irq
    /\ r[p] = Untouched(p) \/ \E m \in 1 .. j : r[p] = 32 + legacymaps[m].irq

LEMMA SameRedirections ==
  ASSUME UNCHANGED <<machine, ioapics, legacymaps>>,
         RedirAfter(redir', Len(legacymaps))
  PROVE  RedirAfter(redir, Len(legacymaps))'
<1>1. /\ machine' = machine /\ ioapics' = ioapics /\ legacymaps' = legacymaps
      /\ \A c : I!ReachedAs(c)' = I!ReachedAs(c)
  BY SameControllers
<1>2. \A m, p : Hits(m, p)' = Hits(m, p)
  BY <1>1 DEF Hits
<1>3. \A p : Untouched(p)' = Untouched(p)
  BY <1>1 DEF Untouched
<1> QED BY <1>1, <1>2, <1>3 DEF RedirAfter

SamePins == \E c \in Computers : firmware = c.firmware /\ machine = c.machine
MadtGiven ==
  acpi_stage \in {"madt", "done"} =>
    /\ xsdp \in DOMAIN firmware.xsdps /\ madt.sig = "APIC"
    /\ madt \in ToSet(firmware.xsdps[xsdp].tables)
Pinned ==
  /\ irq_stage \in {"boot", "traps"} =>
       \A p \in I!Pins(machine) : redir[p] = I!Masked
  /\ irq_stage \in {"enabled", "run"} =>
       acpi_stage = "done" /\ RedirAfter(redir, Len(legacymaps))

PinsInv == SamePins /\ MadtGiven /\ Pinned

LEMMA DoneStays ==
  ASSUME acpi_stage = "done", [Next]_vars
  PROVE  UNCHANGED <<avars, lists>>
<1> SUFFICES ASSUME A!Next PROVE FALSE
  BY AcpiSteps
<1> QED
  BY DEF A!Next, A!FoundXsdp, A!SearchOn, A!SearchBios, A!NoXsdp, A!UnknownVersion,
         A!FoundMadt, A!NoMadt, A!MadtIoapic, A!MadtLapic, A!MadtIso, A!MadtOverride,
         A!MadtOther, A!Overrun, A!RunsOn, A!MadtDone, A!Inside

LEMMA RelocatedPins ==
  ASSUME IrqTables, \A p \in I!Pins(machine) : redir[p] = I!Masked
  PROVE  RedirAfter(I!Relocated, 0)
<1>1. DOMAIN redir = I!Pins(machine)
  BY DEF IrqTables, Redirections
<1>2. \A p \in I!Pins(machine) : I!Relocated[p] = Untouched(p)
  BY <1>1 DEF I!Relocated, I!RelocateLen, I!IOAPIC_IRQ_BASE, Untouched
<1>3. \A m \in 1 .. 0 : FALSE
  OBVIOUS
<1> QED BY <1>2, <1>3 DEF RedirAfter

LEMMA RedirectPins ==
  ASSUME NEW r \in Redirections, NEW j \in Nat, RedirAfter(r, j)
  PROVE  RedirAfter(I!Redirect(r, legacymaps[j + 1]), j + 1)
<1> DEFINE r2 == I!Redirect(r, legacymaps[j + 1])
<1>1. \A p \in I!Pins(machine) :
        r2[p] = IF Hits(j + 1, p) THEN 32 + legacymaps[j + 1].irq ELSE r[p]
  <2>1. DOMAIN r = I!Pins(machine)
    BY DEF Redirections
  <2> QED BY <2>1 DEF I!Redirect, Hits, I!IOAPIC_IRQ_BASE
<1>2. \A m \in 1 .. j + 1 : m \in 1 .. j \/ m = j + 1
  OBVIOUS
<1>3. \A m \in 1 .. j : m \in 1 .. j + 1
  OBVIOUS
<1>4. j + 1 \in 1 .. j + 1
  OBVIOUS
<1> HIDE DEF r2
<1> SUFFICES ASSUME NEW p \in I!Pins(machine)
             PROVE  /\ (\A m \in 1 .. j + 1 : ~Hits(m, p)) => r2[p] = Untouched(p)
                    /\ \A m \in 1 .. j + 1 :
                         Hits(m, p) /\ (\A x \in m + 1 .. j + 1 : ~Hits(x, p)) =>
                           r2[p] = 32 + legacymaps[m].irq
                    /\ \/ r2[p] = Untouched(p)
                       \/ \E m \in 1 .. j + 1 : r2[p] = 32 + legacymaps[m].irq
  BY DEF RedirAfter, r2
<1>5. /\ (\A m \in 1 .. j : ~Hits(m, p)) => r[p] = Untouched(p)
      /\ \A m \in 1 .. j :
           Hits(m, p) /\ (\A x \in m + 1 .. j : ~Hits(x, p)) =>
             r[p] = 32 + legacymaps[m].irq
      /\ r[p] = Untouched(p) \/ \E m \in 1 .. j : r[p] = 32 + legacymaps[m].irq
  BY DEF RedirAfter
<1>6. (\A m \in 1 .. j + 1 : ~Hits(m, p)) => r2[p] = Untouched(p)
  BY <1>1, <1>3, <1>4, <1>5
<1>7. ASSUME NEW m \in 1 .. j + 1, Hits(m, p),
             \A x \in m + 1 .. j + 1 : ~Hits(x, p)
      PROVE  r2[p] = 32 + legacymaps[m].irq
  <2>1. CASE m = j + 1
    BY <1>1, <1>7, <2>1
  <2>2. CASE m \in 1 .. j
    <3>1. j + 1 \in m + 1 .. j + 1 /\ \A x \in m + 1 .. j : x \in m + 1 .. j + 1
      BY <2>2
    <3> QED BY <1>1, <1>5, <1>7, <2>2, <3>1
  <2> QED BY <1>2, <2>1, <2>2
<1>8. \/ r2[p] = Untouched(p)
      \/ \E m \in 1 .. j + 1 : r2[p] = 32 + legacymaps[m].irq
  BY <1>1, <1>3, <1>4, <1>5
<1> QED BY <1>6, <1>7, <1>8

LEMMA OverridesPins ==
  ASSUME IrqTables, AcpiType, \A p \in I!Pins(machine) : redir[p] = I!Masked
  PROVE  RedirAfter(I!FoldLeft(I!Redirect, I!Relocated, legacymaps),
                    Len(legacymaps))
<1>1. PICK f : /\ Overridden(f)
               /\ I!FoldLeft(I!Redirect, I!Relocated, legacymaps)
                    = f[Len(legacymaps)]
  <2>1. legacymaps \in Seq(LegacyMap)
    BY DEF AcpiType
  <2>2. I!Relocated \in Redirections
    BY RelocatedValid
  <2> QED BY <2>1, <2>2, FoldOfOverrides
<1> DEFINE n == Len(legacymaps)
           Good == {j \in 0 .. n : RedirAfter(f[j], j)}
<1>2. n \in Nat /\ \A j \in 0 .. n : f[j] \in Redirections
  <2>1. n \in Nat
    BY DEF AcpiType
  <2>2. f \in [0 .. n -> Redirections]
    BY <1>1 DEF Overridden
  <2> QED BY <2>1, <2>2
<1>3. 0 \in Good
  <2>1. f[0] = I!Relocated
    BY <1>1 DEF Overridden
  <2>2. RedirAfter(f[0], 0)
    BY <2>1, RelocatedPins
  <2>3. 0 \in 0 .. n
    BY <1>2
  <2> QED BY <2>2, <2>3
<1>4. ASSUME NEW j \in 0 .. n - 1, j \in Good PROVE j + 1 \in Good
  <2>1. /\ j \in Nat /\ j + 1 \in 1 .. n /\ j + 1 \in 0 .. n /\ j \in 0 .. n
        /\ (j + 1) - 1 = j
    BY <1>2
  <2>2. f[j + 1] = I!Redirect(f[j], legacymaps[j + 1])
    BY <1>1, <2>1 DEF Overridden
  <2>3. RedirAfter(f[j + 1], j + 1)
    BY <1>2, <1>4, <2>1, <2>2, RedirectPins
  <2> QED BY <2>1, <2>3
<1>5. \A j \in 0 .. n : j \in Good
  <2> HIDE DEF Good, n
  <2> QED BY <1>2, <1>3, <1>4, InductUpTo
<1>6. n \in Good
  <2> HIDE DEF Good
  <2>1. n \in 0 .. n
    BY <1>2
  <2> QED BY <1>5, <2>1
<1> QED BY <1>1, <1>6

LEMMA PinsInit ==
  ASSUME Init
  PROVE  PinsInv
<1>1. A!Init /\ I!Init
  BY DEF Init
<1>2. SamePins
  BY DEF Init, SamePins
<1>3. acpi_stage = "ebda" /\ irq_stage = "boot"
      /\ redir = [p \in I!Pins(machine) |-> I!Masked]
  BY <1>1 DEF A!Init, I!Init
<1> QED BY <1>2, <1>3 DEF PinsInv, MadtGiven, Pinned

LEMMA MadtStep ==
  ASSUME AcpiType, MadtGiven, [Next]_vars
  PROVE  MadtGiven'
<1>1. CASE UNCHANGED <<avars, lists>>
  BY <1>1 DEF MadtGiven, avars
<1> SUFFICES ASSUME A!Next PROVE MadtGiven'
  BY <1>1, AcpiSteps
<1>2. CASE A!FoundMadt
  <2> DEFINE ts == A!Tables
             T == {j \in 1 .. Len(ts) : ts[j].sig = "APIC"}
  <2>1. ts \in Seq(A!SysTable) /\ ts = firmware.xsdps[xsdp].tables
        /\ xsdp \in DOMAIN firmware.xsdps
    BY <1>2, TablesTyped DEF A!FoundMadt, A!Tables, AcpiType
  <2>2. A!FindTable("APIC") = IF T # {} THEN Min(T) ELSE 0
    BY DEF A!FindTable, A!SelectInSeq, A!Min, Min
  <2>3. A!FindTable("APIC") \in T /\ A!FindTable("APIC") \in 1 .. Len(ts)
    <3>1. Len(ts) \in Nat /\ T \subseteq 1 .. Len(ts) /\ T # {}
      BY <1>2, <2>1, <2>2 DEF A!FoundMadt
    <3> HIDE DEF ts, T
    <3> QED BY <2>2, <3>1, FirstPlace
  <2>4. madt' = ts[A!FindTable("APIC")] /\ UNCHANGED <<firmware, xsdp>>
    BY <1>2 DEF A!FoundMadt, A!lists
  <2>5. madt' \in ToSet(ts) /\ madt'.sig = "APIC"
    BY <2>1, <2>3, <2>4 DEF ToSet
  <2> QED BY <2>1, <2>4, <2>5 DEF MadtGiven
<1>3. CASE \/ A!FoundXsdp \/ A!SearchOn \/ A!SearchBios \/ A!NoXsdp
           \/ A!UnknownVersion \/ A!NoMadt \/ A!Overrun \/ A!RunsOn
  BY <1>3 DEF A!FoundXsdp, A!SearchOn, A!SearchBios, A!NoXsdp, A!UnknownVersion,
         A!NoMadt, A!Overrun, A!RunsOn, MadtGiven
<1>4. CASE A!MadtIoapic \/ A!MadtLapic \/ A!MadtIso \/ A!MadtOverride
             \/ A!MadtOther \/ A!MadtDone
  BY <1>4 DEF A!MadtIoapic, A!MadtLapic, A!MadtIso, A!MadtOverride, A!MadtOther,
         A!MadtDone, A!Inside, A!found, MadtGiven
<1> QED BY <1>2, <1>3, <1>4 DEF A!Next

LEMMA PinsStep ==
  ASSUME InterruptInv, PinsInv, [Next]_vars
  PROVE  PinsInv'
<1>1. IrqTables /\ AcpiType /\ SamePins /\ MadtGiven /\ Pinned
  BY DEF InterruptInv, PinsInv
<1>2. SamePins'
  <2>1. UNCHANGED firmware
    <3>1. CASE A!Next
      BY <3>1 DEF A!Next, A!FoundXsdp, A!SearchOn, A!SearchBios, A!NoXsdp,
         A!UnknownVersion, A!FoundMadt, A!NoMadt, A!MadtIoapic, A!MadtLapic,
         A!MadtIso, A!MadtOverride, A!MadtOther, A!Overrun, A!RunsOn, A!MadtDone
    <3> QED BY <3>1, AcpiSteps DEF avars
  <2>2. UNCHANGED machine
    <3>1. CASE I!Next
      BY <3>1 DEF I!Next, I!Kernel, I!EnableTraps, I!EnableApic, I!EnableIdt,
         I!Stub, I!Shim, I!Panic, I!IrqHandler, I!CallModule, I!ModuleReturns,
         I!EndOfInterrupt, I!RegisterIrqHandler, I!SoftInterrupt, I!Return,
         I!IretFaults, I!CallNowhere, I!Sysret, I!StartUser, I!Interrupt,
         I!NoGate, I!Raise, I!Fault, I!Syscall, I!tables
    <3> QED BY <3>1, InterruptSteps DEF ivars
  <2> QED BY <1>1, <2>1, <2>2 DEF SamePins
<1>3. MadtGiven'
  BY <1>1, MadtStep
<1>4. Pinned'
  <2>1. CASE UNCHANGED ivars
    <3>1. CASE irq_stage \in {"enabled", "run"}
      <4>1. UNCHANGED <<avars, lists>>
        BY <1>1, <3>1, DoneStays DEF Pinned
      <4> QED BY <1>1, <2>1, <4>1, SameRedirections DEF Pinned, avars, lists, ivars
    <3>2. CASE irq_stage \notin {"enabled", "run"}
      BY <1>1, <2>1, <3>2 DEF Pinned, ivars
    <3> QED BY <3>1, <3>2
  <2>2. CASE I!Next /\ UNCHANGED lists
    <3>1. CASE I!EnableTraps
      BY <1>1, <3>1 DEF I!EnableTraps, Pinned
    <3>2. CASE I!EnableApic
      <4>1. /\ irq_stage = "traps" /\ UNCHANGED machine /\ irq_stage' = "enabled"
            /\ redir' = I!FoldLeft(I!Redirect, I!Relocated, legacymaps)
        BY <3>2 DEF I!EnableApic
      <4>2. EnableHandlers
        <5>1. CASE BootStep \/ SetupPm \/ InitAcpi \/ UNCHANGED vars
          BY <4>1, <5>1 DEF BootStep, SetupPm, InitAcpi, vars, ivars
        <5>2. CASE EnableIdt \/ StartUser
          BY <4>1, <5>2 DEF EnableIdt, StartUser, I!EnableIdt, I!StartUser, I!At
        <5>3. CASE Handling
          BY <4>1, <5>3 DEF Handling, I!Stub, I!Shim, I!Panic, I!IrqHandler,
             I!CallModule, I!Return, I!IretFaults, I!CallNowhere, I!Sysret, I!At
        <5>4. CASE Happening
          BY <4>1, <5>4 DEF Happening, I!Interrupt, I!NoGate, I!Raise, I!Fault,
             I!Syscall, I!ModuleReturns, I!SoftInterrupt, I!RegisterIrqHandler, I!At
        <5> QED BY <5>1, <5>2, <5>3, <5>4 DEF Next, KernelStep
      <4>3. acpi_stage = "done" /\ acpi_stage' = "done"
        BY <4>2 DEF EnableHandlers, avars
      <4>4. RedirAfter(redir', Len(legacymaps))
        BY <1>1, <4>1, OverridesPins DEF Pinned
      <4> QED BY <2>2, <4>1, <4>3, <4>4, SameRedirections DEF Pinned, lists
    <3>3. CASE ~I!EnableTraps /\ ~I!EnableApic
      <4>1. UNCHANGED <<redir, machine>>
        BY <2>2, <3>3 DEF I!Next, I!Kernel, I!EnableIdt,
         I!Stub, I!Shim, I!Panic, I!IrqHandler, I!CallModule, I!ModuleReturns,
         I!EndOfInterrupt, I!RegisterIrqHandler, I!SoftInterrupt, I!Return,
         I!IretFaults, I!CallNowhere, I!Sysret, I!StartUser, I!Interrupt,
         I!NoGate, I!Raise, I!Fault, I!Syscall, I!tables
      <4>2. \/ irq_stage' = irq_stage
            \/ irq_stage = "enabled" /\ irq_stage' = "run"
            \/ irq_stage' \in {"reset", "wild", "panic"}
        BY <2>2, <3>3 DEF I!Next, I!Kernel, I!EnableIdt,
         I!Stub, I!Shim, I!Panic, I!IrqHandler, I!CallModule, I!ModuleReturns,
         I!EndOfInterrupt, I!RegisterIrqHandler, I!SoftInterrupt, I!Return,
         I!IretFaults, I!CallNowhere, I!Sysret, I!StartUser, I!Interrupt,
         I!NoGate, I!Raise, I!Fault, I!Syscall
      <4>3. CASE irq_stage' \in {"boot", "traps"}
        BY <1>1, <4>1, <4>2, <4>3 DEF Pinned
      <4>4. CASE irq_stage' \in {"enabled", "run"}
        <5>1. irq_stage \in {"enabled", "run"}
          BY <4>2, <4>4
        <5>2. UNCHANGED <<avars, lists>>
          BY <1>1, <5>1, DoneStays DEF Pinned
        <5> QED BY <1>1, <4>1, <4>4, <5>1, <5>2, SameRedirections
                DEF Pinned, avars, lists
      <4> QED BY <4>3, <4>4 DEF Pinned
    <3> QED BY <3>1, <3>2, <3>3
  <2> QED BY <2>1, <2>2, InterruptSteps
<1> QED BY <1>2, <1>3, <1>4 DEF PinsInv

\* Every controller of the table is one of the machine's, with its pins.
LEMMA ControllersThere ==
  ASSUME FirmwareInv, InterruptInv, PinsInv, acpi_stage = "done"
  PROVE  /\ Controllers \in Seq(A!Structure) /\ Overrides \in Seq(A!Structure)
         /\ DOMAIN Controllers = DOMAIN machine.pins
         /\ \A c \in DOMAIN machine.pins : /\ Controllers[c].gsid \in Nat
                                           /\ ioapics[c].base = Controllers[c].gsid
                                           /\ ioapics[c].id = Controllers[c].id
                                           /\ machine.pins[c] \in Nat \ {0}
         /\ ioapics \in Seq(Ioapic) /\ DOMAIN ioapics = DOMAIN machine.pins
         /\ Len(legacymaps) = Len(Overrides)
         /\ \A m \in 1 .. Len(legacymaps) :
              /\ legacymaps[m].irq = Overrides[m].irq
              /\ legacymaps[m].gsi = Overrides[m].gsi % 256
              /\ Overrides[m].gsi \in Nat
              /\ legacymaps[m].irq \in Nat
<1>1. AcpiType /\ WalkInv /\ SamePins /\ MadtGiven /\ IrqTables
  BY DEF FirmwareInv, PinsInv, InterruptInv
<1>2. /\ Len(ioapics) = Len(Controllers)
      /\ \A j \in DOMAIN ioapics : /\ ioapics[j].base = Controllers[j].gsid
                                   /\ ioapics[j].id = Controllers[j].id
      /\ Len(legacymaps) = Len(Overrides)
      /\ \A j \in DOMAIN legacymaps :
           /\ legacymaps[j].irq = Overrides[j].irq
           /\ legacymaps[j].gsi = Overrides[j].gsi % 256
  BY <1>1 DEF WalkInv, A!TableRecorded, Controllers, Overrides
<1>3. ioapics \in Seq(Ioapic) /\ legacymaps \in Seq(LegacyMap)
      /\ madt \in A!SysTable
  BY <1>1 DEF AcpiType
<1>4. Controllers \in Seq(A!Structure) /\ Overrides \in Seq(A!Structure)
  <2>1. madt.entries \in Seq(A!Structure)
    BY <1>3 DEF A!SysTable
  <2>2. Len(madt.entries) \in 0 .. Len(madt.entries)
    BY <2>1
  <2>3. PICK s, a, b, c : Whole(madt.entries, s, a, b, c)
    BY <2>1, WholeExists
  <2>4. /\ b[Len(madt.entries)] \in Seq(A!Structure)
        /\ c[Len(madt.entries)] \in Seq(A!Structure)
    BY <1>3, <2>2, <2>3, PickTyped
  <2> QED BY <2>3, <2>4 DEF Whole, Controllers, Overrides, A!OfType
<1>5. Len(Controllers) = Len(machine.pins)
  <2>1. PICK c \in Computers : firmware = c.firmware /\ machine = c.machine
    BY <1>1 DEF SamePins
  <2>2. Len(A!Picked(madt.entries, A!IOAPIC)) = Len(machine.pins)
    BY <1>1, <2>1, StartupAssumption DEF MadtGiven
  <2> QED BY <2>2 DEF Controllers, A!OfType
<1>6. machine.pins \in Seq(Nat \ {0})
  BY <1>1, PinsTyped DEF IrqTables
<1>7. DOMAIN Controllers = 1 .. Len(machine.pins)
      /\ DOMAIN machine.pins = 1 .. Len(machine.pins)
      /\ DOMAIN ioapics = 1 .. Len(machine.pins)
  BY <1>2, <1>3, <1>4, <1>5, <1>6
<1>8. \A c \in DOMAIN machine.pins : /\ Controllers[c].gsid \in Nat
                                     /\ machine.pins[c] \in Nat \ {0}
  <2>1. \A c \in DOMAIN Controllers : Controllers[c] \in A!Structure
    BY <1>4
  <2> QED BY <1>6, <1>7, <2>1, StructureTyped
<1>9. \A m \in 1 .. Len(legacymaps) : /\ Overrides[m].gsi \in Nat
                                      /\ legacymaps[m].irq \in Nat
  <2>1. \A m \in 1 .. Len(legacymaps) : /\ Overrides[m] \in A!Structure
                                        /\ legacymaps[m] \in LegacyMap
    BY <1>2, <1>3, <1>4
  <2> QED BY <2>1, StructureTyped DEF LegacyMap
<1>10. DOMAIN legacymaps = 1 .. Len(legacymaps)
  BY <1>3
<1> QED BY <1>2, <1>3, <1>4, <1>7, <1>8, <1>9, <1>10

LEMMA LegacyArrives ==
  ASSUME FirmwareInv, InterruptInv, PinsInv
  PROVE  LegacyIrqArrives
<1> SUFFICES ASSUME irq_stage \in {"enabled", "run"}, Addressable
    PROVE  /\ \A n \in DOMAIN Overrides :
                (\A j \in n + 1 .. Len(Overrides) :
                   Overrides[j].gsi # Overrides[n].gsi) =>
                \A p \in PinsOf(Overrides[n].gsi) : redir[p] = 32 + Overrides[n].irq
           /\ \A irq \in 0 .. 15 \ Moved : \A p \in PinsOf(irq) :
                Controllers[p[1]].gsid = 0 /\ p[2] < machine.pins[p[1]] - 1 =>
                  redir[p] = 32 + irq
  BY DEF LegacyIrqArrives, I!IOAPIC_IRQ_BASE
<1>1. acpi_stage = "done" /\ RedirAfter(redir, Len(legacymaps))
  BY DEF PinsInv, Pinned
<1> DEFINE L == Len(legacymaps)
<1>2. /\ Controllers \in Seq(A!Structure) /\ Overrides \in Seq(A!Structure)
      /\ DOMAIN Controllers = DOMAIN machine.pins
      /\ \A c \in DOMAIN machine.pins : /\ Controllers[c].gsid \in Nat
                                        /\ ioapics[c].base = Controllers[c].gsid
                                        /\ ioapics[c].id = Controllers[c].id
                                        /\ machine.pins[c] \in Nat \ {0}
      /\ ioapics \in Seq(Ioapic) /\ DOMAIN ioapics = DOMAIN machine.pins
      /\ L = Len(Overrides)
      /\ \A m \in 1 .. L : /\ legacymaps[m].irq = Overrides[m].irq
                           /\ legacymaps[m].gsi = Overrides[m].gsi % 256
                           /\ Overrides[m].gsi \in Nat
                           /\ legacymaps[m].irq \in Nat
  BY <1>1, ControllersThere
<1>3. L \in Nat /\ DOMAIN Overrides = 1 .. L
  BY <1>2
<1>7. \A c \in DOMAIN machine.pins : I!ReachedAs(c) = {c}
  <2>1. \A c, d \in DOMAIN ioapics : ioapics[c].id = ioapics[d].id => c = d
    BY <1>2 DEF Addressable
  <2> QED BY <1>2, <2>1, OwnRegisters
<1>8. \A m \in 1 .. L : legacymaps[m].gsi = Overrides[m].gsi
  <2>1. ASSUME NEW m \in 1 .. L PROVE legacymaps[m].gsi = Overrides[m].gsi
    <3> DEFINE gsi == Overrides[m].gsi
    <3>1. gsi \in Moved
      BY <1>3 DEF Moved, ToSet
    <3>2. gsi \in Nat /\ gsi < 256 /\ legacymaps[m].gsi = gsi % 256
      BY <1>2, <3>1 DEF Addressable
    <3> HIDE DEF gsi
    <3>3. gsi % 256 = gsi
      BY <3>2
    <3> QED BY <3>2, <3>3 DEF gsi
  <2> QED BY <2>1
<1>4. ASSUME NEW gsi \in Nat, NEW p \in PinsOf(gsi)
      PROVE  /\ p \in I!Pins(machine) /\ p[1] \in DOMAIN machine.pins
             /\ p[2] = gsi - Controllers[p[1]].gsid
             /\ Controllers[p[1]].gsid <= gsi /\ I!ReachedAs(p[1]) # {}
             /\ \A m \in 1 .. L : Hits(m, p) <=> Overrides[m].gsi = gsi
  <2>1. PICK c \in DOMAIN Controllers : /\ HasPin(c, gsi)
                                        /\ p = <<c, gsi - Controllers[c].gsid>>
    BY <1>4 DEF PinsOf
  <2>2. /\ Controllers[c].gsid \in Nat /\ machine.pins[c] \in Nat \ {0}
        /\ Controllers[c].gsid <= gsi
        /\ gsi - Controllers[c].gsid < machine.pins[c]
        /\ ioapics[c].base = Controllers[c].gsid
    BY <1>2, <2>1 DEF HasPin
  <2>3. gsi - Controllers[c].gsid \in 0 .. machine.pins[c] - 1
    BY <2>2
  <2>4. p \in {c} \X (0 .. machine.pins[c] - 1)
    BY <2>1, <2>3
  <2>5. p \in I!Pins(machine)
    BY <1>2, <2>1, <2>4 DEF I!Pins
  <2>6. p[1] = c /\ p[2] = gsi - Controllers[c].gsid
    BY <2>1
  <2>8. I!ReachedAs(c) = {c}
    BY <1>2, <1>7
  <2>7. ASSUME NEW m \in 1 .. L PROVE Hits(m, p) <=> Overrides[m].gsi = gsi
    <3>1. legacymaps[m].gsi = Overrides[m].gsi /\ Overrides[m].gsi \in Nat
      BY <1>2, <1>8
    <3>2. Hits(m, p) <=> /\ ioapics[c].base <= legacymaps[m].gsi
                         /\ p[2] = legacymaps[m].gsi - ioapics[c].base
      BY <2>8, <2>6 DEF Hits
    <3> QED BY <2>2, <2>6, <3>1, <3>2
  <2> QED BY <1>2, <2>1, <2>2, <2>5, <2>6, <2>7, <2>8
<1>5. ASSUME NEW n \in DOMAIN Overrides,
             \A j \in n + 1 .. Len(Overrides) : Overrides[j].gsi # Overrides[n].gsi,
             NEW p \in PinsOf(Overrides[n].gsi)
      PROVE  redir[p] = 32 + Overrides[n].irq
  <2> HIDE DEF L
  <2>1. n \in 1 .. L /\ Overrides[n].gsi \in Nat
    BY <1>2, <1>3
  <2>2. p \in I!Pins(machine) /\ Hits(n, p)
    BY <1>4, <1>5, <2>1
  <2>3. \A x \in n + 1 .. L : x \in 1 .. L
    BY <1>3, <2>1
  <2>4. \A x \in n + 1 .. L : ~Hits(x, p)
    BY <1>2, <1>4, <1>5, <2>1, <2>3
  <2>5. redir[p] = 32 + legacymaps[n].irq
    BY <1>1, <2>1, <2>2, <2>4 DEF RedirAfter, L
  <2> QED BY <1>2, <2>1, <2>5
<1>6. ASSUME NEW irq \in 0 .. 15 \ Moved, NEW p \in PinsOf(irq),
             Controllers[p[1]].gsid = 0, p[2] < machine.pins[p[1]] - 1
      PROVE  redir[p] = 32 + irq
  <2> HIDE DEF L
  <2>1. irq \in Nat /\ irq \notin Moved
    OBVIOUS
  <2>2. p \in I!Pins(machine) /\ p[2] = irq /\ I!ReachedAs(p[1]) # {}
    <3>1. p[2] = irq - 0 /\ p \in I!Pins(machine) /\ I!ReachedAs(p[1]) # {}
      BY <1>4, <1>6, <2>1
    <3> QED BY <2>1, <3>1
  <2>3. \A m \in 1 .. L : Overrides[m].gsi # irq
    BY <1>3, <2>1 DEF Moved, ToSet
  <2>4. \A m \in 1 .. L : ~Hits(m, p)
    BY <1>4, <2>1, <2>3
  <2>5. redir[p] = Untouched(p)
    BY <1>1, <2>2, <2>4 DEF RedirAfter, L
  <2> QED BY <1>6, <2>2, <2>5 DEF Untouched
<1> QED BY <1>5, <1>6

LEMMA PinsReach ==
  ASSUME FirmwareInv, InterruptInv, PinsInv
  PROVE  I!PinsReachIrqHandler
<1> SUFFICES ASSUME irq_stage = "run", I!LegacyPins, NEW p \in DOMAIN redir,
                    redir[p] # I!Masked
    PROVE  /\ redir[p] \in I!Gates /\ handlers[redir[p]] = "irq_handler"
           /\ idt[redir[p]].type = "int" /\ idt[redir[p]].entry
  BY DEF I!PinsReachIrqHandler
<1>1. acpi_stage = "done" /\ RedirAfter(redir, Len(legacymaps)) /\ IrqTables
      /\ AcpiType
  BY DEF PinsInv, Pinned, InterruptInv
<1>2. p \in I!Pins(machine)
  BY <1>1 DEF IrqTables, Redirections
<1>3. /\ p[1] \in DOMAIN machine.pins /\ p[2] \in 0 .. machine.pins[p[1]] - 1
      /\ machine.pins[p[1]] \in Nat
  <2>1. /\ p[1] \in DOMAIN machine.pins /\ p[2] \in 0 .. machine.pins[p[1]] - 1
        /\ machine.pins \in Seq(Nat \ {0})
    BY <1>1, <1>2, PinsTyped DEF IrqTables
  <2> QED BY <2>1
<1>4. machine.pins[p[1]] <= 224
  BY <1>3 DEF I!LegacyPins
<1>5. redir[p] \in 32 .. 254
  <2>1. CASE redir[p] = Untouched(p)
    <3>1. redir[p] = 32 + p[2] /\ p[2] < machine.pins[p[1]] - 1
      BY <2>1 DEF Untouched
    <3> QED BY <1>3, <1>4, <3>1
  <2>2. ASSUME NEW m \in 1 .. Len(legacymaps), redir[p] = 32 + legacymaps[m].irq
        PROVE  redir[p] \in 32 .. 254
    <3>1. m \in DOMAIN legacymaps /\ legacymaps[m] \in LegacyMap
      BY <1>1 DEF AcpiType
    <3>2. legacymaps[m].irq \in Nat /\ legacymaps[m].irq <= 15
      BY <3>1 DEF LegacyMap, I!LegacyPins
    <3> DEFINE irq == legacymaps[m].irq
    <3>3. redir[p] = 32 + irq /\ irq \in Nat /\ irq <= 15
      BY <2>2, <3>2
    <3> HIDE DEF irq
    <3> QED BY <3>3
  <2>3. \/ redir[p] = Untouched(p)
        \/ \E m \in 1 .. Len(legacymaps) : redir[p] = 32 + legacymaps[m].irq
    BY <1>1, <1>2 DEF RedirAfter
  <2> QED BY <2>1, <2>2, <2>3
<1> DEFINE v == redir[p]
<1>6. v \in I!Gates /\ v \notin I!Traps /\ v # I!TRAP_PGF
  BY <1>5 DEF I!Gates, I!Traps, I!TRAP_PGF
<1>7. handlers[v] = "irq_handler" /\ idt[v].type = "int" /\ idt[v].entry
  <2> HIDE DEF v
  <2>1. handlers[v] = HandlerOf(v) /\ idt[v].type = TypeOf(v) /\ idt[v].entry
    BY <1>1, <1>6 DEF IrqTables
  <2> QED BY <1>6, <2>1 DEF HandlerOf, TypeOf
<1> QED BY <1>6, <1>7

(***************************************************************************)
(* A legacy interrupt arrives as vector 0x20 and its number, whichever     *)
(* pins and overrides the machine has, if its controllers have ids of      *)
(* their own and no override is of a global interrupt above 255; and every *)
(* pin leads to irq_handler or nowhere (enable_apic.c:14-38,               *)
(* ioapic.c:10-40, search_madt.c:33-55, apic.h:59-80).                     *)
(***************************************************************************)
THEOREM PinsArriveAlways == Spec => []PinsArrive
<1>1. Init => PinsInv
  BY PinsInit
<1>2. InterruptInv /\ PinsInv /\ [Next]_vars => PinsInv'
  BY PinsStep
<1>3. Spec => []PinsInv
  BY <1>1, <1>2, InterruptsInductive, PTL DEF Spec
<1>4. FirmwareInv /\ InterruptInv /\ PinsInv => PinsArrive
  BY LegacyArrives, PinsReach DEF PinsArrive
<1> QED BY <1>3, <1>4, FirmwareInductive, InterruptsInductive, PTL

-----------------------------------------------------------------------------
(***************************************************************************)
(* The addresses of the boot.                                              *)
(***************************************************************************)
LEMMA BootSteps ==
  ASSUME [Next]_vars
  PROVE  B!Steps \/ UNCHANGED <<pc, kernel, memory, cr3, paging, gdtr, gdt, tss_bytes>>
<1>1. CASE BootStep
  <2>1. CASE B!Steps
    BY <2>1
  <2>2. CASE B!Reset
    BY <2>2 DEF B!Reset, B!segments
  <2> QED BY <1>1, <2>1, <2>2 DEF BootStep, B!Next
<1>2. CASE SetupPm \/ InitAcpi \/ EnableHandlers \/ Handling \/ Happening
             \/ UNCHANGED vars
  BY <1>2 DEF SetupPm, InitAcpi, EnableHandlers, Handling, Happening, bvars, vars
<1>3. CASE EnableIdt
  BY <1>3 DEF EnableIdt, B!Steps
<1>4. CASE StartUser
  BY <1>4 DEF StartUser, B!Steps
<1> QED BY <1>1, <1>2, <1>3, <1>4 DEF Next, KernelStep

BootInv ==
  /\ pc \in Nat /\ DOMAIN memory = B!BootTables
  /\ pc > 4 => paging
  /\ pc > 9 => /\ cr3 \in {"boot", "kernel"}
               /\ memory["pml4"][B!HHDM_PML4E_BEGIN] = [to |-> "hhdm", page |-> 0]
  /\ pc > 4 => cr3 \in {"boot", "kernel"}
  /\ DOMAIN tss_bytes = 0 .. 15 /\ tss_bytes[5] = B!TssAccess
  /\ pc >= 12 => \A n \in 0 .. 7 :
       tss_bytes[<<2, 3, 4, 7, 8, 9, 10, 11>>[n + 1]] = B!BaseByte(n)

LEMMA BootConstants ==
  /\ PTABLE_LEN \in Nat /\ PTABLE_LEN > 3 /\ HHDM_TABLES \in Nat \ {0}
  /\ SPACING \in Nat
  /\ B!HHDM_PML4E_BEGIN \in B!Index /\ B!HHDM_PML4E_BEGIN # PTABLE_LEN - 1
  /\ B!HHDM_PML4E_BEGIN # 0
<1>1. PTABLE_LEN \in Nat /\ PTABLE_LEN > 3 /\ HHDM_TABLES \in Nat \ {0}
      /\ SPACING \in Nat
  BY StartupAssumption DEF B!Constants, B!GB
<1> QED BY <1>1 DEF B!HHDM_PML4E_BEGIN, B!Index

LEMMA BootInit ==
  Init => BootInv
  BY DEF Init, B!Init, BootInv

LEMMA BootInvStep ==
  ASSUME BootInv, [Next]_vars
  PROVE  BootInv'
<1>1. CASE UNCHANGED <<pc, kernel, memory, cr3, paging, gdtr, gdt, tss_bytes>>
  BY <1>1 DEF BootInv, B!BaseByte
<1> SUFFICES ASSUME B!Steps PROVE BootInv'
  BY <1>1, BootSteps
<1> USE DEF B!At, B!Goes, B!segments
<1>2. CASE B!LoadGdt \/ B!ReloadSegments
  BY <1>2 DEF B!LoadGdt, B!ReloadSegments, BootInv
<1>3. CASE B!FillTables
  BY <1>3 DEF B!FillTables, BootInv
<1>4. CASE B!EnablePaging
  BY <1>4 DEF B!EnablePaging, BootInv
<1>5. CASE B!SetCodeaccess \/ B!LongMode \/ B!EnterHigh \/ B!ReloadGdt
  BY <1>5 DEF B!SetCodeaccess, B!LongMode, B!EnterHigh, B!ReloadGdt, BootInv
<1>6. CASE B!SetupHhdm
  <2>1. memory'["pml4"][B!HHDM_PML4E_BEGIN] = [to |-> "hhdm", page |-> 0]
    <3>1. "pml4" \in DOMAIN memory
      BY DEF BootInv, B!BootTables
    <3>2. B!HHDM_PML4E_BEGIN - B!HHDM_PML4E_BEGIN \in 0 .. HHDM_TABLES - 1
          /\ B!HhdmMarker(B!HHDM_PML4E_BEGIN - B!HHDM_PML4E_BEGIN) = 0
      BY BootConstants DEF B!HhdmMarker, B!Index
    <3> QED BY <1>6, <3>1, <3>2, BootConstants DEF B!SetupHhdm
  <2>2. DOMAIN memory' = DOMAIN memory
    BY <1>6 DEF B!SetupHhdm
  <2> QED BY <1>6, <2>1, <2>2 DEF B!SetupHhdm, BootInv
<1>7. CASE B!SetupVm
  BY <1>7 DEF B!SetupVm, BootInv
<1>8. CASE B!InitTss
  <2>1. tss_bytes' = B!Described /\ UNCHANGED <<kernel, memory, cr3, paging>>
        /\ pc = 11 /\ pc' = 12
    BY <1>8 DEF B!InitTss
  <2>2. DOMAIN tss_bytes' = 0 .. 15 /\ tss_bytes'[5] = tss_bytes[5]
    BY <2>1 DEF B!Described, B!LimitHigh
  <2>3. /\ tss_bytes'[2] = B!BaseByte(0) /\ tss_bytes'[3] = B!BaseByte(1)
        /\ tss_bytes'[4] = B!BaseByte(2) /\ tss_bytes'[7] = B!BaseByte(3)
        /\ tss_bytes'[8] = B!BaseByte(4) /\ tss_bytes'[9] = B!BaseByte(5)
        /\ tss_bytes'[10] = B!BaseByte(6) /\ tss_bytes'[11] = B!BaseByte(7)
    BY <2>1 DEF B!Described, B!LimitHigh
  <2>4. \A n \in 0 .. 7 :
          tss_bytes'[<<2, 3, 4, 7, 8, 9, 10, 11>>[n + 1]] = B!BaseByte(n)
    BY <2>3
  <2>5. \A n : B!BaseByte(n)' = B!BaseByte(n)
    BY <2>1 DEF B!BaseByte
  <2> QED BY <2>1, <2>2, <2>4, <2>5 DEF BootInv, B!TssAccess
<1>9. CASE B!LoadTr \/ B!EnableIdt \/ B!StartUser
  BY <1>9 DEF B!LoadTr, B!EnableIdt, B!StartUser, BootInv, B!BaseByte
<1> QED BY <1>2, <1>3, <1>4, <1>5, <1>6, <1>7, <1>8, <1>9 DEF B!Steps

(***************************************************************************)
(* P2V is right from setup_hhdm on, below one PDPT's reach, also when the  *)
(* kernel's own tables come; and the processor finds the TSS               *)
(* (hhdm.c:24-27, init_tss.c:18-26).                                       *)
(***************************************************************************)
THEOREM AddressesAreRight == Spec => []AddressesRight
<1>1. Init => BootInv
  BY BootInit
<1>2. BootInv /\ [Next]_vars => BootInv'
  BY BootInvStep
<1>3. ASSUME BootInv PROVE B!DirectMap
  <2> SUFFICES ASSUME pc > 9, NEW n \in 0 .. 0, NEW j \in B!Index
               PROVE  B!Translate(B!Hhdm(n, j)) = (n * PTABLE_LEN + j) * B!GB
    BY DEF B!DirectMap, B!DirectBelow
  <2>1. /\ paging /\ cr3 \in {"boot", "kernel"} /\ n = 0 /\ j \in Int
        /\ memory["pml4"][B!HHDM_PML4E_BEGIN] = [to |-> "hhdm", page |-> 0]
    BY <1>3 DEF BootInv, B!Index
  <2>2. B!Hhdm(n, j) = <<B!HHDM_PML4E_BEGIN, j, 0>>
    BY <2>1, BootConstants DEF B!Hhdm, B!Index
  <2>3. n * PTABLE_LEN + j = j
    BY <2>1, BootConstants
  <2>4. CASE cr3 = "boot"
    <3>1. 0 \div PTABLE_LEN = 0
      BY BootConstants
    <3>2. B!StaticHhdm(0, j) = j * B!GB
      <4> DEFINE first == (0 \div PTABLE_LEN) * PTABLE_LEN + j
      <4>1. first = j
        BY <2>1, <3>1, BootConstants
      <4>2. B!StaticHhdm(0, j) = first * B!GB
        BY DEF B!StaticHhdm
      <4> HIDE DEF first
      <4> QED BY <4>1, <4>2
    <3> DEFINE v == <<B!HHDM_PML4E_BEGIN, j, 0>>
               e1 == memory["pml4"][v[1]]
    <3>3. v[1] = B!HHDM_PML4E_BEGIN /\ v[2] = j
      OBVIOUS
    <3>4. e1.to = "hhdm" /\ e1.page = 0
      BY <2>1
    <3>5. B!InBoot(v) = B!StaticHhdm(e1.page, v[2])
      <4> HIDE DEF v
      <4> QED BY <3>4 DEF B!InBoot
    <3>6. B!Translate(v) = B!InBoot(v)
      <4> HIDE DEF v
      <4> QED BY <2>1, <2>4 DEF B!Translate
    <3>7. B!Translate(B!Hhdm(n, j)) = j * B!GB
      <4> HIDE DEF e1
      <4>1. B!Hhdm(n, j) = v
        BY <2>2
      <4> HIDE DEF v
      <4> QED BY <3>2, <3>3, <3>4, <3>5, <3>6, <4>1
    <3> QED BY <2>3, <3>7
  <2>5. CASE cr3 = "kernel"
    <3> DEFINE b == B!HHDM_PML4E_BEGIN
    <3>1. b \in b .. b + HHDM_TABLES - 1 /\ b # PTABLE_LEN - 1 /\ b - b = 0
      BY BootConstants DEF B!Index
    <3>2. B!InKernel(<<b, j, 0>>) = ((b - b) * PTABLE_LEN + j) * B!GB
      <4> HIDE DEF b
      <4> QED BY <3>1 DEF B!InKernel, b
    <3>3. ((b - b) * PTABLE_LEN + j) = j
      <4> HIDE DEF b
      <4> QED BY <2>1, <3>1, BootConstants
    <3> QED BY <2>1, <2>2, <2>3, <2>5, <3>2, <3>3 DEF B!Translate
  <2> QED BY <2>1, <2>4, <2>5
<1>4. ASSUME BootInv PROVE B!TssFound
  BY <1>4 DEF BootInv, B!TssFound
<1>5. BootInv => AddressesRight
  BY <1>3, <1>4 DEF AddressesRight
<1> QED BY <1>1, <1>2, <1>5, PTL DEF Spec

-----------------------------------------------------------------------------
(***************************************************************************)
(* The two passes over the memory map.  After n entries the list has got   *)
(* f[n] places and g[n] bytes have been read, in the second pass as in the *)
(* first.                                                                  *)
(***************************************************************************)
EntryAt(x) == IF x <= Len(boot.map) THEN boot.map[x]
              ELSE IF x - Len(boot.map) <= Len(boot.tail)
              THEN boot.tail[x - Len(boot.map)] ELSE M!Zero
Advance(e) == IF ~M!HasKernel(e) THEN 1
              ELSE IF e.addr = KERNEL_START_LOW THEN 2 ELSE 3
Counts(f, g) ==
  /\ f \in [Nat -> Nat] /\ g \in [Nat -> Nat] /\ f[0] = 0 /\ g[0] = 0
  /\ \A n \in Nat : /\ f[n + 1] = f[n] + Advance(EntryAt(n + 1))
                    /\ g[n + 1] = g[n] + EntryAt(n + 1).size

Goes(g, n) == EntryAt(n).size # 0 /\ g[n - 1] <= M!mmap_length
ReadTo(f, g) ==
  /\ k \in Nat \ {0} /\ pm_i = f[k - 1] /\ size_read = g[k - 1]
Lists(f, g) == \E K \in Nat \ {0} : /\ memmap_len = f[K - 1] /\ k <= K
                                    /\ ~Goes(g, K)
                                    /\ DOMAIN list \subseteq 0 .. pm_i - 1
Ends(l, n) ==
  \A p \in DOMAIN l : p \in 0 .. n /\ (p = n => l[p].type = M!MEMMAP_NULL)
PassInv ==
  /\ boot \in {c.map : c \in Computers}
  /\ pm_stage = "count" => list = <<>>
  /\ \E f, g :
       /\ Counts(f, g)
       /\ pm_stage \in {"count", "list"} => ReadTo(f, g)
       /\ pm_stage = "list" => Lists(f, g)
  /\ pm_stage \in {"pick", "done"} => Ends(list, memmap_len)

LEMMA MapTyped ==
  ASSUME boot \in {c.map : c \in Computers}
  PROVE  /\ boot.map \in Seq(M!MapEntry) /\ boot.tail \in Seq(M!MapEntry)
         /\ \A j \in 1 .. Len(boot.map) : boot.map[j].size > 0
         /\ \A x \in Nat \ {0} : EntryAt(x) \in M!MapEntry
         /\ SIZE_FIELD \in Nat
         /\ KERNEL_START_LOW \in Nat \ {0} /\ KERNEL_TEXT_PHYSICAL \in Nat
         /\ KERNEL_END_PHYSICAL \in Nat
         /\ KERNEL_START_LOW < KERNEL_TEXT_PHYSICAL
         /\ KERNEL_TEXT_PHYSICAL < KERNEL_END_PHYSICAL
<1>1. /\ boot.map \in Seq(M!MapEntry) /\ boot.tail \in Seq(M!MapEntry)
      /\ \A j \in DOMAIN boot.map : boot.map[j].size > 0
  BY StartupAssumption DEF M!Constants
<1>2. /\ SIZE_FIELD \in Nat
      /\ KERNEL_START_LOW \in Nat \ {0} /\ KERNEL_TEXT_PHYSICAL \in Nat
      /\ KERNEL_END_PHYSICAL \in Nat
      /\ KERNEL_START_LOW < KERNEL_TEXT_PHYSICAL
      /\ KERNEL_TEXT_PHYSICAL < KERNEL_END_PHYSICAL
  BY StartupAssumption DEF M!Constants
<1>3. M!Zero \in M!MapEntry
  BY DEF M!Zero, M!MapEntry
<1>4. ASSUME NEW x \in Nat \ {0} PROVE EntryAt(x) \in M!MapEntry
  <2> DEFINE L == Len(boot.map)
             T == Len(boot.tail)
  <2>1. L \in Nat /\ T \in Nat
    BY <1>1
  <2>2. CASE x <= L
    <3>1. x \in 1 .. L
      BY <2>1, <2>2
    <3> QED BY <1>1, <2>2, <3>1 DEF EntryAt
  <2>3. CASE ~(x <= L) /\ x - L <= T
    <3>1. x - L \in 1 .. T
      <4> HIDE DEF L, T
      <4> QED BY <2>1, <2>3
    <3>2. EntryAt(x) = boot.tail[x - L]
      BY <2>3 DEF EntryAt
    <3> QED BY <1>1, <3>1, <3>2
  <2>4. CASE ~(x <= L) /\ ~(x - L <= T)
    BY <1>3, <2>4 DEF EntryAt
  <2> QED BY <2>2, <2>3, <2>4
<1> QED BY <1>1, <1>2, <1>4

LEMMA EntryTyped ==
  ASSUME NEW e \in M!MapEntry
  PROVE  /\ e.size \in Nat /\ e.addr \in Nat /\ e.len \in Nat /\ e.type \in Nat
         /\ Advance(e) \in {1, 2, 3}
  BY DEF M!MapEntry, Advance

LEMMA CountsExist ==
  ASSUME boot \in {c.map : c \in Computers}
  PROVE  \E f, g : Counts(f, g)
<1> DEFINE A2 == [p \in Nat \X Nat |->
                    p[1] + IF p[2] = 0 THEN 0 ELSE Advance(EntryAt(p[2]))]
           S2 == [p \in Nat \X Nat |->
                    p[1] + IF p[2] = 0 THEN 0 ELSE EntryAt(p[2]).size]
<1>1. \A x \in Nat \ {0} : Advance(EntryAt(x)) \in Nat /\ EntryAt(x).size \in Nat
  <2>1. ASSUME NEW x \in Nat \ {0}
        PROVE  Advance(EntryAt(x)) \in Nat /\ EntryAt(x).size \in Nat
    <3>1. EntryAt(x) \in M!MapEntry
      BY MapTyped
    <3>2. Advance(EntryAt(x)) \in {1, 2, 3} /\ EntryAt(x).size \in Nat
      BY <3>1, EntryTyped
    <3> QED BY <3>2
  <2> QED BY <2>1
<1>2. A2 \in [Nat \X Nat -> Nat] /\ S2 \in [Nat \X Nat -> Nat] /\ 0 \in Nat
  BY <1>1
<1>3. PICK f \in [Nat -> Nat] : Recurs(f, 0, A2)
  <2> HIDE DEF A2
  <2> QED BY <1>2, RecursionExists
<1>4. PICK g \in [Nat -> Nat] : Recurs(g, 0, S2)
  <2> HIDE DEF S2
  <2> QED BY <1>2, RecursionExists
<1>5. ASSUME NEW n \in Nat
      PROVE  /\ f[n + 1] = f[n] + Advance(EntryAt(n + 1))
             /\ g[n + 1] = g[n] + EntryAt(n + 1).size
  <2>1. n + 1 \in Nat \ {0} /\ (n + 1) - 1 = n
    OBVIOUS
  <2>2. f[n + 1] = A2[<<f[n], n + 1>>] /\ g[n + 1] = S2[<<g[n], n + 1>>]
    <3> HIDE DEF A2, S2
    <3> QED BY <1>3, <1>4, <2>1 DEF Recurs
  <2> QED BY <1>1, <2>1, <2>2
<1> HIDE DEF A2, S2
<1>6. f[0] = 0 /\ g[0] = 0
  BY <1>3, <1>4 DEF Recurs
<1> QED BY <1>5, <1>6 DEF Counts

LEMMA CountsGrow ==
  ASSUME boot \in {c.map : c \in Computers}, NEW f, NEW g, Counts(f, g),
         NEW n \in Nat, NEW m \in 0 .. n
  PROVE  f[m] <= f[n] /\ g[m] <= g[n]
<1> DEFINE Good == {x \in 0 .. n : m <= x => f[m] <= f[x] /\ g[m] <= g[x]}
<1>1. /\ m \in Nat /\ m <= n /\ n \in Nat
      /\ \A x \in Nat : f[x] \in Nat /\ g[x] \in Nat
  BY DEF Counts
<1>2. 0 \in Good
  <2>1. m <= 0 => m = 0
    BY <1>1
  <2>2. 0 \in 0 .. n /\ f[0] <= f[0] /\ g[0] <= g[0]
    BY <1>1
  <2> QED BY <2>1, <2>2
<1>3. ASSUME NEW x \in 0 .. n - 1, x \in Good PROVE x + 1 \in Good
  <2>1. x \in Nat /\ x + 1 \in 0 .. n /\ x + 1 \in Nat \ {0}
    BY <1>1
  <2>2. /\ f[x + 1] = f[x] + Advance(EntryAt(x + 1))
        /\ g[x + 1] = g[x] + EntryAt(x + 1).size
    BY <2>1 DEF Counts
  <2>3. EntryAt(x + 1) \in M!MapEntry
    BY <2>1, MapTyped
  <2>4. Advance(EntryAt(x + 1)) \in Nat /\ EntryAt(x + 1).size \in Nat
    <3>1. Advance(EntryAt(x + 1)) \in {1, 2, 3} /\ EntryAt(x + 1).size \in Nat
      BY <2>3, EntryTyped
    <3> QED BY <3>1
  <2>5. f[x] <= f[x + 1] /\ g[x] <= g[x + 1]
    BY <1>1, <2>1, <2>2, <2>4
  <2>6. ASSUME m <= x + 1 PROVE f[m] <= f[x + 1] /\ g[m] <= g[x + 1]
    <3>1. CASE m = x + 1
      BY <1>1, <2>1, <3>1
    <3>2. CASE m <= x
      <4>1. f[m] <= f[x] /\ g[m] <= g[x]
        BY <1>3, <3>2
      <4>2. /\ f[m] \in Nat /\ f[x] \in Nat /\ f[x + 1] \in Nat
            /\ g[m] \in Nat /\ g[x] \in Nat /\ g[x + 1] \in Nat
        BY <1>1, <2>1
      <4> QED BY <2>5, <4>1, <4>2
    <3> QED BY <1>1, <2>1, <2>6, <3>1, <3>2
  <2> QED BY <2>1, <2>6
<1>4. \A x \in 0 .. n : x \in Good
  <2> HIDE DEF Good
  <2> QED BY <1>1, <1>2, <1>3, InductUpTo
<1>5. n \in Good
  <2> HIDE DEF Good
  <2>1. n \in 0 .. n
    BY <1>1
  <2> QED BY <1>4, <2>1
<1> QED BY <1>1, <1>5

Short(es, n) == Len(es) \in Nat /\ Len(es) <= n

\* What a step of the second pass writes lies before the next place.
LEMMA PutPlaces ==
  ASSUME NEW es, M!Put(es), DOMAIN list \subseteq 0 .. pm_i - 1, pm_i \in Nat,
         NEW n \in Nat, Short(es, n)
  PROVE  /\ pm_stage = "list" => DOMAIN list' \subseteq 0 .. (pm_i + n) - 1
         /\ pm_stage # "list" => list' = list
<1>1. CASE pm_stage = "list"
  <2>1. DOMAIN list' = DOMAIN list \union (pm_i .. pm_i + Len(es) - 1)
    BY <1>1 DEF M!Put
  <2> DEFINE m == Len(es)
  <2> HIDE DEF m
  <2>2. ASSUME NEW p \in DOMAIN list' PROVE p \in 0 .. (pm_i + n) - 1
    <3>1. p \in 0 .. pm_i - 1 \/ p \in pm_i .. pm_i + m - 1
      BY <2>1, <2>2 DEF m
    <3>2. m \in Nat /\ m <= n
      BY DEF m, Short
    <3> QED BY <3>1, <3>2
  <2> QED BY <1>1, <2>2
<1>2. CASE pm_stage # "list"
  BY <1>2 DEF M!Put
<1> QED BY <1>1, <1>2

LEMMA MmapLength ==
  ASSUME boot \in {c.map : c \in Computers}
  PROVE  \E h : /\ h \in [0 .. Len(boot.map) -> Nat] /\ h[0] = 0
                /\ \A j \in 1 .. Len(boot.map) :
                     h[j] = h[j - 1] + boot.map[j].size + SIZE_FIELD
                /\ M!mmap_length = h[Len(boot.map)]
<1> DEFINE es == boot.map
           n == Len(es)
           D == [p \in Nat \X (1 .. n) |-> p[1] + es[p[2]].size + SIZE_FIELD]
           IsFold(h) == h = [t \in SUBSET (DOMAIN es) |->
                               IF t = {} THEN 0
                               ELSE h[t \ {Max(t)}] + es[Max(t)].size + SIZE_FIELD]
           h == CHOOSE x : IsFold(x)
<1>1. /\ n \in Nat /\ DOMAIN es = 1 .. n /\ SIZE_FIELD \in Nat
      /\ \A j \in 1 .. n : es[j].size \in Nat
  <2>1. es \in Seq(M!MapEntry) /\ SIZE_FIELD \in Nat
    BY MapTyped
  <2>2. \A j \in 1 .. n : es[j] \in M!MapEntry
    BY <2>1
  <2>3. \A j \in 1 .. n : es[j].size \in Nat
    <3> HIDE DEF es, n
    <3> QED BY <2>2, EntryTyped
  <2> QED BY <2>1, <2>3
<1>2. D \in [Nat \X (1 .. n) -> Nat] /\ 0 \in Nat
  <2> HIDE DEF es, n
  <2> QED BY <1>1
<1>3. PICK g \in [SUBSET (1 .. n) -> Nat] : FoldedBy(g, n, 0, D)
  <2> HIDE DEF D, n
  <2> QED BY <1>1, <1>2, FoldExists
<1>4. ASSUME NEW g1, NEW t \in SUBSET (1 .. n), t # {}, g1[t \ {Max(t)}] \in Nat
      PROVE  g1[t \ {Max(t)}] + es[Max(t)].size + SIZE_FIELD
               = D[<<g1[t \ {Max(t)}], Max(t)>>]
  <2> HIDE DEF es, n
  <2>1. Max(t) \in 1 .. n
    BY <1>1, <1>4, MaxOfPlaces
  <2> QED BY <1>4, <2>1
<1>5. IsFold(g)
  <2>1. ASSUME NEW t \in SUBSET (1 .. n)
        PROVE  g[t] = IF t = {} THEN 0
                      ELSE g[t \ {Max(t)}] + es[Max(t)].size + SIZE_FIELD
    <3>1. CASE t = {}
      BY <1>3, <3>1 DEF FoldedBy
    <3>2. CASE t # {}
      <4> HIDE DEF D, n, es
      <4>1. t \ {Max(t)} \in SUBSET (1 .. n)
        OBVIOUS
      <4>2. g[t \ {Max(t)}] \in Nat
        BY <1>3, <4>1
      <4>3. g[t] = D[<<g[t \ {Max(t)}], Max(t)>>]
        BY <1>3, <3>2 DEF FoldedBy
      <4>4. g[t \ {Max(t)}] + es[Max(t)].size + SIZE_FIELD
              = D[<<g[t \ {Max(t)}], Max(t)>>]
        BY <1>4, <3>2, <4>2
      <4> QED BY <3>2, <4>3, <4>4
    <3> QED BY <3>1, <3>2
  <2> HIDE DEF n
  <2> QED BY <1>1, <1>3, <2>1
<1>6. IsFold(h)
  <2> HIDE DEF IsFold
  <2> QED BY <1>5
<1>7. M!mmap_length = h[DOMAIN es]
  BY Zenon DEF M!mmap_length, M!BytesOf, M!FoldLeft, M!MapThenFoldSet, M!Max, Max
<1>8. FoldsIn(Nat, h, n, 0, D)
  <2> HIDE DEF h, D, n
  <2>1. h[{}] = 0
    <3>1. {} \in SUBSET (DOMAIN es)
      OBVIOUS
    <3> QED BY <1>6, <3>1
  <2>2. ASSUME NEW t \in SUBSET (1 .. n), t # {}, h[t \ {Max(t)}] \in Nat
        PROVE  h[t] = D[<<h[t \ {Max(t)}], Max(t)>>]
    <3>1. h[t] = h[t \ {Max(t)}] + es[Max(t)].size + SIZE_FIELD
      BY <1>1, <1>6, <2>2
    <3> QED BY <1>4, <2>2, <3>1
  <2> QED BY <2>1, <2>2 DEF FoldsIn
<1>9. PICK f \in [0 .. n -> Nat] : EndsTrace(f, h, n, 0, D)
  <2> HIDE DEF h, D, n
  <2>1. n \in Nat /\ 0 \in Nat
    BY <1>1
  <2> QED BY <2>1, <1>2, <1>8, FoldTrace
<1>10. ASSUME NEW j \in 1 .. n
       PROVE  f[j] = f[j - 1] + es[j].size + SIZE_FIELD
  <2> HIDE DEF es, n, h
  <2>1. j - 1 \in 0 .. n
    BY <1>1
  <2> QED BY <1>1, <1>9, <2>1 DEF EndsTrace, Trace
<1> HIDE DEF h, D
<1>11. M!mmap_length = f[n] /\ f[0] = 0
  BY <1>1, <1>7, <1>9 DEF EndsTrace, Trace
<1> QED BY <1>9, <1>10, <1>11

LEMMA LengthTyped ==
  ASSUME boot \in {c.map : c \in Computers}
  PROVE  M!mmap_length \in Nat
<1>1. PICK h : /\ h \in [0 .. Len(boot.map) -> Nat]
               /\ M!mmap_length = h[Len(boot.map)]
  BY MmapLength
<1>2. Len(boot.map) \in 0 .. Len(boot.map)
  BY MapTyped
<1> QED BY <1>1, <1>2

LEMMA PassInit ==
  ASSUME Init
  PROVE  PassInv
<1>1. /\ pm_stage = "count" /\ boot \in {c.map : c \in Computers} /\ k = 1
      /\ size_read = 0 /\ pm_i = 0 /\ list = <<>>
  BY DEF Init, M!Init
<1>2. PICK f, g : Counts(f, g)
  BY <1>1, CountsExist
<1>3. ReadTo(f, g)
  BY <1>1, <1>2 DEF ReadTo, Counts
<1> QED BY <1>1, <1>2, <1>3 DEF PassInv

\* A step that passes an entry, whatever it writes to the list.
LEMMA PassOn ==
  ASSUME PassInv, M!InLoop, M!Entry.size # 0,
         k' = k + 1, size_read' = size_read + M!Entry.size,
         pm_i' = pm_i + Advance(M!Entry), UNCHANGED <<pm_stage, boot, memmap_len>>,
         NEW es, M!Put(es), Short(es, Advance(M!Entry))
  PROVE  PassInv'
<1>1. PICK f, g : /\ Counts(f, g) /\ ReadTo(f, g)
                  /\ pm_stage = "list" => Lists(f, g)
  BY DEF PassInv, M!InLoop
<1>2. /\ boot \in {c.map : c \in Computers} /\ pm_stage \in {"count", "list"}
      /\ pm_stage = "count" => list = <<>>
      /\ size_read <= M!mmap_length
  BY DEF PassInv, M!InLoop
<1>3. /\ k \in Nat \ {0} /\ pm_i = f[k - 1] /\ size_read = g[k - 1]
      /\ k - 1 \in Nat /\ (k - 1) + 1 = k
  BY <1>1 DEF ReadTo
<1>4. M!Entry = EntryAt(k)
  BY DEF M!Entry, EntryAt
<1>5. /\ f[k] = f[k - 1] + Advance(EntryAt(k)) /\ g[k] = g[k - 1] + EntryAt(k).size
      /\ f[k - 1] \in Nat
  BY <1>1, <1>3 DEF Counts
<1>6. ReadTo(f, g)'
  <2>1. k' \in Nat \ {0} /\ k' - 1 = k
    BY <1>3
  <2> QED BY <1>3, <1>4, <1>5, <2>1 DEF ReadTo
<1>7. Counts(f, g)'
  BY <1>1 DEF Counts, EntryAt
<1>8. CASE pm_stage = "list"
  <2>1. PICK K \in Nat \ {0} : /\ memmap_len = f[K - 1] /\ k <= K /\ ~Goes(g, K)
                               /\ DOMAIN list \subseteq 0 .. pm_i - 1
    BY <1>1, <1>8 DEF Lists
  <2>2. Goes(g, k)
    BY <1>2, <1>3, <1>4 DEF Goes
  <2>3. k' <= K
    <3>1. k # K
      BY <2>1, <2>2
    <3> QED BY <1>3, <2>1, <3>1
  <2>4. Advance(M!Entry) \in Nat
    <3>1. EntryAt(k) \in M!MapEntry
      BY <1>2, <1>3, MapTyped
    <3>2. Advance(EntryAt(k)) \in {1, 2, 3}
      BY <3>1, EntryTyped
    <3> QED BY <1>4, <3>2
  <2>5. DOMAIN list' \subseteq 0 .. pm_i' - 1
    <3> DEFINE n == Advance(M!Entry)
    <3>1. pm_i \in Nat /\ pm_i' = pm_i + n /\ n \in Nat /\ Short(es, n)
      BY <1>3, <1>5, <2>4
    <3> HIDE DEF n
    <3>2. DOMAIN list' \subseteq 0 .. (pm_i + n) - 1
      BY <1>8, <2>1, <3>1, PutPlaces
    <3> QED BY <3>1, <3>2
  <2>6. ~Goes(g, K)'
    <3>1. M!mmap_length' = M!mmap_length
      BY DEF M!mmap_length
    <3> QED BY <2>1, <3>1 DEF Goes, EntryAt
  <2>7. Lists(f, g)'
    <3>1. memmap_len' = f[K - 1] /\ k' <= K
      BY <2>1, <2>3
    <3> QED BY <2>3, <2>5, <2>6, <3>1 DEF Lists
  <2> QED BY <1>2, <1>6, <1>7, <1>8, <2>7 DEF PassInv
<1>9. CASE pm_stage = "count"
  <2>1. list' = list
    BY <1>9 DEF M!Put
  <2> QED BY <1>2, <1>6, <1>7, <1>9, <2>1 DEF PassInv
<1> QED BY <1>2, <1>8, <1>9

\* The end of a pass, of which f[k - 1] places are the result.
LEMMA PassEnds ==
  ASSUME PassInv, pm_stage \in {"count", "list"}, M!PassOver,
         NEW f, NEW g, Counts(f, g), ReadTo(f, g), ~Goes(g, k),
         pm_stage = "count" => list' = list,
         pm_stage = "list" => Ends(list', pm_i)
  PROVE  PassInv'
<1>1. /\ boot' = boot /\ memmap_len' = pm_i /\ k' = 1 /\ size_read' = 0
      /\ pm_i' = 0
      /\ pm_stage' \in {"panic", IF pm_stage = "count" THEN "list" ELSE "pick"}
  BY DEF M!PassOver, M!Counted, M!arena
<1>2. boot \in {c.map : c \in Computers}
      /\ (pm_stage = "count" => list = <<>>)
  BY DEF PassInv
<1>3. Counts(f, g)'
  BY <1>1 DEF Counts, EntryAt
<1>4. ReadTo(f, g)'
  BY <1>1 DEF Counts, ReadTo
<1>5. CASE pm_stage = "count"
  <2>1. k \in Nat \ {0} /\ memmap_len' = f[k - 1]
    BY <1>1 DEF ReadTo
  <2>2. PICK K \in Nat \ {0} : K = k
    BY <2>1
  <2>3. ~Goes(g, K)' /\ memmap_len' = f[K - 1] /\ k' <= K
    <3>1. ~Goes(g, K)
      BY <2>2
    <3>2. ~Goes(g, K)'
      <4>1. M!mmap_length' = M!mmap_length
        BY <1>1 DEF M!mmap_length
      <4> QED BY <1>1, <3>1, <4>1 DEF Goes, EntryAt
    <3>3. memmap_len' = f[K - 1]
      BY <2>1, <2>2
    <3>4. k' <= K
      BY <1>1
    <3> QED BY <3>2, <3>3, <3>4
  <2>5. DOMAIN list' \subseteq 0 .. pm_i' - 1
    BY <1>2, <1>5
  <2>4. Lists(f, g)'
    BY <2>3, <2>5 DEF Lists
  <2> QED BY <1>1, <1>2, <1>3, <1>4, <1>5, <2>4 DEF PassInv
<1>6. CASE pm_stage = "list"
  BY <1>1, <1>2, <1>3, <1>4, <1>6 DEF PassInv, Ends
<1> QED BY <1>5, <1>6

\* One more in front of a sequence of one and of two.
LEMMA JoinTwo ==
  ASSUME NEW a, NEW b
  PROVE  <<a>> \o <<b>> = <<a, b>>
<1> DEFINE S == {a, b}
<1>1. <<a>> \in Seq(S) /\ <<b>> \in Seq(S) /\ <<a, b>> \in Seq(S)
  OBVIOUS
<1>2. <<a>> \o <<b>> \in Seq(S) /\ Len(<<a>> \o <<b>>) = 2
  BY <1>1
<1>3. \A j \in 1 .. 2 : (<<a>> \o <<b>>)[j] = <<a, b>>[j]
  BY <1>1
<1>4. Len(<<a, b>>) = 2
  OBVIOUS
<1>5. PICK s, t : s = <<a>> \o <<b>> /\ t = <<a, b>>
  OBVIOUS
<1>6. /\ s \in Seq(S) /\ t \in Seq(S) /\ Len(s) = 2 /\ Len(t) = 2
      /\ \A j \in 1 .. 2 : s[j] = t[j]
  BY <1>1, <1>2, <1>3, <1>4, <1>5
<1>7. s = t
  BY <1>6, SeqEqual
<1> QED BY <1>5, <1>7

LEMMA JoinThree ==
  ASSUME NEW a, NEW b, NEW c
  PROVE  <<a>> \o <<b, c>> = <<a, b, c>>
<1> DEFINE S == {a, b, c}
<1>1. <<a>> \in Seq(S) /\ <<b, c>> \in Seq(S) /\ <<a, b, c>> \in Seq(S)
  OBVIOUS
<1>2. <<a>> \o <<b, c>> \in Seq(S) /\ Len(<<a>> \o <<b, c>>) = 3
  BY <1>1
<1>3. \A j \in 1 .. 3 : (<<a>> \o <<b, c>>)[j] = <<a, b, c>>[j]
  BY <1>1
<1>4. Len(<<a, b, c>>) = 3
  OBVIOUS
<1>5. PICK s, t : s = <<a>> \o <<b, c>> /\ t = <<a, b, c>>
  OBVIOUS
<1>6. /\ s \in Seq(S) /\ t \in Seq(S) /\ Len(s) = 3 /\ Len(t) = 3
      /\ \A j \in 1 .. 3 : s[j] = t[j]
  BY <1>1, <1>2, <1>3, <1>4, <1>5
<1>7. s = t
  BY <1>6, SeqEqual
<1> QED BY <1>5, <1>7

LEMMA SplitLen ==
  ASSUME NEW e
  PROVE  Short(M!Split(e), 2)
<1>1. CASE e.len > M!KERNEL_SIZE
  <2>1. M!Split(e) = <<M!Kernel, M!Rest(e)>>
    BY <1>1 DEF M!Split
  <2> QED BY <2>1 DEF Short
<1>2. CASE ~(e.len > M!KERNEL_SIZE)
  <2>1. M!Split(e) = <<M!Kernel>>
    BY <1>2 DEF M!Split
  <2> QED BY <2>1 DEF Short
<1> QED BY <1>1, <1>2

LEMMA PassStep ==
  ASSUME PassInv, [Next]_vars
  PROVE  PassInv'
<1>1. CASE UNCHANGED mvars
  <2>1. M!mmap_length' = M!mmap_length
    BY <1>1 DEF mvars, M!mmap_length
  <2>2. PICK f, g : /\ Counts(f, g)
                    /\ pm_stage \in {"count", "list"} => ReadTo(f, g)
                    /\ pm_stage = "list" => Lists(f, g)
    BY DEF PassInv
  <2>3. Counts(f, g)' /\ (ReadTo(f, g) => ReadTo(f, g)')
    BY <1>1, <2>2 DEF mvars, Counts, ReadTo, EntryAt
  <2>4. Lists(f, g) => Lists(f, g)'
    BY <1>1, <2>1 DEF mvars, Lists, Goes, EntryAt
  <2> QED BY <1>1, <2>2, <2>3, <2>4 DEF mvars, PassInv
<1> SUFFICES ASSUME M!Next PROVE PassInv'
  BY <1>1, MemMapSteps
<1>2. CASE M!Region
  <2>1. Advance(M!Entry) = 1 /\ M!Put(<<M!Listed(M!Entry)>>)
    BY <1>2 DEF M!Region, Advance
  <2>2. PICK es : es = <<M!Listed(M!Entry)>>
    OBVIOUS
  <2>3. M!Put(es) /\ Short(es, 1)
    BY <2>1, <2>2 DEF Short
  <2>4. M!InLoop /\ M!Entry.size # 0 /\ k' = k + 1 /\ pm_i' = pm_i + 1
        /\ size_read' = size_read + M!Entry.size
        /\ UNCHANGED <<pm_stage, boot, memmap_len>>
    BY <1>2 DEF M!Region, M!MoveOn
  <2> QED BY <2>1, <2>3, <2>4, PassOn
<1>3. CASE M!KernelRegion
  <2>1. Advance(M!Entry) = 2
    BY <1>3 DEF M!KernelRegion, Advance
  <2>2. PICK es : es = M!Split(M!Listed(M!Entry))
    OBVIOUS
  <2>3. M!Put(es)
    BY <1>3, <2>2 DEF M!KernelRegion
  <2>5. Short(es, 2)
    BY <2>2, SplitLen
  <2>6. M!InLoop /\ M!Entry.size # 0 /\ k' = k + 1 /\ pm_i' = pm_i + 2
        /\ size_read' = size_read + M!Entry.size
        /\ UNCHANGED <<pm_stage, boot, memmap_len>>
    BY <1>3 DEF M!KernelRegion, M!MoveOn
  <2> QED BY <2>1, <2>3, <2>5, <2>6, PassOn
<1>4. CASE M!RegionInKernel
  <2>1. Advance(M!Entry) = 3
    BY <1>4 DEF M!RegionInKernel, Advance
  <2>2. PICK x \in Garbage :
          M!Put(<<[M!Listed(M!Entry) EXCEPT
                     !.len = @ + M!Entry.addr - KERNEL_START_LOW]>> \o M!Split(x))
    BY <1>4 DEF M!RegionInKernel
  <2>3. PICK r : r = [M!Listed(M!Entry) EXCEPT
                        !.len = @ + M!Entry.addr - KERNEL_START_LOW]
    OBVIOUS
  <2>4. PICK s : s = M!Split(x)
    OBVIOUS
  <2>5. PICK es : es = <<r>> \o s
    OBVIOUS
  <2>6. M!Put(es)
    BY <2>2, <2>3, <2>4, <2>5
  <2>8. Short(es, 3)
    <3>1. CASE x.len > M!KERNEL_SIZE
      <4>1. s = <<M!Kernel, M!Rest(x)>>
        BY <2>4, <3>1 DEF M!Split
      <4>2. es = <<r, M!Kernel, M!Rest(x)>>
        BY <2>5, <4>1, JoinThree
      <4> QED BY <4>2 DEF Short
    <3>2. CASE ~(x.len > M!KERNEL_SIZE)
      <4>1. s = <<M!Kernel>>
        BY <2>4, <3>2 DEF M!Split
      <4>2. es = <<r, M!Kernel>>
        BY <2>5, <4>1, JoinTwo
      <4> QED BY <4>2 DEF Short
    <3> QED BY <3>1, <3>2
  <2>9. M!InLoop /\ M!Entry.size # 0 /\ k' = k + 1 /\ pm_i' = pm_i + 3
        /\ size_read' = size_read + M!Entry.size
        /\ UNCHANGED <<pm_stage, boot, memmap_len>>
    BY <1>4 DEF M!RegionInKernel, M!MoveOn
  <2> QED BY <2>1, <2>6, <2>8, <2>9, PassOn
<1>5. CASE M!Terminated \/ M!EndOfMap
  <2>1. /\ pm_stage \in {"count", "list"} /\ boot \in {c.map : c \in Computers}
    BY <1>5 DEF M!Terminated, M!EndOfMap, M!InLoop, PassInv
  <2>2. PICK f, g : Counts(f, g) /\ ReadTo(f, g)
                    /\ (pm_stage = "list" => Lists(f, g))
    BY <2>1 DEF PassInv
  <2>3. /\ k \in Nat \ {0} /\ size_read = g[k - 1] /\ k - 1 \in Nat
        /\ pm_i = f[k - 1] /\ pm_i \in Nat /\ size_read \in Nat
    BY <2>2 DEF ReadTo, Counts
  <2>4. M!Entry = EntryAt(k)
    BY DEF M!Entry, EntryAt
  <2>5. pm_stage = "list" => DOMAIN list \subseteq 0 .. pm_i - 1
    BY <2>2 DEF Lists
  <2>6. CASE M!Terminated
    <3>1. ~Goes(g, k)
      BY <2>4, <2>6 DEF Goes, M!Terminated
    <3>2. PICK es : es = <<[M!Listed(M!Entry) EXCEPT !.type = M!MEMMAP_NULL]>>
      OBVIOUS
    <3>3. M!Put(es) /\ Short(es, 1)
      BY <2>6, <3>2 DEF M!Terminated, Short
    <3>4. pm_stage = "list" => DOMAIN list' \subseteq 0 .. (pm_i + 1) - 1
      <4> SUFFICES ASSUME pm_stage = "list"
                   PROVE  DOMAIN list' \subseteq 0 .. (pm_i + 1) - 1
        OBVIOUS
      <4> QED BY <2>3, <2>5, <3>3, PutPlaces
    <3>5. pm_stage = "list" => Ends(list', pm_i)
      <4> SUFFICES ASSUME pm_stage = "list", NEW p \in DOMAIN list'
                   PROVE  p \in 0 .. pm_i
                            /\ (p = pm_i => list'[p].type = M!MEMMAP_NULL)
        BY DEF Ends
      <4>1. p \in 0 .. pm_i
        BY <2>3, <3>4
      <4>2. Len(es) = 1 /\ es[1].type = M!MEMMAP_NULL
        BY <3>2 DEF M!Listed
      <4>3. CASE p = pm_i
        <5>1. pm_i \in pm_i .. pm_i + Len(es) - 1 /\ pm_i - pm_i + 1 = 1
          BY <2>3, <4>2
        <5>2. list'[pm_i] = es[1]
          BY <3>3, <5>1 DEF M!Put
        <5> QED BY <4>1, <4>2, <4>3, <5>2
      <4> QED BY <4>1, <4>3
    <3>6. pm_stage = "count" => list' = list
      BY <3>3 DEF M!Put
    <3>7. M!PassOver
      BY <2>6 DEF M!Terminated
    <3> QED BY <2>1, <2>2, <3>1, <3>5, <3>6, <3>7, PassEnds
  <2>7. CASE M!EndOfMap /\ boot.given
    <3>1. ~Goes(g, k)
      <4>1. size_read > M!mmap_length
        BY <2>7 DEF M!EndOfMap
      <4>2. M!mmap_length \in Nat
        BY <2>1, LengthTyped
      <4> QED BY <2>3, <4>1, <4>2 DEF Goes
    <3>2. M!PassOver /\ list' = list
      BY <2>7 DEF M!EndOfMap
    <3>3. pm_stage = "list" => Ends(list', pm_i)
      BY <2>3, <2>5, <3>2 DEF Ends
    <3> QED BY <2>1, <2>2, <3>1, <3>2, <3>3, PassEnds
  <2>8. CASE M!EndOfMap /\ ~boot.given
    <3>1. pm_stage' = "panic" /\ boot' = boot
      BY <2>8 DEF M!EndOfMap
    <3>2. Counts(f, g)'
      BY <2>2, <3>1 DEF Counts, EntryAt
    <3> QED BY <2>1, <3>1, <3>2 DEF PassInv
  <2> QED BY <1>5, <2>6, <2>7, <2>8
<1>6. CASE M!Pick \/ M!Picked \/ M!PickGarbage
  <2>1. /\ pm_stage = "pick" /\ pm_stage' \in {"pick", "done", "wild"}
        /\ UNCHANGED <<boot, memmap_len, list>>
    BY <1>6 DEF M!Pick, M!Picked, M!PickGarbage
  <2>2. PICK f, g : Counts(f, g)
    BY DEF PassInv
  <2>3. Counts(f, g)'
    BY <2>1, <2>2 DEF Counts, EntryAt
  <2> QED BY <2>1, <2>3 DEF PassInv
<1> QED BY <1>2, <1>3, <1>4, <1>5, <1>6 DEF M!Next

\* The second pass gets no further than the first.
LEMMA PassFits ==
  ASSUME PassInv
  PROVE  M!ListFits
<1>1. CASE pm_stage = "list"
  <2>1. PICK f, g : Counts(f, g) /\ ReadTo(f, g) /\ Lists(f, g)
    BY <1>1 DEF PassInv
  <2>2. PICK K \in Nat \ {0} : /\ memmap_len = f[K - 1] /\ k <= K
                               /\ DOMAIN list \subseteq 0 .. pm_i - 1
    BY <2>1 DEF Lists
  <2>3. k \in Nat \ {0} /\ pm_i = f[k - 1] /\ K - 1 \in Nat /\ k - 1 \in 0 .. K - 1
    BY <2>1, <2>2 DEF ReadTo
  <2>4. boot \in {c.map : c \in Computers}
    BY DEF PassInv
  <2>5. f[k - 1] <= f[K - 1]
    BY <2>1, <2>3, <2>4, CountsGrow
  <2>6. f[k - 1] \in Nat /\ f[K - 1] \in Nat
    <3>1. f \in [Nat -> Nat]
      BY <2>1 DEF Counts
    <3>2. k - 1 \in Nat
      BY <2>3
    <3> QED BY <2>3, <3>1, <3>2
  <2> QED BY <1>1, <2>2, <2>3, <2>5, <2>6 DEF M!ListFits
<1>2. CASE pm_stage \in {"pick", "done"}
  BY <1>2 DEF PassInv, Ends, M!ListFits
<1> QED BY <1>1, <1>2 DEF M!ListFits

-----------------------------------------------------------------------------
(***************************************************************************)
(* The list of a PC.  Of the entry j, which the kernel is in, it has two   *)
(* places: the kernel and what is left.                                    *)
(***************************************************************************)
KernelIs(j) ==
  /\ j \in M!Available /\ boot.map[j].addr = KERNEL_START_LOW
  /\ M!KernelCells \subseteq M!Cells(boot.map[j])

Place(j, x) == IF x <= j THEN x - 1 ELSE x
Held(j, p) == IF p < j - 1 THEN M!Listed(boot.map[p + 1])
              ELSE IF p = j - 1 THEN M!Kernel
              ELSE IF p = j THEN M!Rest(M!Listed(boot.map[j]))
              ELSE IF p <= Len(boot.map) THEN M!Listed(boot.map[p])
              ELSE M!Listed(M!Zero)
ListOf(j, n) == [p \in 0 .. n - 1 |-> Held(j, p)]

Bytes(h) ==
  /\ h \in [0 .. Len(boot.map) -> Nat] /\ h[0] = 0
  /\ \A j \in 1 .. Len(boot.map) :
       h[j] = h[j - 1] + boot.map[j].size + SIZE_FIELD

Listing(j) ==
  /\ k \in 1 .. Len(boot.map) + 1 /\ pm_i = Place(j, k) /\ list = ListOf(j, pm_i)
  /\ size_read \in Nat /\ \A h : Bytes(h) => size_read <= h[k - 1]

Best(j) ==
  /\ arena_begin \in Nat /\ arena_end \in Nat /\ arena_begin <= arena_end
  /\ \A p \in 0 .. pm_i - 1 : Held(j, p).type = M!MEMMAP_AVAILABLE =>
       Held(j, p).len <= arena_end - arena_begin
  /\ \/ arena_begin = 0 /\ arena_end = 0
     \/ \E p \in 0 .. pm_i - 1 : /\ Held(j, p).type = M!MEMMAP_AVAILABLE
                                 /\ arena_begin = Held(j, p).addr
                                 /\ arena_end = Held(j, p).addr + Held(j, p).len
Picking(j) ==
  /\ list = ListOf(j, Len(boot.map) + 2) /\ pm_i \in 0 .. Len(boot.map) + 1
  /\ pm_stage = "done" => pm_i = Len(boot.map) + 1
  /\ Best(j)

PcInv ==
  /\ boot \in {c.map : c \in Computers}
  /\ pm_stage = "count" => list = <<>>
  /\ pm_stage \in {"count", "list"} => arena_begin = 0 /\ arena_end = 0
  /\ M!PcMap => /\ pm_stage # "wild"
                /\ \A j : KernelIs(j) =>
                     /\ pm_stage = "list" => Listing(j)
                     /\ pm_stage \in {"pick", "done"} => Picking(j)

LEMMA PcFacts ==
  ASSUME boot \in {c.map : c \in Computers}, M!PcMap, NEW j, KernelIs(j)
  PROVE  /\ Len(boot.map) \in Nat /\ j \in 1 .. Len(boot.map)
         /\ M!KERNEL_SIZE \in Nat /\ boot.map[j].len > M!KERNEL_SIZE
         /\ \A x \in 1 .. Len(boot.map) :
              /\ boot.map[x] \in M!MapEntry /\ boot.map[x].type # M!MEMMAP_NULL
              /\ boot.map[x].size > 0
              /\ M!HasKernel(boot.map[x]) <=> x = j
         /\ \A x \in M!Available : x # j =>
              /\ boot.map[x].addr # KERNEL_START_LOW /\ boot.map[x].len > 0
              /\ M!Cells(boot.map[x]) \intersect M!KernelCells = {}
         /\ boot.tail = <<>> /\ boot.given
<1> DEFINE L == Len(boot.map)
           S == KERNEL_START_LOW
           T == KERNEL_TEXT_PHYSICAL
           E == KERNEL_END_PHYSICAL
<1>1. /\ boot.map \in Seq(M!MapEntry)
      /\ \A x \in 1 .. L : boot.map[x].size > 0
      /\ S \in Nat \ {0} /\ T \in Nat /\ E \in Nat /\ S < T /\ T < E
  BY MapTyped
<1>2. L \in Nat /\ DOMAIN boot.map = 1 .. L
      /\ \A x \in 1 .. L : boot.map[x] \in M!MapEntry
  BY <1>1
<1>3. /\ j \in 1 .. L /\ boot.map[j].addr = S
      /\ S .. E - 1 \subseteq M!Cells(boot.map[j])
  BY <1>2 DEF KernelIs, M!Available, M!KernelCells
<1>4. /\ boot.tail = <<>> /\ boot.given
      /\ \A x \in 1 .. L : boot.map[x].type # M!MEMMAP_NULL
      /\ \A x \in M!Available : boot.map[x].len > 0
      /\ \A x \in M!Available : \A y \in M!Available \ {x} :
           M!Cells(boot.map[x]) \intersect M!Cells(boot.map[y]) = {}
  BY <1>2 DEF M!PcMap
<1>5. M!KERNEL_SIZE = E - T
  BY DEF M!KERNEL_SIZE
<1>6. M!KERNEL_SIZE \in Nat /\ boot.map[j].len > M!KERNEL_SIZE
  <2>1. boot.map[j].len \in Nat
    BY <1>2, <1>3, EntryTyped
  <2>2. M!Cells(boot.map[j]) = S .. S + boot.map[j].len - 1
    BY <1>3 DEF M!Cells
  <2> DEFINE n == boot.map[j].len
  <2> HIDE DEF n, S, T, E
  <2>3. E - 1 \in S .. E - 1
    BY <1>1
  <2>4. E - 1 \in S .. S + n - 1
    BY <1>3, <2>2, <2>3 DEF n
  <2>5. E - 1 <= S + n - 1
    BY <2>4
  <2>6. n > E - T /\ E - T \in Nat
    BY <1>1, <2>1, <2>5 DEF n
  <2> QED BY <1>5, <2>6 DEF n
<1>7. ASSUME NEW x \in M!Available, x # j
      PROVE  M!Cells(boot.map[x]) \intersect M!KernelCells = {}
  <2>1. j \in M!Available
    BY DEF KernelIs
  <2>2. M!Cells(boot.map[x]) \intersect M!Cells(boot.map[j]) = {}
    BY <1>4, <1>7, <2>1
  <2> QED BY <2>2 DEF KernelIs
<1>8. ASSUME NEW x \in M!Available, x # j
      PROVE  /\ boot.map[x].addr # S /\ ~M!HasKernel(boot.map[x])
             /\ boot.map[x].len > 0
  <2>1. x \in 1 .. L /\ boot.map[x].len > 0
    BY <1>2, <1>4 DEF M!Available
  <2>2. boot.map[x].addr \in Nat /\ boot.map[x].len \in Nat
    BY <1>2, <2>1, EntryTyped
  <2>3. boot.map[x].addr \notin M!KernelCells
    <3>1. boot.map[x].addr \in M!Cells(boot.map[x])
      <4> DEFINE a == boot.map[x].addr
                 n == boot.map[x].len
      <4>1. M!Cells(boot.map[x]) = a .. a + n - 1
        BY DEF M!Cells
      <4>2. a \in Nat /\ n \in Nat /\ n > 0
        BY <2>1, <2>2
      <4>3. a \in a .. a + n - 1
        <5> HIDE DEF a, n
        <5> QED BY <4>2
      <4> QED BY <4>1, <4>3
    <3> QED BY <1>7, <1>8, <3>1
  <2> DEFINE a == boot.map[x].addr
             n == boot.map[x].len
  <2>4. a \notin S .. E - 1
    BY <2>3 DEF M!KernelCells
  <2>5. a # S
    <3> HIDE DEF S, T, E
    <3> QED BY <1>1, <2>4
  <2>6. ~(a >= S /\ a + n <= E)
    <3>1. a \in Nat /\ n \in Nat /\ n > 0
      BY <2>1, <2>2
    <3> HIDE DEF a, n, S, T, E
    <3> QED BY <1>1, <2>4, <3>1
  <2>7. ~M!HasKernel(boot.map[x])
    BY <2>5, <2>6 DEF M!HasKernel
  <2> QED BY <2>1, <2>5, <2>7
<1>9. M!HasKernel(boot.map[j])
  <2>1. boot.map[j].type = M!MEMMAP_AVAILABLE
    BY DEF KernelIs, M!Available
  <2> QED BY <1>1, <1>3, <2>1 DEF M!HasKernel
<1>10. ASSUME NEW x \in 1 .. L PROVE M!HasKernel(boot.map[x]) <=> x = j
  <2>1. M!HasKernel(boot.map[x]) => x \in M!Available
    BY <1>2 DEF M!HasKernel, M!Available
  <2> QED BY <1>8, <1>9, <2>1
<1>11. ASSUME NEW x \in 1 .. L
       PROVE  /\ boot.map[x] \in M!MapEntry /\ boot.map[x].type # M!MEMMAP_NULL
              /\ boot.map[x].size > 0
  BY <1>1, <1>2, <1>4
<1>12. ASSUME NEW x \in M!Available, x # j
       PROVE  /\ boot.map[x].addr # S /\ boot.map[x].len > 0
              /\ M!Cells(boot.map[x]) \intersect M!KernelCells = {}
  BY <1>7, <1>8, <1>12
<1> QED BY <1>2, <1>3, <1>4, <1>6, <1>10, <1>11, <1>12

\* What the places of the list hold.
LEMMA HeldTyped ==
  ASSUME boot \in {c.map : c \in Computers}, M!PcMap, NEW j, KernelIs(j)
  PROVE  /\ \A p \in 0 .. Len(boot.map) :
              /\ Held(j, p).type # M!MEMMAP_NULL
              /\ Held(j, p).addr \in Nat /\ Held(j, p).len \in Nat
         /\ \A x \in 1 .. j - 1 : Held(j, x - 1) = M!Listed(boot.map[x])
         /\ \A x \in j + 1 .. Len(boot.map) : Held(j, x) = M!Listed(boot.map[x])
         /\ Held(j, j - 1) = M!Kernel
         /\ Held(j, j) = M!Rest(M!Listed(boot.map[j]))
         /\ Held(j, Len(boot.map) + 1) = M!Listed(M!Zero)
<1> DEFINE L == Len(boot.map)
<1>1. /\ L \in Nat /\ j \in 1 .. L /\ M!KERNEL_SIZE \in Nat
      /\ boot.map[j].len > M!KERNEL_SIZE
      /\ \A x \in 1 .. L : boot.map[x] \in M!MapEntry
                           /\ boot.map[x].type # M!MEMMAP_NULL
  BY PcFacts
<1>2. KERNEL_START_LOW \in Nat /\ KERNEL_END_PHYSICAL \in Nat
  BY MapTyped
<1>3. ASSUME NEW x \in 1 .. j - 1 PROVE Held(j, x - 1) = M!Listed(boot.map[x])
  <2>1. x - 1 < j - 1 /\ (x - 1) + 1 = x
    BY <1>1
  <2> QED BY <2>1 DEF Held
<1>4. ASSUME NEW x \in j + 1 .. L PROVE Held(j, x) = M!Listed(boot.map[x])
  <2>1. ~(x < j - 1) /\ x # j - 1 /\ x # j /\ x <= L
    <3> HIDE DEF L
    <3> QED BY <1>1
  <2> QED BY <2>1 DEF Held
<1>5. Held(j, j - 1) = M!Kernel
  <2>1. ~(j - 1 < j - 1)
    BY <1>1
  <2> QED BY <2>1 DEF Held
<1>6. Held(j, j) = M!Rest(M!Listed(boot.map[j]))
  <2>1. ~(j < j - 1) /\ j # j - 1
    BY <1>1
  <2> QED BY <2>1 DEF Held
<1>7. Held(j, L + 1) = M!Listed(M!Zero)
  <2>1. ~(L + 1 < j - 1) /\ L + 1 # j - 1 /\ L + 1 # j /\ ~(L + 1 <= L)
    <3> HIDE DEF L
    <3> QED BY <1>1
  <2> QED BY <2>1 DEF Held
<1>8. ASSUME NEW p \in 0 .. L
      PROVE  /\ Held(j, p).type # M!MEMMAP_NULL
             /\ Held(j, p).addr \in Nat /\ Held(j, p).len \in Nat
  <2>1. ASSUME NEW x \in 1 .. L
        PROVE  /\ M!Listed(boot.map[x]).type # M!MEMMAP_NULL
               /\ M!Listed(boot.map[x]).addr \in Nat
               /\ M!Listed(boot.map[x]).len \in Nat
    BY <1>1, EntryTyped DEF M!Listed
  <2>2. CASE p < j - 1
    <3>1. p + 1 \in 1 .. j - 1 /\ p + 1 \in 1 .. L /\ (p + 1) - 1 = p
      <4> HIDE DEF L
      <4> QED BY <1>1, <2>2
    <3>2. Held(j, p) = M!Listed(boot.map[p + 1])
      BY <2>2 DEF Held
    <3> QED BY <2>1, <3>1, <3>2
  <2>3. CASE p = j - 1
    <3>1. /\ M!Kernel.type = 6 /\ M!Kernel.addr = KERNEL_START_LOW
          /\ M!Kernel.len = M!KERNEL_SIZE
      BY DEF M!Kernel, M!MEMMAP_KERNEL
    <3>2. M!MEMMAP_NULL = 0
      BY DEF M!MEMMAP_NULL
    <3> QED BY <1>1, <1>2, <1>5, <2>3, <3>1, <3>2
  <2>4. CASE p = j
    <3> DEFINE e == M!Listed(boot.map[j])
    <3>1. /\ M!Rest(e).addr = KERNEL_END_PHYSICAL /\ M!Rest(e).type = e.type
          /\ M!Rest(e).len = e.len - M!KERNEL_SIZE
      BY DEF M!Rest, M!RestBegin, M!Listed
    <3>2. e.type # M!MEMMAP_NULL /\ e.len \in Nat
      BY <1>1, <2>1
    <3>3. e.len = boot.map[j].len
      BY DEF M!Listed
    <3>4. M!Rest(e).len \in Nat
      <4> HIDE DEF e
      <4> QED BY <1>1, <3>1, <3>2, <3>3
    <3> HIDE DEF e
    <3> QED BY <1>2, <1>6, <2>4, <3>1, <3>2, <3>4 DEF e
  <2>5. CASE p > j
    <3>1. p \in j + 1 .. L /\ p \in 1 .. L
      <4> HIDE DEF L
      <4> QED BY <1>1, <2>5
    <3>2. Held(j, p) = M!Listed(boot.map[p])
      BY <1>4, <3>1
    <3> QED BY <2>1, <3>1, <3>2
  <2>6. p < j - 1 \/ p = j - 1 \/ p = j \/ p > j
    <3> HIDE DEF L
    <3> QED BY <1>1
  <2> QED BY <2>2, <2>3, <2>4, <2>5, <2>6
<1> QED BY <1>3, <1>4, <1>5, <1>6, <1>7, <1>8

LEMMA SumAbove ==
  ASSUME NEW p \in Nat, NEW q \in Nat, NEW r \in Nat
  PROVE  p <= p + q + r
OBVIOUS

\* What has been read of the map is not more than what there is.
LEMMA BytesBound ==
  ASSUME boot \in {c.map : c \in Computers}, NEW n \in Nat,
         NEW x \in 0 .. Len(boot.map), \A h : Bytes(h) => n <= h[x]
  PROVE  n <= M!mmap_length
<1> DEFINE L == Len(boot.map)
<1>1. L \in Nat /\ SIZE_FIELD \in Nat
  BY MapTyped
<1>2. PICK h : /\ h \in [0 .. L -> Nat] /\ h[0] = 0
               /\ \A j \in 1 .. L : h[j] = h[j - 1] + boot.map[j].size + SIZE_FIELD
               /\ M!mmap_length = h[L]
  BY MmapLength
<1>3. Bytes(h)
  BY <1>2 DEF Bytes
<1>4. \A j \in 1 .. L : boot.map[j].size \in Nat
  <2>1. boot.map \in Seq(M!MapEntry)
    BY MapTyped
  <2>2. \A j \in 1 .. L : boot.map[j] \in M!MapEntry
    BY <2>1
  <2> HIDE DEF L
  <2> QED BY <2>2, EntryTyped
<1> DEFINE Good == {y \in 0 .. L : x <= y => h[x] <= h[y]}
<1> HIDE DEF L
<1>5. x \in 0 .. L /\ x \in Nat /\ h[x] \in Nat
  BY <1>1, <1>2 DEF L
<1>6. 0 \in Good
  <2>1. x <= 0 => x = 0
    BY <1>5
  <2>2. 0 \in 0 .. L /\ h[0] <= h[0]
    BY <1>1, <1>2
  <2> QED BY <2>1, <2>2
<1>7. ASSUME NEW y \in 0 .. L - 1, y \in Good PROVE y + 1 \in Good
  <2>1. /\ y \in 0 .. L /\ y + 1 \in 0 .. L /\ y + 1 \in 1 .. L /\ (y + 1) - 1 = y
        /\ y \in Nat
    BY <1>1
  <2>2. h[y + 1] = h[y] + boot.map[y + 1].size + SIZE_FIELD
    BY <1>2, <2>1
  <2>3. h[y] \in Nat /\ h[y + 1] \in Nat /\ boot.map[y + 1].size \in Nat
    BY <1>2, <1>4, <2>1
  <2>4. h[y] <= h[y + 1]
    BY <1>1, <2>2, <2>3, SumAbove
  <2>5. ASSUME x <= y + 1 PROVE h[x] <= h[y + 1]
    <3>1. CASE x = y + 1
      BY <2>3, <3>1
    <3>2. CASE x <= y
      <4>1. h[x] <= h[y]
        BY <1>7, <3>2
      <4> QED BY <1>5, <2>3, <2>4, <4>1
    <3> QED BY <1>5, <2>1, <2>5, <3>1, <3>2
  <2> QED BY <2>1, <2>5
<1>8. \A y \in 0 .. L : y \in Good
  <2> HIDE DEF Good
  <2> QED BY <1>1, <1>6, <1>7, InductUpTo
<1>9. h[x] <= h[L]
  <2>1. L \in 0 .. L /\ x <= L
    BY <1>1, <1>5
  <2> QED BY <1>8, <2>1
<1>10. n <= h[x]
  BY <1>3
<1>11. h[L] \in Nat
  BY <1>1, <1>2
<1> QED BY <1>2, <1>5, <1>9, <1>10, <1>11

\* A step does not change the map.
LEMMA PcSame ==
  ASSUME boot' = boot
  PROVE  /\ M!PcMap' <=> M!PcMap
         /\ \A j : KernelIs(j)' <=> KernelIs(j)
         /\ \A j, p : Held(j, p)' = Held(j, p)
         /\ \A j, n : ListOf(j, n)' = ListOf(j, n)
         /\ \A h : Bytes(h)' <=> Bytes(h)
<1>1. M!PcMap' <=> M!PcMap
  BY DEF M!PcMap, M!Available, M!Cells, M!KernelCells
<1>2. ASSUME NEW j PROVE KernelIs(j)' <=> KernelIs(j)
  BY DEF KernelIs, M!Available, M!Cells, M!KernelCells
<1>3. ASSUME NEW j, NEW p PROVE Held(j, p)' = Held(j, p)
  BY DEF Held, M!Listed, M!Rest, M!Kernel, M!Zero
<1>4. ASSUME NEW j, NEW n PROVE ListOf(j, n)' = ListOf(j, n)
  BY <1>3 DEF ListOf
<1>5. ASSUME NEW h PROVE Bytes(h)' <=> Bytes(h)
  BY DEF Bytes
<1> QED BY <1>1, <1>2, <1>3, <1>4, <1>5

LEMMA PcInit ==
  ASSUME Init
  PROVE  PcInv
BY DEF Init, M!Init, PcInv

\* es behind what the list has already.
LEMMA ListGrows ==
  ASSUME NEW j, NEW es, NEW n \in Nat, M!Put(es), pm_stage = "list",
         pm_i \in Nat, list = ListOf(j, pm_i), Len(es) = n,
         \A q \in 1 .. n : es[q] = Held(j, pm_i + q - 1)
  PROVE  list' = ListOf(j, pm_i + n)
<1>1. list' = [p \in DOMAIN list \union (pm_i .. pm_i + n - 1) |->
                 IF p \in pm_i .. pm_i + n - 1 THEN es[p - pm_i + 1] ELSE list[p]]
  BY DEF M!Put
<1>2. DOMAIN list = 0 .. pm_i - 1
  BY DEF ListOf
<1>3. DOMAIN list \union (pm_i .. pm_i + n - 1) = 0 .. pm_i + n - 1
  BY <1>2
<1>4. ASSUME NEW p \in 0 .. pm_i + n - 1
      PROVE  (IF p \in pm_i .. pm_i + n - 1 THEN es[p - pm_i + 1] ELSE list[p])
               = Held(j, p)
  <2>1. CASE p \in pm_i .. pm_i + n - 1
    <3>1. p - pm_i + 1 \in 1 .. n /\ pm_i + (p - pm_i + 1) - 1 = p
      BY <2>1
    <3>2. es[p - pm_i + 1] = Held(j, pm_i + (p - pm_i + 1) - 1)
      BY <3>1
    <3> QED BY <2>1, <3>1, <3>2
  <2>2. CASE p \notin pm_i .. pm_i + n - 1
    <3>1. p \in 0 .. pm_i - 1
      BY <2>2
    <3> QED BY <2>2, <3>1 DEF ListOf
  <2> QED BY <2>1, <2>2
<1> QED BY <1>1, <1>3, <1>4 DEF ListOf

\* A step of the second pass that passes an entry.
LEMMA PcPasses ==
  ASSUME boot \in {c.map : c \in Computers}, M!PcMap, NEW j, KernelIs(j),
         Listing(j), pm_stage = "list", M!Entry.size # 0,
         M!Region \/ M!KernelRegion \/ M!RegionInKernel
  PROVE  Listing(j)'
<1> DEFINE L == Len(boot.map)
<1>1. /\ L \in Nat /\ j \in 1 .. L
      /\ boot.map[j].len > M!KERNEL_SIZE /\ boot.tail = <<>>
      /\ \A x \in 1 .. L : boot.map[x] \in M!MapEntry
                           /\ (M!HasKernel(boot.map[x]) <=> x = j)
      /\ boot.map[j].addr = KERNEL_START_LOW
  BY PcFacts DEF KernelIs
<1>2. /\ k \in 1 .. L + 1 /\ pm_i = Place(j, k) /\ list = ListOf(j, pm_i)
      /\ size_read \in Nat /\ \A h : Bytes(h) => size_read <= h[k - 1]
  BY DEF Listing
<1>3. k \in 1 .. L /\ M!Entry = boot.map[k]
  <2>1. k <= L => M!Entry = boot.map[k]
    BY DEF M!Entry
  <2>2. ~(k <= L) => k - L = 1
    <3> HIDE DEF L
    <3> QED BY <1>1, <1>2
  <2>3. Len(boot.tail) = 0 /\ ~(1 <= 0)
    BY <1>1
  <2>4. ~(k <= L) => M!Entry = M!Zero
    BY <2>2, <2>3 DEF M!Entry
  <2>5. M!Zero.size = 0
    BY DEF M!Zero
  <2>6. k <= L
    BY <2>4, <2>5
  <2>7. k \in 1 .. L
    <3> HIDE DEF L
    <3> QED BY <1>1, <1>2, <2>6
  <2> QED BY <2>1, <2>6, <2>7
<1>4. /\ k' = k + 1 /\ size_read' = size_read + M!Entry.size /\ boot' = boot
  BY DEF M!Region, M!KernelRegion, M!RegionInKernel, M!MoveOn
<1>5. \A x, y : Held(j, x)' = Held(j, x) /\ ListOf(j, y)' = ListOf(j, y)
  BY <1>4, PcSame
<1>6. k' \in 1 .. L + 1 /\ k' - 1 = k
  <2> HIDE DEF L
  <2> QED BY <1>1, <1>3, <1>4
<1>7. size_read' \in Nat /\ \A h : Bytes(h)' => size_read' <= h[k' - 1]
  <2>1. M!Entry.size \in Nat
    BY <1>1, <1>3, EntryTyped
  <2>2. ASSUME NEW h, Bytes(h) PROVE size_read + M!Entry.size <= h[k]
    <3>1. h[k] = h[k - 1] + M!Entry.size + SIZE_FIELD
      BY <1>3, <2>2 DEF Bytes
    <3>2. k - 1 \in 0 .. L /\ SIZE_FIELD \in Nat
      <4> HIDE DEF L
      <4> QED BY <1>1, <1>3, MapTyped
    <3>3. h[k - 1] \in Nat /\ size_read <= h[k - 1]
      BY <1>2, <2>2, <3>2 DEF Bytes
    <3> QED BY <1>2, <2>1, <3>1, <3>2, <3>3
  <2>3. \A h : Bytes(h)' <=> Bytes(h)
    BY <1>4, PcSame
  <2> QED BY <1>2, <1>4, <1>6, <2>1, <2>2, <2>3
<1>8. pm_i' = Place(j, k + 1) /\ list' = ListOf(j, pm_i')
  <2>1. CASE M!Region
    <3>1. M!Put(<<M!Listed(boot.map[k])>>) /\ pm_i' = pm_i + 1 /\ k # j
      BY <1>1, <1>3, <2>1 DEF M!Region
    <3>2. PICK es : es = <<M!Listed(boot.map[k])>>
      OBVIOUS
    <3>3. M!Put(es) /\ Len(es) = 1 /\ es[1] = M!Listed(boot.map[k])
      BY <3>1, <3>2
    <3>4. /\ Held(j, pm_i) = M!Listed(boot.map[k]) /\ pm_i \in Nat
          /\ Place(j, k + 1) = pm_i + 1
      <4>1. CASE k < j
        <5>1. k \in 1 .. j - 1 /\ pm_i = k - 1 /\ Place(j, k + 1) = k
          <6> HIDE DEF L
          <6> QED BY <1>1, <1>2, <1>3, <4>1 DEF Place
        <5>2. Held(j, k - 1) = M!Listed(boot.map[k])
          BY <5>1, HeldTyped
        <5> QED BY <5>1, <5>2
      <4>2. CASE k > j
        <5>1. k \in j + 1 .. L /\ pm_i = k /\ Place(j, k + 1) = k + 1 /\ k \in Nat
          <6> HIDE DEF L
          <6> QED BY <1>1, <1>2, <1>3, <4>2 DEF Place
        <5>2. Held(j, k) = M!Listed(boot.map[k])
          BY <5>1, HeldTyped
        <5> QED BY <5>1, <5>2
      <4>3. k < j \/ k > j
        <5> HIDE DEF L
        <5> QED BY <1>1, <1>3, <3>1
      <4> QED BY <4>1, <4>2, <4>3
    <3>5. \A q \in 1 .. 1 : es[q] = Held(j, pm_i + q - 1)
      <4>1. pm_i + 1 - 1 = pm_i
        BY <3>4
      <4> QED BY <3>3, <3>4, <4>1
    <3>6. list' = ListOf(j, pm_i + 1)
      BY <1>2, <3>3, <3>4, <3>5, ListGrows
    <3> QED BY <3>1, <3>4, <3>6
  <2>2. CASE M!KernelRegion
    <3>1. k = j /\ pm_i' = pm_i + 2 /\ M!Put(M!Split(M!Listed(boot.map[j])))
      BY <1>1, <1>3, <2>2 DEF M!KernelRegion
    <3> DEFINE e == M!Listed(boot.map[j])
    <3>2. M!Split(e) = <<M!Kernel, M!Rest(e)>>
      <4>1. e.len = boot.map[j].len
        BY DEF M!Listed
      <4> HIDE DEF e
      <4> QED BY <1>1, <4>1 DEF M!Split
    <3>3. PICK es : es = <<M!Kernel, M!Rest(e)>>
      OBVIOUS
    <3>4. M!Put(es) /\ Len(es) = 2 /\ es[1] = M!Kernel /\ es[2] = M!Rest(e)
      BY <3>1, <3>2, <3>3
    <3>5. pm_i = j - 1 /\ pm_i \in Nat /\ Place(j, k + 1) = pm_i + 2
      <4> HIDE DEF L, e
      <4> QED BY <1>1, <1>2, <3>1 DEF Place
    <3>6. Held(j, j - 1) = M!Kernel /\ Held(j, j) = M!Rest(e)
      BY HeldTyped
    <3>7. \A q \in 1 .. 2 : es[q] = Held(j, pm_i + q - 1)
      <4>1. pm_i + 1 - 1 = j - 1 /\ pm_i + 2 - 1 = j
        BY <1>1, <3>5
      <4> HIDE DEF e
      <4>2. es[1] = Held(j, pm_i + 1 - 1) /\ es[2] = Held(j, pm_i + 2 - 1)
        BY <3>4, <3>6, <4>1
      <4> QED BY <4>2
    <3>8. list' = ListOf(j, pm_i + 2)
      <4> HIDE DEF e
      <4> QED BY <1>2, <3>4, <3>5, <3>7, ListGrows
    <3> QED BY <3>1, <3>5, <3>8
  <2>3. CASE M!RegionInKernel
    BY <1>1, <1>3, <2>3 DEF M!RegionInKernel
  <2> QED BY <2>1, <2>2, <2>3
<1>9. pm_i' = Place(j, k)' /\ list' = ListOf(j, pm_i)'
  <2>1. pm_i' = Place(j, k')
    BY <1>4, <1>8
  <2>2. \A x : ListOf(j, x)' = ListOf(j, x)
    BY <1>5
  <2>3. PICK x : x = pm_i'
    OBVIOUS
  <2>4. list' = ListOf(j, x)'
    BY <1>8, <2>2, <2>3
  <2> QED BY <2>1, <2>3, <2>4 DEF Place, ListOf
<1>10. k' \in 1 .. (Len(boot.map) + 1)'
  BY <1>4, <1>6
<1> QED BY <1>7, <1>9, <1>10 DEF Listing

\* A step that takes the next place of the list, or not.
LEMMA PcPicks ==
  ASSUME boot \in {c.map : c \in Computers}, M!PcMap, NEW j, KernelIs(j),
         Picking(j), M!Pick
  PROVE  Picking(j)'
<1> DEFINE L == Len(boot.map)
<1>1. /\ pm_stage = "pick" /\ pm_stage' = "pick" /\ boot' = boot /\ list' = list
      /\ pm_i' = pm_i + 1 /\ list[pm_i].type # M!MEMMAP_NULL
      /\ pm_i \in DOMAIN list
  BY DEF M!Pick
<1>2. /\ list = ListOf(j, L + 2) /\ pm_i \in 0 .. L + 1 /\ L \in Nat
      /\ (L + 2) - 1 = L + 1 /\ pm_i \in Nat
  BY PcFacts DEF Picking
<1>3. list[pm_i] = Held(j, pm_i)
  <2> HIDE DEF L
  <2> QED BY <1>1, <1>2 DEF ListOf
<1>4. pm_i \in 0 .. L
  <2>1. Held(j, L + 1) = M!Listed(M!Zero)
    BY HeldTyped
  <2>2. M!Listed(M!Zero).type = M!MEMMAP_NULL
    BY DEF M!Listed, M!Zero, M!MEMMAP_NULL
  <2> HIDE DEF L
  <2> QED BY <1>1, <1>2, <1>3, <2>1, <2>2
<1>5. /\ Held(j, pm_i).addr \in Nat /\ Held(j, pm_i).len \in Nat
      /\ Held(j, pm_i).type # M!MEMMAP_NULL
  BY <1>4, HeldTyped
<1> DEFINE e == Held(j, pm_i)
<1>6. /\ arena_begin' \in Nat /\ arena_end' \in Nat /\ arena_begin' <= arena_end'
      /\ arena_end - arena_begin <= arena_end' - arena_begin'
      /\ e.type = M!MEMMAP_AVAILABLE => e.len <= arena_end' - arena_begin'
      /\ \/ UNCHANGED <<arena_begin, arena_end>>
         \/ /\ e.type = M!MEMMAP_AVAILABLE
            /\ arena_begin' = e.addr /\ arena_end' = e.addr + e.len
  <2>1. /\ arena_begin \in Nat /\ arena_end \in Nat /\ arena_begin <= arena_end
    BY DEF Picking, Best
  <2>2. CASE e.type = M!MEMMAP_AVAILABLE /\ e.len > arena_end - arena_begin
    <3>1. arena_begin' = e.addr /\ arena_end' = e.addr + e.len
      BY <1>3, <2>2 DEF M!Pick, M!Larger
    <3> HIDE DEF e
    <3> QED BY <1>5, <2>1, <2>2, <3>1 DEF e
  <2>3. CASE ~(e.type = M!MEMMAP_AVAILABLE /\ e.len > arena_end - arena_begin)
    <3>1. UNCHANGED <<arena_begin, arena_end>>
      BY <1>3, <2>3 DEF M!Pick, M!Larger, M!arena
    <3> HIDE DEF e
    <3> QED BY <1>5, <2>1, <2>3, <3>1 DEF e
  <2> QED BY <2>2, <2>3
<1>7. /\ \A p \in 0 .. pm_i - 1 : Held(j, p).type = M!MEMMAP_AVAILABLE =>
           Held(j, p).len <= arena_end - arena_begin
      /\ \/ arena_begin = 0 /\ arena_end = 0
         \/ \E p \in 0 .. pm_i - 1 : /\ Held(j, p).type = M!MEMMAP_AVAILABLE
                                     /\ arena_begin = Held(j, p).addr
                                     /\ arena_end = Held(j, p).addr + Held(j, p).len
      /\ arena_begin \in Nat /\ arena_end \in Nat
  BY DEF Picking, Best
<1>8. \A p : Held(j, p)' = Held(j, p)
  BY <1>1, PcSame
<1>9. pm_i' - 1 = pm_i
  BY <1>1, <1>2
<1>10. ASSUME NEW p \in 0 .. pm_i, Held(j, p).type = M!MEMMAP_AVAILABLE
       PROVE  Held(j, p).len <= arena_end' - arena_begin'
  <2>1. CASE p = pm_i
    BY <1>6, <1>10, <2>1
  <2>2. CASE p # pm_i
    <3>1. p \in 0 .. pm_i - 1 /\ p \in 0 .. L
      <4> HIDE DEF L
      <4> QED BY <1>2, <1>4, <2>2
    <3>2. Held(j, p).len <= arena_end - arena_begin
      BY <1>7, <1>10, <3>1
    <3>3. Held(j, p).len \in Nat
      BY <3>1, HeldTyped
    <3>4. /\ arena_begin' \in Nat /\ arena_end' \in Nat
          /\ arena_begin \in Nat /\ arena_end \in Nat
          /\ arena_end - arena_begin <= arena_end' - arena_begin'
      BY <1>6, <1>7
    <3>5. PICK n \in Nat : n = Held(j, p).len
      BY <3>3
    <3>6. n <= arena_end' - arena_begin'
      BY <3>2, <3>4, <3>5
    <3> QED BY <3>5, <3>6
  <2> QED BY <2>1, <2>2
<1>11. \/ arena_begin' = 0 /\ arena_end' = 0
       \/ \E p \in 0 .. pm_i : /\ Held(j, p).type = M!MEMMAP_AVAILABLE
                               /\ arena_begin' = Held(j, p).addr
                               /\ arena_end' = Held(j, p).addr + Held(j, p).len
  <2>1. CASE UNCHANGED <<arena_begin, arena_end>>
    <3>1. CASE arena_begin = 0 /\ arena_end = 0
      BY <2>1, <3>1
    <3>2. CASE \E p \in 0 .. pm_i - 1 :
                 /\ Held(j, p).type = M!MEMMAP_AVAILABLE
                 /\ arena_begin = Held(j, p).addr
                 /\ arena_end = Held(j, p).addr + Held(j, p).len
      <4>1. PICK p \in 0 .. pm_i - 1 :
                 /\ Held(j, p).type = M!MEMMAP_AVAILABLE
                 /\ arena_begin = Held(j, p).addr
                 /\ arena_end = Held(j, p).addr + Held(j, p).len
        BY <3>2
      <4>2. p \in 0 .. pm_i
        BY <1>2
      <4> QED BY <2>1, <4>1, <4>2
    <3> QED BY <1>7, <3>1, <3>2
  <2>2. CASE /\ e.type = M!MEMMAP_AVAILABLE
             /\ arena_begin' = e.addr /\ arena_end' = e.addr + e.len
    <3>1. pm_i \in 0 .. pm_i
      BY <1>2
    <3> QED BY <2>2, <3>1
  <2> QED BY <1>6, <2>1, <2>2
<1>12. Best(j)'
  <2>1. \A p \in 0 .. pm_i' - 1 : Held(j, p)'.type = M!MEMMAP_AVAILABLE =>
          Held(j, p)'.len <= arena_end' - arena_begin'
    BY <1>8, <1>9, <1>10
  <2>2. \/ arena_begin' = 0 /\ arena_end' = 0
        \/ \E p \in 0 .. pm_i' - 1 : /\ Held(j, p)'.type = M!MEMMAP_AVAILABLE
                                     /\ arena_begin' = Held(j, p)'.addr
                                     /\ arena_end' = Held(j, p)'.addr + Held(j, p)'.len
    BY <1>8, <1>9, <1>11
  <2> QED BY <1>6, <2>1, <2>2 DEF Best
<1>13. pm_i' \in 0 .. (Len(boot.map) + 1)' /\ list' = ListOf(j, Len(boot.map) + 2)'
  <2>1. pm_i' \in 0 .. L + 1
    <3> HIDE DEF L
    <3> QED BY <1>1, <1>2, <1>4
  <2>2. PICK x : x = L + 2
    OBVIOUS
  <2>3. list' = ListOf(j, x) /\ ListOf(j, x)' = ListOf(j, x)
    BY <1>1, <1>2, <2>2, PcSame
  <2> QED BY <1>1, <2>1, <2>2, <2>3 DEF ListOf
<1> QED BY <1>1, <1>12, <1>13 DEF Picking

LEMMA PcStep ==
  ASSUME PcInv, [Next]_vars
  PROVE  PcInv'
<1> DEFINE L == Len(boot.map)
<1>1. boot' = boot
  <2>1. CASE UNCHANGED mvars
    BY <2>1 DEF mvars
  <2>2. CASE M!Next
    BY <2>2 DEF M!Next, M!Region, M!KernelRegion, M!RegionInKernel, M!MoveOn,
                M!Terminated, M!EndOfMap, M!PassOver, M!Pick, M!Picked,
                M!PickGarbage
  <2> QED BY <2>1, <2>2, MemMapSteps
<1>2. /\ M!PcMap' <=> M!PcMap
      /\ \A j : KernelIs(j)' <=> KernelIs(j)
      /\ \A j, p : Held(j, p)' = Held(j, p)
      /\ \A j, n : ListOf(j, n)' = ListOf(j, n)
      /\ \A h : Bytes(h)' <=> Bytes(h)
  BY <1>1, PcSame
<1>3. /\ boot \in {c.map : c \in Computers} /\ (pm_stage = "count" => list = <<>>)
      /\ pm_stage \in {"count", "list"} => arena_begin = 0 /\ arena_end = 0
  BY DEF PcInv
<1>4. ASSUME M!PcMap
      PROVE  /\ pm_stage # "wild"
             /\ \A j : KernelIs(j) => /\ pm_stage = "list" => Listing(j)
                                      /\ pm_stage \in {"pick", "done"} => Picking(j)
  BY <1>4 DEF PcInv
<1>5. CASE UNCHANGED mvars
  <2>1. UNCHANGED <<pm_stage, boot, k, size_read, pm_i, memmap_len, list,
                    arena_begin, arena_end>>
    BY <1>5 DEF mvars
  <2>2. ASSUME NEW j, Listing(j) PROVE Listing(j)'
    <3>1. list' = ListOf(j, pm_i)'
      BY <2>1, <2>2 DEF Listing, ListOf, Held, M!Listed, M!Rest, M!Kernel, M!Zero
    <3> QED BY <1>2, <2>1, <2>2, <3>1 DEF Listing, Place
  <2>3. ASSUME NEW j, Picking(j) PROVE Picking(j)'
    <3>1. Best(j)'
      BY <1>2, <2>1, <2>3 DEF Picking, Best
    <3>2. list' = ListOf(j, Len(boot.map) + 2)'
      BY <2>1, <2>3 DEF Picking, ListOf, Held, M!Listed, M!Rest, M!Kernel, M!Zero
    <3> QED BY <2>1, <2>3, <3>1, <3>2 DEF Picking
  <2> QED BY <1>2, <1>3, <1>4, <2>1, <2>2, <2>3 DEF PcInv
<1> SUFFICES ASSUME M!Next PROVE PcInv'
  BY <1>5, MemMapSteps
<1>6. CASE M!Region \/ M!KernelRegion \/ M!RegionInKernel
  <2>1. /\ pm_stage \in {"count", "list"} /\ pm_stage' = pm_stage
        /\ UNCHANGED <<arena_begin, arena_end>> /\ M!Entry.size # 0
    BY <1>6 DEF M!Region, M!KernelRegion, M!RegionInKernel, M!MoveOn, M!InLoop,
                M!arena
  <2>2. pm_stage = "count" => list' = list
    BY <1>6 DEF M!Region, M!KernelRegion, M!RegionInKernel, M!Put
  <2>3. ASSUME M!PcMap, NEW j, KernelIs(j), pm_stage = "list" PROVE Listing(j)'
    BY <1>3, <1>4, <1>6, <2>1, <2>3, PcPasses
  <2>4. ASSUME M!PcMap, NEW j, KernelIs(j), pm_stage' = "list" PROVE Listing(j)'
    BY <2>1, <2>3, <2>4
  <2>5. pm_stage' # "wild" /\ pm_stage' \notin {"pick", "done"}
    BY <2>1
  <2>6. \A j : M!PcMap' /\ KernelIs(j)' /\ pm_stage' = "list" => Listing(j)'
    BY <1>2, <2>4
  <2> QED BY <1>1, <1>3, <2>1, <2>2, <2>5, <2>6 DEF PcInv
<1>7. CASE M!Terminated \/ M!EndOfMap
  <2>1. pm_stage \in {"count", "list"}
    BY <1>7 DEF M!Terminated, M!EndOfMap, M!InLoop
  <2>2. /\ pm_stage' \in {"panic", IF pm_stage = "count" THEN "list" ELSE "pick"}
        /\ UNCHANGED <<arena_begin, arena_end>>
        /\ pm_stage' # "panic" => k' = 1 /\ size_read' = 0 /\ pm_i' = 0
    BY <1>7 DEF M!Terminated, M!EndOfMap, M!PassOver, M!arena, M!reading
  <2>3. pm_stage = "count" => list' = list
    BY <1>7 DEF M!Terminated, M!EndOfMap, M!Put
  <2>4. ASSUME M!PcMap, NEW j, KernelIs(j), pm_stage' = "list" PROVE Listing(j)'
    <3>1. /\ k' = 1 /\ size_read' = 0 /\ pm_i' = 0 /\ list' = <<>>
      BY <1>3, <2>1, <2>2, <2>3, <2>4
    <3>2. L \in Nat /\ j \in 1 .. L
      BY <1>3, <2>4, PcFacts
    <3>3. 1 \in 1 .. L + 1 /\ Place(j, 1) = 0 /\ 1 - 1 = 0
      <4> HIDE DEF L
      <4> QED BY <3>2 DEF Place
    <3>4. <<>> = ListOf(j, 0)
      BY DEF ListOf
    <3>5. \A h : Bytes(h) => 0 <= h[0]
      BY DEF Bytes
    <3>6. \A h : Bytes(h)' => size_read' <= h[k' - 1]
      BY <1>2, <3>1, <3>3, <3>5
    <3>7. k' \in 1 .. (Len(boot.map) + 1)' /\ pm_i' = Place(j, k)'
      BY <1>1, <3>1, <3>3 DEF Place
    <3>8. list' = ListOf(j, pm_i)'
      <4>1. ListOf(j, 0)' = ListOf(j, 0)
        BY <1>2
      <4> QED BY <3>1, <3>4, <4>1 DEF ListOf
    <3> QED BY <3>1, <3>6, <3>7, <3>8 DEF Listing
  <2>5. ASSUME M!PcMap, NEW j, KernelIs(j), pm_stage' = "pick" PROVE Picking(j)'
    <3>1. pm_stage = "list" /\ k' = 1 /\ pm_i' = 0
      BY <2>1, <2>2, <2>5
    <3>2. /\ k \in 1 .. L + 1 /\ pm_i = Place(j, k) /\ list = ListOf(j, pm_i)
          /\ size_read \in Nat /\ \A h : Bytes(h) => size_read <= h[k - 1]
      BY <1>4, <2>5, <3>1 DEF Listing
    <3>3. /\ L \in Nat /\ j \in 1 .. L /\ boot.tail = <<>> /\ boot.given
          /\ \A x \in 1 .. L : boot.map[x].size > 0
      BY <1>3, <2>5, PcFacts
    <3>4. size_read <= M!mmap_length
      <4>1. k - 1 \in 0 .. L
        <5> HIDE DEF L
        <5> QED BY <3>2, <3>3
      <4> QED BY <1>3, <3>2, <4>1, BytesBound
    <3>5. ~M!EndOfMap
      <4>1. M!mmap_length \in Nat
        BY <1>3, LengthTyped
      <4>2. ~(size_read > M!mmap_length)
        BY <3>2, <3>4, <4>1
      <4> QED BY <3>3, <4>2 DEF M!EndOfMap
    <3>6. M!Terminated
      BY <1>7, <3>5
    <3>7. k = L + 1 /\ M!Entry = M!Zero
      <4>1. k <= L => M!Entry = boot.map[k]
        BY DEF M!Entry
      <4>2. k <= L => k \in 1 .. L
        <5> HIDE DEF L
        <5> QED BY <3>2, <3>3
      <4>3. ~(k <= L)
        BY <3>3, <3>6, <4>1, <4>2 DEF M!Terminated
      <4>4. k = L + 1 /\ k - L = 1
        <5> HIDE DEF L
        <5> QED BY <3>2, <3>3, <4>3
      <4>5. Len(boot.tail) = 0
        BY <3>3
      <4> QED BY <4>3, <4>4, <4>5 DEF M!Entry
    <3>8. [M!Listed(M!Entry) EXCEPT !.type = M!MEMMAP_NULL] = M!Listed(M!Zero)
      BY <3>7 DEF M!Listed, M!Zero, M!MEMMAP_NULL
    <3>9. PICK es : es = <<M!Listed(M!Zero)>>
      OBVIOUS
    <3>10. M!Put(es) /\ Len(es) = 1 /\ es[1] = M!Listed(M!Zero)
      BY <3>6, <3>8, <3>9 DEF M!Terminated
    <3>11. pm_i = L + 1 /\ pm_i \in Nat /\ pm_i + 1 - 1 = L + 1 /\ pm_i + 1 = L + 2
      <4> HIDE DEF L
      <4> QED BY <3>2, <3>3, <3>7 DEF Place
    <3>12. \A q \in 1 .. 1 : es[q] = Held(j, pm_i + q - 1)
      <4>1. Held(j, L + 1) = M!Listed(M!Zero)
        BY <1>3, <2>5, HeldTyped
      <4> QED BY <3>10, <3>11, <4>1
    <3>13. list' = ListOf(j, pm_i + 1)
      BY <3>1, <3>2, <3>10, <3>11, <3>12, ListGrows
    <3>14. list' = ListOf(j, Len(boot.map) + 2)'
      <4>1. PICK x : x = L + 2
        OBVIOUS
      <4>2. list' = ListOf(j, x)'
        BY <1>2, <3>11, <3>13, <4>1
      <4> QED BY <1>1, <4>1, <4>2 DEF ListOf
    <3>15. Best(j)'
      <4>1. arena_begin' = 0 /\ arena_end' = 0 /\ 0 .. pm_i' - 1 = {}
        BY <1>3, <2>2, <3>1
      <4> QED BY <4>1 DEF Best
    <3>16. pm_i' \in 0 .. (Len(boot.map) + 1)'
      BY <1>1, <3>1, <3>3
    <3> QED BY <2>5, <3>14, <3>15, <3>16 DEF Picking
  <2>6. pm_stage' # "wild" /\ pm_stage' # "done" /\ pm_stage' # "count"
    BY <2>1, <2>2
  <2>7. \A j : M!PcMap' /\ KernelIs(j)' =>
          /\ pm_stage' = "list" => Listing(j)'
          /\ pm_stage' = "pick" => Picking(j)'
    BY <1>2, <2>4, <2>5
  <2> QED BY <1>1, <1>3, <2>1, <2>2, <2>6, <2>7 DEF PcInv
<1>8. CASE M!Pick
  <2>1. pm_stage = "pick" /\ pm_stage' = "pick"
    BY <1>8 DEF M!Pick
  <2>2. ASSUME M!PcMap, NEW j, KernelIs(j) PROVE Picking(j)'
    <3>1. Picking(j)
      BY <1>4, <2>1, <2>2
    <3> QED BY <1>3, <1>8, <2>2, <3>1, PcPicks
  <2>3. \A j : M!PcMap' /\ KernelIs(j)' => Picking(j)'
    BY <1>2, <2>2
  <2> QED BY <1>1, <1>3, <2>1, <2>3 DEF PcInv
<1>9. CASE M!Picked
  <2>1. /\ pm_stage = "pick" /\ pm_stage' = "done" /\ list' = list /\ pm_i' = pm_i
        /\ UNCHANGED <<arena_begin, arena_end>>
        /\ list[pm_i].type = M!MEMMAP_NULL
    BY <1>9 DEF M!Picked, M!arena, M!reading
  <2>2. ASSUME M!PcMap, NEW j, KernelIs(j) PROVE Picking(j)'
    <3>1. Picking(j)
      BY <1>4, <2>1, <2>2
    <3>2. /\ list = ListOf(j, L + 2) /\ pm_i \in 0 .. L + 1 /\ L \in Nat
          /\ (L + 2) - 1 = L + 1
      BY <1>3, <2>2, <3>1, PcFacts DEF Picking
    <3>3. list[pm_i] = Held(j, pm_i)
      <4> HIDE DEF L
      <4> QED BY <3>2 DEF ListOf
    <3>4. pm_i \in 0 .. L => Held(j, pm_i).type # M!MEMMAP_NULL
      BY <1>3, <2>2, HeldTyped
    <3>5. pm_i' = L + 1
      <4> HIDE DEF L
      <4> QED BY <2>1, <3>2, <3>3, <3>4
    <3>6. Best(j)'
      BY <1>2, <2>1, <3>1 DEF Picking, Best
    <3>7. list' = ListOf(j, Len(boot.map) + 2)'
      <4>1. PICK x : x = L + 2
        OBVIOUS
      <4>2. list' = ListOf(j, x)'
        BY <1>2, <2>1, <3>2, <4>1
      <4> QED BY <1>1, <4>1, <4>2 DEF ListOf
    <3>8. pm_i' = (Len(boot.map) + 1)' /\ pm_i' \in 0 .. (Len(boot.map) + 1)'
      <4>1. L + 1 \in 0 .. L + 1
        <5> HIDE DEF L
        <5> QED BY <3>2
      <4> QED BY <1>1, <3>5, <4>1
    <3> QED BY <3>6, <3>7, <3>8 DEF Picking
  <2>3. \A j : M!PcMap' /\ KernelIs(j)' => Picking(j)'
    BY <1>2, <2>2
  <2> QED BY <1>1, <1>3, <2>1, <2>3 DEF PcInv
<1>10. CASE M!PickGarbage
  <2>1. pm_stage = "pick" /\ pm_stage' = "wild" /\ pm_i \notin DOMAIN list
    BY <1>10 DEF M!PickGarbage
  <2>2. ~M!PcMap
    <3> SUFFICES ASSUME M!PcMap PROVE FALSE
      OBVIOUS
    <3>1. PICK j : KernelIs(j)
      BY DEF M!PcMap, KernelIs
    <3>2. Picking(j) /\ L \in Nat
      BY <1>3, <1>4, <2>1, <3>1, PcFacts
    <3>3. pm_i \in 0 .. (L + 2) - 1
      <4>1. pm_i \in 0 .. L + 1
        BY <3>2 DEF Picking
      <4> HIDE DEF L
      <4> QED BY <3>2, <4>1
    <3> QED BY <2>1, <3>2, <3>3 DEF Picking, ListOf
  <2> QED BY <1>1, <1>2, <1>3, <2>1, <2>2 DEF PcInv
<1> QED BY <1>6, <1>7, <1>8, <1>9, <1>10 DEF M!Next

\* The length with which the list has the free part of a region.
Room(x) == M!Free(x) + M!Excess(x)

LEMMA RoomIs ==
  ASSUME boot \in {c.map : c \in Computers}, NEW x \in 1 .. Len(boot.map)
  PROVE  /\ boot.map[x].addr = KERNEL_START_LOW =>
              Room(x) = boot.map[x].len - M!KERNEL_SIZE
         /\ boot.map[x].addr # KERNEL_START_LOW => Room(x) = boot.map[x].len
         /\ M!FreeBegin(x) + Room(x) = M!FreeEnd(x) + M!Excess(x)
         /\ Room(x) \in Int /\ M!Free(x) \in Int /\ M!Free(x) <= Room(x)
<1> DEFINE a == boot.map[x].addr
           n == boot.map[x].len
<1>1. a \in Nat /\ n \in Nat
  <2>1. boot.map[x] \in M!MapEntry
    BY MapTyped
  <2> QED BY <2>1, EntryTyped
<1>2. /\ KERNEL_START_LOW \in Nat /\ KERNEL_TEXT_PHYSICAL \in Nat
      /\ KERNEL_END_PHYSICAL \in Nat /\ KERNEL_START_LOW < KERNEL_TEXT_PHYSICAL
  BY MapTyped
<1>3. /\ M!FreeBegin(x) = IF a = KERNEL_START_LOW THEN KERNEL_END_PHYSICAL ELSE a
      /\ M!FreeEnd(x) = a + n
      /\ M!Excess(x) = IF a = KERNEL_START_LOW
                       THEN KERNEL_TEXT_PHYSICAL - KERNEL_START_LOW ELSE 0
      /\ M!Free(x) = M!FreeEnd(x) - M!FreeBegin(x)
      /\ M!KERNEL_SIZE = KERNEL_END_PHYSICAL - KERNEL_TEXT_PHYSICAL
      /\ Room(x) = M!Free(x) + M!Excess(x)
  BY DEF M!FreeBegin, M!FreeEnd, M!Excess, M!Free, M!IsKernels, M!KERNEL_SIZE, Room
<1> HIDE DEF a, n
<1>4. CASE a = KERNEL_START_LOW
  <2>1. /\ M!FreeBegin(x) = KERNEL_END_PHYSICAL /\ M!FreeEnd(x) = a + n
        /\ M!Excess(x) = KERNEL_TEXT_PHYSICAL - KERNEL_START_LOW
        /\ M!FreeBegin(x) \in Int /\ M!FreeEnd(x) \in Int /\ M!Excess(x) \in Nat
    BY <1>1, <1>2, <1>3, <1>4
  <2>2. /\ M!Free(x) = a + n - KERNEL_END_PHYSICAL /\ M!Free(x) \in Int
        /\ Room(x) = M!Free(x) + (KERNEL_TEXT_PHYSICAL - KERNEL_START_LOW)
    BY <1>1, <1>2, <1>3, <2>1
  <2>3. /\ Room(x) = n - (KERNEL_END_PHYSICAL - KERNEL_TEXT_PHYSICAL)
        /\ Room(x) \in Int /\ M!Free(x) <= Room(x)
        /\ KERNEL_END_PHYSICAL + Room(x)
             = a + n + (KERNEL_TEXT_PHYSICAL - KERNEL_START_LOW)
    BY <1>1, <1>2, <1>4, <2>2
  <2> QED BY <1>3, <1>4, <2>1, <2>2, <2>3 DEF a, n
<1>5. CASE a # KERNEL_START_LOW
  <2>1. /\ M!FreeBegin(x) = a /\ M!FreeEnd(x) = a + n /\ M!Excess(x) = 0
        /\ M!FreeBegin(x) \in Int /\ M!FreeEnd(x) \in Int /\ M!Excess(x) \in Nat
    BY <1>1, <1>3, <1>5
  <2> QED BY <1>1, <1>3, <1>5, <2>1 DEF a, n
<1> QED BY <1>4, <1>5

\* What the arena is when setup_pm is done.
LEMMA PcArena ==
  ASSUME PcInv, M!PcMap
  PROVE  /\ pm_stage # "wild"
         /\ pm_stage = "done" =>
              /\ (arena_begin .. arena_end - 1) \intersect M!KernelCells = {}
              /\ \A x \in M!Available : Room(x) <= arena_end - arena_begin
              /\ \E x \in M!Available :
                   /\ arena_begin = M!FreeBegin(x)
                   /\ arena_end = M!FreeEnd(x) + M!Excess(x)
                   /\ Room(x) = arena_end - arena_begin
<1> DEFINE L == Len(boot.map)
<1>1. pm_stage # "wild"
  BY DEF PcInv
<1> SUFFICES ASSUME pm_stage = "done"
             PROVE  /\ (arena_begin .. arena_end - 1) \intersect M!KernelCells = {}
                    /\ \A x \in M!Available : Room(x) <= arena_end - arena_begin
                    /\ \E x \in M!Available :
                         /\ arena_begin = M!FreeBegin(x)
                         /\ arena_end = M!FreeEnd(x) + M!Excess(x)
                         /\ Room(x) = arena_end - arena_begin
  BY <1>1
<1>2. PICK j : KernelIs(j)
  BY DEF M!PcMap, KernelIs
<1>3. boot \in {c.map : c \in Computers} /\ Picking(j)
  BY <1>2 DEF PcInv
<1>4. /\ L \in Nat /\ j \in 1 .. L
      /\ M!KERNEL_SIZE \in Nat /\ boot.map[j].len > M!KERNEL_SIZE
      /\ \A x \in 1 .. L : boot.map[x] \in M!MapEntry
      /\ \A x \in M!Available : x # j =>
           /\ boot.map[x].addr # KERNEL_START_LOW /\ boot.map[x].len > 0
           /\ M!Cells(boot.map[x]) \intersect M!KernelCells = {}
  BY <1>2, <1>3, PcFacts
<1>5. /\ \A x \in 1 .. j - 1 : Held(j, x - 1) = M!Listed(boot.map[x])
      /\ \A x \in j + 1 .. L : Held(j, x) = M!Listed(boot.map[x])
      /\ Held(j, j - 1) = M!Kernel
      /\ Held(j, j) = M!Rest(M!Listed(boot.map[j]))
  BY <1>2, <1>3, HeldTyped
<1>6. /\ j \in M!Available /\ boot.map[j].addr = KERNEL_START_LOW
      /\ \A x \in M!Available : x \in 1 .. L
      /\ \A x \in 1 .. L : boot.map[x].type = M!MEMMAP_AVAILABLE => x \in M!Available
      /\ \A x \in M!Available : boot.map[x].type = M!MEMMAP_AVAILABLE
  <2>1. DOMAIN boot.map = 1 .. L
    <3>1. boot.map \in Seq(M!MapEntry)
      BY <1>3, MapTyped
    <3> QED BY <3>1
  <2> QED BY <1>2, <2>1 DEF KernelIs, M!Available
\* Where the list has what is available.
<1> DEFINE At(x) == IF x < j THEN x - 1 ELSE x
<1>7. ASSUME NEW x \in M!Available
      PROVE  /\ At(x) \in 0 .. L /\ Held(j, At(x)).type = M!MEMMAP_AVAILABLE
             /\ Held(j, At(x)).len = Room(x)
  <2>1. x \in 1 .. L /\ boot.map[x].type = M!MEMMAP_AVAILABLE
    BY <1>6
  <2>2. CASE x = j
    <3>1. At(x) = j /\ j \in 0 .. L
      <4> HIDE DEF L
      <4> QED BY <1>4, <2>2
    <3>2. Room(x) = boot.map[j].len - M!KERNEL_SIZE
      BY <1>3, <1>6, <2>1, <2>2, RoomIs
    <3>3. Held(j, j).len = boot.map[j].len - M!KERNEL_SIZE
          /\ Held(j, j).type = boot.map[j].type
      BY <1>5 DEF M!Rest, M!Listed
    <3> QED BY <2>1, <2>2, <3>1, <3>2, <3>3
  <2>3. CASE x # j
    <3>1. Room(x) = boot.map[x].len
      <4>2. boot.map[x].addr # KERNEL_START_LOW
        BY <1>4, <2>3
      <4> QED BY <1>3, <2>1, <4>2, RoomIs
    <3>2. Held(j, At(x)) = M!Listed(boot.map[x]) /\ At(x) \in 0 .. L
      <4>1. CASE x < j
        <5>1. x \in 1 .. j - 1 /\ At(x) = x - 1 /\ x - 1 \in 0 .. L
          <6> HIDE DEF L
          <6> QED BY <1>4, <2>1, <4>1
        <5> HIDE DEF At, L
        <5> QED BY <1>5, <5>1
      <4>2. CASE ~(x < j)
        <5>1. x \in j + 1 .. L /\ At(x) = x /\ x \in 0 .. L
          <6> HIDE DEF L
          <6> QED BY <1>4, <2>1, <2>3, <4>2
        <5> HIDE DEF At, L
        <5> QED BY <1>5, <5>1
      <4> QED BY <4>1, <4>2
    <3>3. M!Listed(boot.map[x]).len = boot.map[x].len
          /\ M!Listed(boot.map[x]).type = boot.map[x].type
      BY DEF M!Listed
    <3> HIDE DEF At, L
    <3> QED BY <2>1, <3>1, <3>2, <3>3
  <2> QED BY <2>2, <2>3
<1> HIDE DEF At
\* What of the list is available.
<1>8. ASSUME NEW p \in 0 .. L, Held(j, p).type = M!MEMMAP_AVAILABLE
      PROVE  \E x \in M!Available :
               /\ Held(j, p).len = Room(x)
               /\ IF x = j THEN Held(j, p).addr = KERNEL_END_PHYSICAL
                  ELSE /\ Held(j, p).addr = boot.map[x].addr
                       /\ Held(j, p).len = boot.map[x].len
  <2>1. p # j - 1
    <3>1. M!Kernel.type = 6 /\ M!MEMMAP_AVAILABLE = 1
      BY DEF M!Kernel, M!MEMMAP_KERNEL, M!MEMMAP_AVAILABLE
    <3> QED BY <1>5, <1>8, <3>1
  <2>2. CASE p = j
    <3>1. Held(j, j).addr = KERNEL_END_PHYSICAL
      BY <1>5 DEF M!Rest, M!RestBegin, M!Listed
    <3>2. At(j) = j
      BY <1>4 DEF At
    <3>3. Held(j, p).len = Room(j)
      BY <1>6, <1>7, <2>2, <3>2
    <3> QED BY <1>6, <2>2, <3>1, <3>3
  <2>3. CASE p # j
    <3>0. PICK y : y = IF p < j THEN p + 1 ELSE p
      OBVIOUS
    <3>1. y \in 1 .. L /\ y # j /\ At(y) = p
          /\ ((y \in 1 .. j - 1 /\ y - 1 = p) \/ (y \in j + 1 .. L /\ y = p))
      <4>1. CASE p < j
        <5>1. y = p + 1 /\ y < j /\ y \in Nat /\ y \in 1 .. L
              /\ y \in 1 .. j - 1 /\ y - 1 = p /\ y # j
          <6> HIDE DEF L
          <6> QED BY <1>4, <2>1, <3>0, <4>1
        <5>2. At(y) = p
          BY <5>1 DEF At
        <5> QED BY <5>1, <5>2
      <4>2. CASE ~(p < j)
        <5>1. y = p /\ p \in j + 1 .. L /\ p \in 1 .. L
          <6> HIDE DEF L
          <6> QED BY <1>4, <2>3, <3>0, <4>2
        <5>2. At(p) = p
          BY <4>2 DEF At
        <5> HIDE DEF L
        <5> QED BY <2>3, <5>1, <5>2
      <4> QED BY <4>1, <4>2
    <3>2. Held(j, p) = M!Listed(boot.map[y])
      <4> HIDE DEF L
      <4> QED BY <1>5, <3>1
    <3>3. /\ Held(j, p).type = boot.map[y].type /\ Held(j, p).addr = boot.map[y].addr
          /\ Held(j, p).len = boot.map[y].len
      BY <3>2 DEF M!Listed
    <3>4. y \in M!Available
      BY <1>6, <1>8, <3>1, <3>3
    <3>5. Held(j, p).len = Room(y)
      BY <1>7, <3>1, <3>4
    <3> QED BY <3>1, <3>3, <3>4, <3>5
  <2> QED BY <2>2, <2>3
<1>9. /\ arena_begin \in Nat /\ arena_end \in Nat
      /\ \A p \in 0 .. L : Held(j, p).type = M!MEMMAP_AVAILABLE =>
           Held(j, p).len <= arena_end - arena_begin
      /\ \/ arena_begin = 0 /\ arena_end = 0
         \/ \E p \in 0 .. L : /\ Held(j, p).type = M!MEMMAP_AVAILABLE
                              /\ arena_begin = Held(j, p).addr
                              /\ arena_end = Held(j, p).addr + Held(j, p).len
  <2>1. pm_i = L + 1 /\ Best(j)
    BY <1>3 DEF Picking
  <2>2. pm_i - 1 = L
    <3> HIDE DEF L
    <3> QED BY <1>4, <2>1
  <2> QED BY <2>1, <2>2 DEF Best
<1>10. ASSUME NEW x \in M!Available PROVE Room(x) <= arena_end - arena_begin
  BY <1>7, <1>9
<1>11. PICK p \in 0 .. L : /\ Held(j, p).type = M!MEMMAP_AVAILABLE
                           /\ arena_begin = Held(j, p).addr
                           /\ arena_end = Held(j, p).addr + Held(j, p).len
  <2>1. ~(arena_begin = 0 /\ arena_end = 0)
    <3>1. Room(j) = boot.map[j].len - M!KERNEL_SIZE
      BY <1>3, <1>4, <1>6, RoomIs
    <3>2. boot.map[j].len \in Nat
      BY <1>4, EntryTyped
    <3>3. Room(j) > 0
      BY <1>4, <3>1, <3>2
    <3>4. Room(j) <= arena_end - arena_begin
      BY <1>6, <1>10
    <3>5. Room(j) \in Int
      BY <1>4, <3>1, <3>2
    <3> QED BY <3>3, <3>4, <3>5
  <2> QED BY <1>9, <2>1
<1>12. PICK x \in M!Available :
               /\ Held(j, p).len = Room(x)
               /\ IF x = j THEN Held(j, p).addr = KERNEL_END_PHYSICAL
                  ELSE /\ Held(j, p).addr = boot.map[x].addr
                       /\ Held(j, p).len = boot.map[x].len
  BY <1>8, <1>11
<1>13. Held(j, p).addr \in Nat /\ Held(j, p).len \in Nat
  BY <1>2, <1>3, HeldTyped
<1>14. Room(x) = arena_end - arena_begin
  <2> DEFINE a == Held(j, p).addr
             n == Held(j, p).len
  <2>1. arena_begin = a /\ arena_end = a + n /\ a \in Nat /\ n \in Nat
        /\ n = Room(x)
    BY <1>11, <1>12, <1>13
  <2> HIDE DEF a, n
  <2> QED BY <2>1
<1>15. (arena_begin .. arena_end - 1) \intersect M!KernelCells = {}
  <2>1. CASE x = j
    <3>1. arena_begin = KERNEL_END_PHYSICAL /\ KERNEL_END_PHYSICAL \in Nat
          /\ KERNEL_START_LOW \in Nat
      BY <1>3, <1>11, <1>12, <2>1, MapTyped
    <3> QED BY <1>9, <3>1 DEF M!KernelCells
  <2>2. CASE x # j
    <3>1. arena_begin = boot.map[x].addr
          /\ arena_end = boot.map[x].addr + boot.map[x].len
      BY <1>11, <1>12, <2>2
    <3>2. M!Cells(boot.map[x]) = arena_begin .. arena_end - 1
      <4> DEFINE a == boot.map[x].addr
                 n == boot.map[x].len
      <4>1. M!Cells(boot.map[x]) = a .. a + n - 1
        BY DEF M!Cells
      <4>2. arena_begin = a /\ arena_end = a + n
        BY <3>1
      <4>3. a \in Nat /\ n \in Nat
        BY <1>12, <1>13, <2>2
      <4> HIDE DEF a, n
      <4> QED BY <4>1, <4>2, <4>3
    <3> QED BY <1>4, <2>2, <3>2
  <2> QED BY <2>1, <2>2
<1>16. arena_begin = M!FreeBegin(x) /\ arena_end = M!FreeEnd(x) + M!Excess(x)
  <2>1. arena_begin = M!FreeBegin(x)
    <3>1. CASE x = j
      BY <1>6, <1>11, <1>12, <3>1 DEF M!FreeBegin, M!IsKernels
    <3>2. CASE x # j
      <4>1. boot.map[x].addr # KERNEL_START_LOW
        BY <1>4, <3>2
      <4> QED BY <1>11, <1>12, <3>2, <4>1 DEF M!FreeBegin, M!IsKernels
    <3> QED BY <3>1, <3>2
  <2>2. M!FreeBegin(x) + Room(x) = M!FreeEnd(x) + M!Excess(x)
    BY <1>3, <1>6, RoomIs
  <2>3. arena_end = arena_begin + Room(x)
    BY <1>11, <1>12
  <2> QED BY <2>1, <2>2, <2>3
<1> QED BY <1>10, <1>12, <1>14, <1>15, <1>16

(***************************************************************************)
(* Whatever the memory map, the list of it stays in its array; and on a    *)
(* PC's it ends, and the arena has nothing of the kernel, is a part of the *)
(* map that is available, or reaches past the kernel's region by what is   *)
(* before the kernel's text, and no other part has more                    *)
(* (parse_memory_map.c:35-59, setup_pm.c:20-36).                           *)
(***************************************************************************)
THEOREM ArenaIsSound == Spec => []ArenaSound
<1>1. Init => PassInv /\ PcInv
  BY PassInit, PcInit
<1>2. PassInv /\ PcInv /\ [Next]_vars => (PassInv /\ PcInv)'
  BY PassStep, PcStep
<1>3. PassInv /\ PcInv => ArenaSound
  <2> SUFFICES ASSUME PassInv, PcInv PROVE ArenaSound
    OBVIOUS
  <2>1. M!ListFits
    BY PassFits
  <2>2. M!ArenaSparesKernel
    BY PcArena DEF M!ArenaSparesKernel
  <2>3. M!ArenaIsLargest
    <3> SUFFICES ASSUME M!PcMap, pm_stage = "done" PROVE M!ArenaIsLargest
      BY DEF M!ArenaIsLargest
    <3>1. boot \in {c.map : c \in Computers}
          /\ \A h \in M!Available : h \in 1 .. Len(boot.map)
      <4>1. boot \in {c.map : c \in Computers}
        BY DEF PcInv
      <4>2. boot.map \in Seq(M!MapEntry)
        BY <4>1, MapTyped
      <4> QED BY <4>1, <4>2 DEF M!Available
    <3>2. PICK x \in M!Available : /\ arena_begin = M!FreeBegin(x)
                                   /\ arena_end = M!FreeEnd(x) + M!Excess(x)
                                   /\ Room(x) = arena_end - arena_begin
      BY PcArena
    <3>3. ASSUME NEW h \in M!Available
          PROVE  M!Free(h) <= M!Free(x) + M!Excess(x)
      <4>1. M!Free(h) <= Room(h) /\ M!Free(h) \in Int /\ Room(h) \in Int
            /\ Room(x) \in Int
        BY <3>1, RoomIs
      <4>2. Room(h) <= Room(x)
        BY <3>2, PcArena
      <4>3. M!Free(h) <= Room(x)
        BY <4>1, <4>2
      <4> QED BY <4>3 DEF Room
    <3> QED BY <3>2, <3>3 DEF M!ArenaIsLargest
  <2> QED BY <2>1, <2>2, <2>3 DEF ArenaSound
<1> QED BY <1>1, <1>2, <1>3, PTL DEF Spec
=============================================================================
