------------------------------ MODULE MCStartup ------------------------------
(***************************************************************************)
(* An ordinary computer, of which one part at a time is another: the       *)
(* kernel and where its TSS is; the map of the memory; the tables of the   *)
(* firmware; the controllers, and the pins that are raised.                *)
(***************************************************************************)
EXTENDS Startup

\* Kernels: the bytes of the TSS's address; pages, and what is in the second.
Tss == {[n \in 0 .. 7 |-> IF n > 3 THEN 255 ELSE IF n = 3 THEN 128
                          ELSE IF n = 2 THEN a ELSE n * b] :
          a \in {0, 17}, b \in {0, 32, 240}}
OneKernel == [pages |-> 1, stack |-> 0, table |-> 0, tss |-> [n \in 0 .. 7 |-> n]]
MCKernels == {[OneKernel EXCEPT !.tss = t] : t \in Tss}
  \union {[OneKernel EXCEPT !.pages = 2, !.stack = s, !.table = h] :
            s \in 0 .. 1, h \in 0 .. 1}

\* Maps: the kernel's low part is at 4, its high part at 6 .. 8.
E(addr, len, type) == [size |-> 20, addr |-> addr, len |-> len, type |-> type]
LowRam == E(0, 3, 1)
Rom == E(3, 1, 2)
Main == {E(4, n, 1) : n \in {3, 5, 6, 8, 20}}
Odd == {E(5, 3, 1), E(4, 5, 2), E(7, 10, 1)}
HighRam == {E(24, n, t) : n \in {1, 12}, t \in {1, 3}}
Regions == {<<LowRam, Rom, m, h>> : m \in Main \union Odd, h \in HighRam}
             \union {<<m, LowRam>> : m \in Main} \union {<<>>}
             \union {<<LowRam, Rom, m, h, LowRam, Rom>> :
                       m \in {E(4, 8, 1)}, h \in HighRam}
Tails == {<<>>, <<E(40, 9, 1)>>, <<E(0, 0, 9), E(50, 2, 2)>>}
Given(m, t) == [given |-> TRUE, map |-> m, tail |-> t]
OneMap == Given(<<LowRam, Rom, E(4, 8, 1), E(24, 1, 3)>>, <<>>)
MCMaps == {Given(m, t) : m \in Regions, t \in Tails}
            \union {[given |-> FALSE, map |-> <<>>, tail |-> <<>>]}
MCGarbage == {[addr |-> 0, len |-> 0, type |-> 0],
              [addr |-> 1, len |-> 60, type |-> 1]}

\* Firmwares: the EBDA is searched over 5 .. 7, the BIOS area over 10 .. 13.
S(type, len, id, irq, gsi, addr) ==
  [type |-> type, len |-> len, id |-> id, irq |-> irq, gsi |-> gsi,
   gsid |-> gsi, addr |-> addr, upper |-> 0]
Cpu(id) == S(0, 8, id, 0, 0, 0)
Io(id, base) == S(1, 12, id, 0, base, 100 + id)
Iso(irq, gsi) == S(2, 10, 0, irq, gsi, 0)
Nmi == S(4, 6, 0, 0, 0, 0)
Override == S(5, 12, 0, 0, 0, 99)
Endless == S(6, 0, 0, 0, 0, 0)

Usual == <<Cpu(0), Io(0, 0), Iso(0, 2), Iso(9, 9), Nmi>>
Madts == {Usual, <<Nmi, Cpu(0), Cpu(1), Io(1, 0), Io(2, 24), Iso(0, 2)>>,
          <<Override, Cpu(0)>>, <<Cpu(0), Cpu(1), Cpu(2), Cpu(3), Nmi>>,
          <<Io(0, 0), Nmi, Cpu(0), Cpu(1), Cpu(2)>>,
          <<Cpu(0), Endless, Io(0, 0)>>, <<Io(0, 0), Iso(9, 258)>>, <<>>}
Facp == [sig |-> "FACP", base |-> 0, entries |-> <<>>]
Apic(es) == [sig |-> "APIC", base |-> 254, entries |-> es]
Rsdts == {<<Facp, Apic(es)>> : es \in Madts}
           \union {<<Apic(<<Cpu(7)>>), Facp, Apic(<<Cpu(8)>>)>>, <<Facp>>, <<>>}
P(rev, ts) == [revision |-> rev, tables |-> ts]
At(p, ts) == [ebda |-> 5, xsdps |-> [q \in {p} |-> P(0, ts)]]
MCFirmwares ==
  {At(p, ts) : p \in {5, 7, 8, 10, 13, 14}, ts \in Rsdts}
  \union {[ebda |-> 5, xsdps |-> [p \in {7, 10} |-> P(p - 7, <<Facp>>)]],
          [ebda |-> 5, xsdps |-> [p \in {12} |-> P(2, <<Facp>>)]],
          [ebda |-> 9, xsdps |-> [p \in {13} |-> P(0, <<Apic(<<Cpu(0)>>)>>)]]}

\* Machines: of the emulated machine's size, two controllers in either order,
\* overrides that exchange pins, as many pins as there are vectors, and more,
\* two controllers with one id, and an override above 255.
Machine(madt_, pins, raised) ==
  [kernel |-> OneKernel, map |-> OneMap, firmware |-> At(7, <<Apic(madt_)>>),
   machine |-> [pins |-> pins, raised |-> raised]]
Machines_ ==
  {Machine(<<Cpu(0), Io(0, 0), Iso(0, 2), Iso(5, 5), Iso(9, 9)>>, <<24>>,
           {<<1, 2>>, <<1, 4>>, <<1, 20>>}),
   Machine(<<Io(0, 0), Io(1, 16), Iso(3, 4), Iso(4, 3), Iso(9, 20)>>, <<16, 24>>,
           {<<1, 3>>, <<2, 4>>}),
   Machine(<<Io(1, 24), Io(0, 0), Iso(0, 2), Iso(7, 25), Nmi>>, <<8, 24>>,
           {<<1, 1>>}),
   Machine(<<Io(0, 0), Cpu(0)>>, <<224>>, {<<1, 222>>, <<1, 0>>}),
   Machine(<<Io(0, 0), Cpu(0)>>, <<240>>, {<<1, 223>>}),
   Machine(<<Io(0, 0), Io(0, 16), Iso(9, 20)>>, <<16, 24>>, {<<1, 4>>, <<2, 4>>}),
   Machine(<<Io(0, 0), Iso(9, 258)>>, <<24>>, {<<1, 2>>})}

IoapicsOf(t) == {j \in DOMAIN t.entries : t.entries[j].type = 1}
Count(f) ==
  Max({0} \union UNION {{Cardinality(IoapicsOf(t)) :
                           t \in ToSet(f.xsdps[p].tables)} : p \in DOMAIN f.xsdps})
Computer(n, m, f) ==
  [kernel |-> n, map |-> m, firmware |-> f,
   machine |-> [pins |-> [c \in 1 .. Count(f) |-> 8], raised |-> {}]]
One == At(13, <<Facp, Apic(Usual)>>)
MCComputers ==
  {Computer(n, OneMap, One) : n \in MCKernels}
    \union {Computer(OneKernel, m, One) : m \in MCMaps}
    \union {Computer(OneKernel, OneMap, f) : f \in MCFirmwares}
    \union Machines_
MCFaults == {0, 8, 13, 14}
MCCalls == {1, 7, 65535}
MCInts == {8, 14, 33, 255}
MCRegistrations == {33}
=============================================================================
