-------------------------------- MODULE MCVm --------------------------------
(***************************************************************************)
(* A machine with tables of four entries: 256 virtual pages.  The layout   *)
(* keeps the proportions of the real one: user code in slots 0 and 1 of    *)
(* the PML4, the HHDM in slot 2, and in slot 3 the request window, which   *)
(* crosses into a second directory, the device registers behind it in that *)
(* directory, and the kernel image.                                        *)
(***************************************************************************)
EXTENDS Vm

MCL == 4
MCArenaBegin == 8
MCRamEnd == 50
MCKernelText == 232
MCHhdmBegin == 128
MCVmBegin == 204
MCVmEnd == 212
MCMmio == <<[v |-> 213, p |-> 100], [v |-> 212, p |-> 101]>>
MCUserStackTop == 128 * 8 - 1

\* A text and a data segment with an unaligned end; the same with a data
\* segment that begins inside a page and runs over its end, as begin and
\* size are rounded separately; overlapping pages.
Seg(b, e, w) == [begin |-> b, end |-> e, w |-> w]
MCPrograms ==
  { [segs |-> <<Seg(16, 27, FALSE), Seg(40, 48, TRUE)>>, use |-> 5],
    [segs |-> <<Seg(16, 24, FALSE), Seg(28, 36, TRUE)>>, use |-> 13],
    [segs |-> <<Seg(16, 20, FALSE), Seg(20, 24, TRUE)>>, use |-> 8] }
MCReqSizes == {1, 3}
=============================================================================
