------------------------------ MODULE MCSerial ------------------------------
(***************************************************************************)
(* PCs with one and two ports, with ports the BIOS does not know, and with *)
(* none.  0x3F8 = 1016, 0x2F8 = 760.                                       *)
(***************************************************************************)
EXTENDS Serial

COM1 == 1016
COM2 == 760
PC(words, chips) == [words |-> words, chips |-> chips]
MCMachines ==
  {PC(<<COM1, 0, 0, 0>>, {COM1}), PC(<<COM1, COM2, 0, 0>>, {COM1, COM2}),
   PC(<<COM2, 0, 0, 0>>, {COM2}), PC(<<0, COM2, 0, 0>>, {COM1, COM2}),
   PC(<<0, 0, 0, 0>>, {COM1}), PC(<<0, 0, 0, 0>>, {})}
=============================================================================
