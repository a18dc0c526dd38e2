-------------------------------- MODULE Heap --------------------------------
(***************************************************************************)
(* What the users of kmalloc and of request_pages rely on: each call gives *)
(* out addresses of the kernel's window that nobody was given before, or   *)
(* nothing.  Nothing is ever taken back.                                   *)
(***************************************************************************)
EXTENDS Integers

CONSTANT Window     \* the addresses that may be given out
VARIABLE live       \* what was given out: records of an address and a length

Bytes(x) == x.a .. (x.a + x.n - 1)

Give(x) ==
  /\ x.n \in Nat
  /\ Bytes(x) \subseteq Window
  /\ \A y \in live : Bytes(x) \intersect Bytes(y) = {}
  /\ live' = live \union {x}

HeapInit == live = {}
HeapNext == \E x \in live' : Give(x)
HeapSpec == HeapInit /\ [][HeapNext]_live
=============================================================================
