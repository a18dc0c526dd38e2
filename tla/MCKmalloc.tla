----------------------------- MODULE MCKmalloc -----------------------------
(***************************************************************************)
(* Pages of three bytes and a window of five: sizes below, at and above    *)
(* the end of a page, and one that needs two pages.                        *)
(***************************************************************************)
EXTENDS Kmalloc

MCSizes == {0, 1, 2, 3}
MCPageCounts == {1, 2}
=============================================================================
