---------------------------- MODULE Descriptors ----------------------------
(***************************************************************************)
(* What a program expects of its file descriptors: an open gives the next  *)
(* number, which denotes the same file for good; nothing is ever closed.   *)
(***************************************************************************)
EXTENDS Integers, Sequences

CONSTANT Limit      \* the descriptors a process can have
VARIABLE files      \* the file of descriptor fd is files[fd + 1]

DescriptorsInit == files = <<>>
Opens == /\ Len(files) < Limit
         /\ Len(files') = Len(files) + 1
         /\ SubSeq(files', 1, Len(files)) = files
DescriptorsSpec == DescriptorsInit /\ [][Opens]_files
=============================================================================
