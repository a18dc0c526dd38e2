------------------------------ MODULE Program -------------------------------
(***************************************************************************)
(* A file is loaded: a module up to its init function, a program up to its *)
(* first instruction, Loader's part and then UserStack's (do_exec gives    *)
(* exec_elf's mappings and its own lists of strings to exec_process).      *)
(* A word of Loader has the WORD bytes that UserStack counts.              *)
(***************************************************************************)
EXTENDS Integers, SequencesExt

CONSTANTS
  Files, Exports, PAGE_SIZE, WINDOW, WINDOW_END,       \* Loader
  Strings, MAX_STRINGS, WORD, TOP_PAGE                 \* UserStack

VARIABLES
  stage, file, i, mappings, base_vaddr, max_vaddr, base_addr, dynamic, head,
  mem,
  stack_stage, argv, envv, stack_i, written, mapped, stack_mem

L == INSTANCE Loader
U == INSTANCE UserStack WITH PAGE_SIZE <- PAGE_SIZE * WORD,
                             stage <- stack_stage, i <- stack_i,
                             mem <- stack_mem

ASSUME ProgramAssumption == L!Constants /\ U!Constants

lvars == <<stage, file, i, mappings, base_vaddr, max_vaddr, base_addr, dynamic,
           head, mem>>
uvars == <<stack_stage, argv, envv, stack_i, written, mapped, stack_mem>>
vars == <<lvars, uvars>>

\* A module is given no strings.
Init ==
  /\ L!Init /\ U!Init
  /\ file.as = "module" => argv = <<>> /\ envv = <<>>

LoadFile == L!Next /\ UNCHANGED uvars
StartProgram == stage = "exec_process" /\ U!Next /\ UNCHANGED lvars

Next == LoadFile \/ StartProgram
Spec == Init /\ [][Next]_vars

-----------------------------------------------------------------------------
(***************************************************************************)
(* exec_process is given the program's segments, in their order, with      *)
(* their addresses and rights and the file's bytes (exec_elf.c:50-78).     *)
(***************************************************************************)
ProgramPrepared == L!ProgramPrepared

(***************************************************************************)
(* A program finds its strings on its stack as do_exec was given them, but *)
(* that they run on into each other; and the kernel panics on the way only *)
(* if memory ran out or the stack is a multiple of a page (do_exec.c:9-27, *)
(* exec_process.c:44-92).                                                  *)
(***************************************************************************)
StackAsGiven == U!StackHolds /\ U!StringsRunOn /\ U!PanicsExplained

(***************************************************************************)
(* A module that is run is in memory as in its file, but for relocations,  *)
(* which have the addresses of exported symbols, and is entered at         *)
(* init_module (load_module.c:118-134, 179-224).                           *)
(***************************************************************************)
ModuleReady == L!ModuleReady

(***************************************************************************)
(* What vm.h says: request_pages is given a number of pages, which is no   *)
(* more than the segment's and the one that is always added                *)
(* (exec_elf.c:55, load_module.c:82).                                      *)
(***************************************************************************)
PagesOf(p) == (p.memsz + PAGE_SIZE - 1) \div PAGE_SIZE
TakesItsPages ==
  [][ stage = "phdrs" /\ i <= Len(file.phdrs) /\ file.phdrs[i].type = "PT_LOAD"
        => head' - head <= (PagesOf(file.phdrs[i]) + 1) * PAGE_SIZE ]_vars
=============================================================================
