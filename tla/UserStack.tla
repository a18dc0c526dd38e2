----------------------------- MODULE UserStack -----------------------------
(***************************************************************************)
(* What do_exec and exec_process leave on the stack of a new program.  The *)
(* strings lie one behind the other below USER_STACK_TOP, without their    *)
(* terminators; below them the words that lead to them.  The mappings of   *)
(* the program, its descriptors and its upper half are in Vm and Files.    *)
(*                                                                         *)
(* A byte is <<what, n, k>>: the k-th of string n, or of a word with value *)
(* n.  Fresh pages are blank.  do_exec gives no auxiliary vector.          *)
(***************************************************************************)
EXTENDS Integers, FiniteSets, SequencesExt

CONSTANTS
  Strings,          \* the lengths of the strings a caller may pass
  MAX_STRINGS,      \* and how many, of each kind
  WORD,             \* bytes of a pointer
  PAGE_SIZE,
  TOP_PAGE          \* the last page of the lower half

Constants ==
  /\ Strings \subseteq Nat /\ MAX_STRINGS \in Nat
  /\ WORD \in Nat \ {0} /\ PAGE_SIZE > 2 * WORD /\ TOP_PAGE \in Nat

\* The last address of the lower half, not the first one above it.
USER_STACK_TOP == (TOP_PAGE + 1) * PAGE_SIZE - 1

VARIABLES
  stage,     \* "map", "argc", "argv", "envv", "auxv", "regs", "run", "wild",
             \* "panic"
  argv, envv,
  i,         \* the loop counter
  written,   \* arg_written, env_written
  mapped,    \* the pages of the stack that are there
  mem        \* its bytes that were written

vars == <<stage, argv, envv, i, written, mapped, mem>>

Lists == UNION {[1 .. n -> Strings] : n \in 0 .. MAX_STRINGS}

Init ==
  /\ argv \in Lists /\ envv \in Lists
  /\ stage = "map" /\ i = 1 /\ written = 0 /\ mapped = {} /\ mem = <<>>

-----------------------------------------------------------------------------
\* do_exec: what the strings take.
Total(list) == FoldLeft(+, 0, list)
arglen == Total(argv)
envlen == Total(envv)

argvs == USER_STACK_TOP - arglen
envvs == argvs - envlen

sizeof_auxv_Word == WORD                                          \* variant
sizeof_auxv == 2 * WORD
user_stack ==
  envvs - sizeof_auxv - WORD * (1 + Len(envv)) - WORD * (1 + Len(argv)) - WORD

\* The size is rounded up, its first address down.
initial_stack_size == USER_STACK_TOP - user_stack
StackPages == (initial_stack_size + PAGE_SIZE - 1) \div PAGE_SIZE

MapStack ==
  /\ stage = "map"
  /\ \E n \in 0 .. StackPages :           \* fewer: memory ran out
       LET first == user_stack \div PAGE_SIZE
       IN  mapped' = first .. first + n - 1
  /\ stage' = "argc"
  /\ UNCHANGED <<argv, envv, i, written, mem>>

-----------------------------------------------------------------------------
At(a, bytes) == [x \in a .. a + Len(bytes) - 1 |-> bytes[x - a + 1]]
Word(k, value) == At(user_stack + WORD * k,
                     [b \in 1 .. WORD |-> <<"word", value, b>>])
String(what, n, length, a) == At(a, [b \in 1 .. length |-> <<what, n, b>>])

\* Memory with some of its bytes written.
Upon(bytes, old) ==
  [a \in DOMAIN bytes \union DOMAIN old |->
     IF a \in DOMAIN bytes THEN bytes[a] ELSE old[a]]

\* A byte that goes to a page that is not there is a fault of the kernel.
Reaches(bytes) == \A a \in DOMAIN bytes : a \div PAGE_SIZE \in mapped
Put(bytes, next) ==
  /\ stage' = IF Reaches(bytes) THEN next ELSE "panic"
  /\ mem' = IF Reaches(bytes) THEN Upon(bytes, mem) ELSE mem
  /\ UNCHANGED <<argv, envv, mapped>>

PutArgc == /\ stage = "argc" /\ Put(Word(0, Len(argv)), "argv")
           /\ UNCHANGED <<i, written>>

PutArg ==
  /\ stage = "argv" /\ i <= Len(argv)
  /\ LET a == argvs + written
     IN  Put(Upon(String("arg", i, argv[i], a), Word(i, a)), "argv")
  /\ i' = i + 1 /\ written' = written + argv[i]

EndArgs ==
  /\ stage = "argv" /\ i > Len(argv)
  /\ Put(Word(1 + Len(argv), 0), "envv")
  /\ i' = 1 /\ written' = 0

PutEnv ==
  /\ stage = "envv" /\ i <= Len(envv)
  /\ LET a == envvs + written
     IN  Put(Upon(String("env", i, envv[i], a), Word(1 + Len(argv) + i, a)),
             "envv")
  /\ i' = i + 1 /\ written' = written + envv[i]

EndEnvs ==
  /\ stage = "envv" /\ i > Len(envv)
  /\ Put(Word(2 + Len(argv) + Len(envv), 0), "auxv")
  /\ UNCHANGED <<i, written>>

AuxNull == Upon(Word(3 + Len(argv) + Len(envv), 0),
                Word(4 + Len(argv) + Len(envv), 0))
PutAux == stage = "auxv" /\ Put(AuxNull, "regs") /\ UNCHANGED <<i, written>>

\* The registers go to a kernel stack of its own, or, if the window or memory
\* has no room for it, to some address in the lower half ("wild").
EnterProcess ==
  /\ stage = "regs" /\ stage' \in {"run", "wild"}
  /\ UNCHANGED <<argv, envv, i, written, mapped, mem>>

Next == \/ MapStack \/ PutArgc \/ PutArg \/ EndArgs \/ PutEnv \/ EndEnvs
        \/ PutAux \/ EnterProcess

Spec == Init /\ [][Next]_vars

-----------------------------------------------------------------------------
(***************************************************************************)
(* What the program finds from rsp on: argc, the pointers to its arguments *)
(* and a null, the pointers to its environment and a null, an empty vector *)
(* (two nulls); at each pointer the bytes of its string                    *)
(* (exec_process.c:67-92).                                                 *)
(***************************************************************************)
Holds(bytes) == \A a \in DOMAIN bytes : a \in DOMAIN mem /\ mem[a] = bytes[a]
Before(list, n) == Total(SubSeq(list, 1, n - 1))
StackHolds ==
  stage = "run" =>
    /\ Holds(Word(0, Len(argv))) /\ Holds(Word(1 + Len(argv), 0))
    /\ Holds(Word(2 + Len(argv) + Len(envv), 0)) /\ Holds(AuxNull)
    /\ \A n \in DOMAIN argv :
         LET a == argvs + Before(argv, n)
         IN  Holds(Word(n, a)) /\ Holds(String("arg", n, argv[n], a))
    /\ \A n \in DOMAIN envv :
         LET a == envvs + Before(envv, n)
         IN  /\ Holds(Word(1 + Len(argv) + n, a))
             /\ Holds(String("env", n, envv[n], a))

(***************************************************************************)
(* A string has no terminator: read up to a blank byte, an argument is     *)
(* itself with all that follow, a variable of the environment itself with  *)
(* all that follow and all arguments.  The blank byte is the last of the   *)
(* lower half, which nothing is written to but which is mapped, so reading *)
(* ends, and the one argument of init is read as it was given              *)
(* (exec_process.c:44-48, 65-84, entry.c:65).                              *)
(***************************************************************************)
Joined(what, list, n) ==
  FlattenSeq([k \in 1 .. Len(list) - n + 1 |->
                [b \in 1 .. list[n + k - 1] |-> <<what, n + k - 1, b>>]])
ReadFrom(a) == [b \in 1 .. USER_STACK_TOP - a |-> mem[a + b - 1]]
StringsRunOn ==
  stage = "run" =>
    /\ TOP_PAGE \in mapped /\ USER_STACK_TOP \notin DOMAIN mem
    /\ \A n \in DOMAIN argv :
         ReadFrom(argvs + Before(argv, n)) = Joined("arg", argv, n)
    /\ \A n \in DOMAIN envv :
         ReadFrom(envvs + Before(envv, n)) =
           Joined("env", envv, n) \o Joined("arg", argv, 1)

(***************************************************************************)
(* The kernel panics only if memory ran out, or if the stack is a multiple *)
(* of a page: its first page is then one lower than the size makes up for, *)
(* and the last one is missing (exec_process.c:61-65).                     *)
(***************************************************************************)
RanOut == Cardinality(mapped) < StackPages
PanicsExplained ==
  stage = "panic" => RanOut \/ initial_stack_size % PAGE_SIZE = 0
=============================================================================
