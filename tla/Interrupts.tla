----------------------------- MODULE Interrupts -----------------------------
(***************************************************************************)
(* Interrupts from the pin of an I/O controller to the end of their        *)
(* handler: the redirections that enable_apic writes, the gates of the     *)
(* IDT, the stubs and the shim of entry_shim.S with the frame they build   *)
(* on the stack, the handlers, and the way back.  System calls share the   *)
(* frame (sysentry.S), and are here for that.                              *)
(*                                                                         *)
(* The stack is a sequence of words; a struct regs is the part of it that  *)
(* begins at its last word.  A word is a pair, of whose value it is and of *)
(* what; so is the value of a register.  rip is the next piece of code.    *)
(*                                                                         *)
(* Only modules fill irq_handlers, and a program loads them, which runs    *)
(* with interrupts off: what they register runs for the program's own int  *)
(* instructions, for which every gate is open (RunsUninterrupted).         *)
(***************************************************************************)
EXTENDS Integers, SequencesExt, FiniteSetsExt

CONSTANTS
  Machines,    \* the pins of each controller, and those that are raised
  Faults,      \* the exceptions that may happen
  Calls,       \* the numbers of system calls that a program makes
  Ints,        \* the vectors that it asks for with int
  Registrations,  \* the vectors that modules have a handler for
  SYSCALL_MAX

Traps == 0 .. 31                       \* TRAP_DIV_ERR .. TRAP_SEC
TRAP_DOUBLE == 8
TRAP_PGF == 14
Gates == 0 .. 254                      \* idt[255]
IOAPIC_IRQ_BASE == 32
Masked == -1                           \* a redirection after reset

\* The selectors of code: the kernel's, the one that a program begins with,
\* and the one that sysretq loads, 16 above STAR's: of the TSS, in the GDT.
GDT_KERNEL_CODE == 8
GDT_USER_CODE == 24
SYSRET_CODE == 40

\* The exceptions with an error code, by the stubs and by the processor.
StubHasCode == {10, 11, 12, 13, 14, 17, 21, 29, 30}
CpuHasCode == StubHasCode \union {TRAP_DOUBLE}

Pins(m) == UNION {{c} \X (0 .. m.pins[c] - 1) : c \in DOMAIN m.pins}

Constants ==
  /\ Faults \subseteq Traps
  /\ Calls \subseteq Nat /\ Ints \subseteq Nat /\ Registrations \subseteq Gates
  /\ \A m \in Machines : m.pins \in Seq(Nat \ {0}) /\ m.raised \subseteq Pins(m)

-----------------------------------------------------------------------------
\* SAVE_REGS, RESTORE_REGS, and struct regs.
SaveOrder ==
  <<"rax", "rbx", "rcx", "rdx", "rdi", "rsi", "r8", "r9", "r10", "r11", "r12",
    "r13", "r14", "r15", "rbp">>
RestoreOrder_Swapped ==                                          \* variant
  <<"rbp", "r15", "r14", "r13", "r12", "r11", "r10", "r9", "r8", "rdi", "rsi",
    "rdx", "rcx", "rbx", "rax">>
RestoreOrder ==
  <<"rbp", "r15", "r14", "r13", "r12", "r11", "r10", "r9", "r8", "rsi", "rdi",
    "rdx", "rcx", "rbx", "rax">>
RegsFields ==
  <<"rbp", "r15", "r14", "r13", "r12", "r11", "r10", "r9", "r8", "rsi", "rdi",
    "rdx", "rcx", "rbx", "rax", "irq", "error_code", "rip", "cs", "rflags",
    "rsp", "ss">>
Registers == ToSet(SaveOrder)

VARIABLES
  stage,       \* "boot", "enabled", "run", or how it ended
  machine,
  ioapics, legacymaps,   \* struct kernel_state's lists, which Acpi fills
  redir,       \* the redirection of each pin
  idt,         \* the gates: type, whether they lead to their stub, and
               \* whether an int of a program may pass
  handlers,    \* what the shim calls
  irq_handlers,  \* the vectors for which irq_handler calls a module
  irr, isr,    \* the local controller: vectors requested and in service
  flags,       \* interrupts are "on" or "off"
  selector,    \* of the code that runs
  rip, regs,   \* the processor: next code, general registers
  stack,
  taken,       \* history: what each frame on the stack interrupted
  report       \* what the panic printed

cpu == <<flags, selector, rip, regs, stack, taken>>
lapic == <<irr, isr>>
lists == <<ioapics, legacymaps>>
tables == <<machine, lists, redir, idt, handlers, irq_handlers>>
vars == <<stage, tables, lapic, cpu, report>>

Absent == [type |-> "absent", entry |-> FALSE, user |-> FALSE]
Holds(who) == [r \in Registers |-> <<who, r, 0>>]
Number(n) == <<"number", "", n>>
Code(c) == <<c, 0>>
NoReport == <<>>

Init ==
  /\ stage = "boot" /\ machine \in Machines
  /\ redir = [p \in Pins(machine) |-> Masked]
  /\ idt = [v \in Gates |-> Absent]
  /\ handlers = [v \in Gates |-> "none"] /\ irq_handlers = {}
  /\ irr = {} /\ isr = {} /\ flags = "off" /\ selector = GDT_KERNEL_CODE
  /\ rip = Code("kernel") /\ regs = Holds("kernel")
  /\ stack = <<>> /\ taken = <<>> /\ report = NoReport

-----------------------------------------------------------------------------
\* register_handler opens the gate to programs (GATE_USER), and does not set
\* where it leads: load_idtentry does.
Registered(vs, type) ==
  [v \in Gates |-> IF v \in vs
                   THEN [idt[v] EXCEPT !.type = type, !.user = TRUE] ELSE idt[v]]

EnableTraps ==
  /\ stage = "boot"
  /\ idt' = Registered(Traps, "trap")
  /\ handlers' = [v \in Gates |-> IF v = TRAP_PGF THEN "page_fault_handler"
                                  ELSE IF v \in Traps THEN "default_trap_handler"
                                  ELSE handlers[v]]
  /\ stage' = "traps"
  /\ UNCHANGED <<machine, lists, redir, irq_handlers, lapic, cpu, report>>

(***************************************************************************)
(* The registers of a controller are reached through the page of its id,   *)
(* which stays mapped to the first controller that has the id.  Their      *)
(* register takes any number, and one that names no pin is ignored.        *)
(*                                                                         *)
(* enable_ioapic takes the version register's highest entry for their      *)
(* number, and numbers the vectors from each controller's own first pin.   *)
(* A global interrupt is then written to every controller that does not    *)
(* begin above it.                                                         *)
(***************************************************************************)
Reached(c) == SelectInSeq(ioapics, LAMBDA d : d.id = ioapics[c].id)
ReachedAs(c) == {d \in DOMAIN ioapics : Reached(d) = c}

RelocateLen(c) == machine.pins[c] - 1
Relocated ==
  [p \in DOMAIN redir |-> IF ReachedAs(p[1]) # {} /\ p[2] < RelocateLen(p[1])
                          THEN IOAPIC_IRQ_BASE + p[2] ELSE redir[p]]

Redirect_NoBase(r, l) ==                                         \* variant
  [p \in DOMAIN r |-> IF p[2] = l.gsi THEN IOAPIC_IRQ_BASE + l.irq ELSE r[p]]
Redirect(r, l) ==
  [p \in DOMAIN r |->
     IF \E c \in ReachedAs(p[1]) :
          ioapics[c].base <= l.gsi /\ p[2] = l.gsi - ioapics[c].base
     THEN IOAPIC_IRQ_BASE + l.irq ELSE r[p]]

IrqGates == 32 .. 254

EnableApic ==
  /\ stage = "traps"
  /\ idt' = Registered(IrqGates, "int")
  /\ handlers' = [v \in Gates |-> IF v \in IrqGates THEN "irq_handler"
                                  ELSE handlers[v]]
  /\ redir' = FoldLeft(Redirect, Relocated, legacymaps)
  /\ stage' = "enabled"
  /\ UNCHANGED <<machine, lists, irq_handlers, lapic, cpu, report>>

\* enable_idt keeps the flags of the gates that are present; then sti.
GateType(v) == IF idt[v].type = "absent" THEN "trap" ELSE idt[v].type

EnableIdt ==
  /\ stage = "enabled"
  /\ idt' = [v \in Gates |-> [type |-> GateType(v), entry |-> TRUE,
                              user |-> idt[v].user]]
  /\ flags' = "on"
  /\ stage' = "run"
  /\ UNCHANGED <<machine, lists, redir, handlers, irq_handlers, lapic,
                 selector, rip, regs, stack, taken, report>>

-----------------------------------------------------------------------------
\* External: a device raises its pin.
Raise(p) ==
  /\ stage \in {"enabled", "run"} /\ redir[p] # Masked
  /\ irr' = irr \union {redir[p]}
  /\ UNCHANGED <<stage, tables, isr, cpu, report>>

(***************************************************************************)
(* The processor pushes what it interrupts, at code at with registers rs   *)
(* and stack s, perhaps an error code, and follows the gate.               *)
(***************************************************************************)
Pushed(at, len, code) ==
  <<<<at[1], "ss", 0>>, Number(len), <<flags, "rflags", 0>>,
    <<at[1], "cs", selector>>, <<at[1], "rip", at[2]>>>> \o code

Follow(v, at, rs, s, code, soft) ==
  /\ stack' = s \o Pushed(at, Len(s), code)
  /\ rip' = <<"stub", v>> /\ regs' = rs
  /\ flags' = IF idt[v].type = "int" THEN "off" ELSE flags
  /\ selector' = GDT_KERNEL_CODE
  /\ taken' = Append(taken, [irq |-> v, rip |-> at, regs |-> rs,
                             flags |-> flags, selector |-> selector,
                             len |-> Len(s), soft |-> soft])

ErrorCode(v) == IF v \in CpuHasCode THEN <<Number(v)>> ELSE <<>>
Deliver(v) == Follow(v, rip, regs, stack, ErrorCode(v), FALSE)

\* External: the highest requested vector above what is in service.
Interrupt ==
  /\ stage = "run" /\ flags = "on" /\ irr # {}
  /\ LET v == Max(irr)
     IN  /\ v \in Gates
         /\ \A w \in isr : v \div 16 > w \div 16
         /\ irr' = irr \ {v} /\ isr' = isr \union {v}
         /\ Deliver(v)
  /\ UNCHANGED <<stage, tables, report>>

(***************************************************************************)
(* The table has no gate 255, which its limit does not say: the processor  *)
(* reads what lies behind it.  255 is the vector of spurious interrupts,   *)
(* that of a controller's pin 223, and one that a program may ask for.     *)
(***************************************************************************)
NoGate ==
  /\ stage = "run"
  /\ flags = "on" \/ (rip[1] = "user" /\ 255 \in Ints)
  /\ stage' = "wild"
  /\ UNCHANGED <<tables, lapic, cpu, report>>

Running == rip[1] \in {"kernel", "user", "irq_handler", "module", "syscall"}

\* An exception; without an IDT the processor resets.
Fault(v) ==
  /\ Running
  /\ IF stage = "run" THEN Deliver(v) /\ UNCHANGED stage
     ELSE /\ stage \in {"boot", "traps", "enabled"}
          /\ stage' = "reset" /\ UNCHANGED cpu
  /\ UNCHANGED <<tables, lapic, report>>

At(code) == stage = "run" /\ rip[1] = code

\* int, which pushes no error code.
SoftInterrupt(v) ==
  /\ At("user") /\ v \in Gates /\ idt[v].user
  /\ Follow(v, rip, regs, stack, <<>>, TRUE)
  /\ UNCHANGED <<stage, tables, lapic, report>>

-----------------------------------------------------------------------------
StubPushes_NeverZero(v) == <<Number(v)>>                              \* variant
StubPushes(v) == IF v \in StubHasCode THEN <<Number(v)>>
                 ELSE <<Number(0), Number(v)>>

\* entry_point and entry_point_noerr.
Stub ==
  /\ At("stub")
  /\ stack' = stack \o StubPushes(rip[2])
  /\ rip' = Code("entry_shim")
  /\ UNCHANGED <<stage, tables, lapic, flags, selector, regs, taken, report>>

Saved == [i \in 1 .. Len(SaveOrder) |-> regs[SaveOrder[i]]]
\* The field of the struct regs whose last word pushed is the first of s.
Field(s, f) == s[Len(s) - SelectInSeq(RegsFields, LAMBDA g : g = f) + 1]

\* SAVE_REGS, and the call of the handler; C code uses the registers.
Shim ==
  /\ At("entry_shim")
  /\ stack' = stack \o Saved
  /\ rip' = Code(handlers[Field(stack \o Saved, "irq")[3]])
  /\ regs' = Holds("handler")
  /\ UNCHANGED <<stage, tables, lapic, flags, selector, taken, report>>

\* default_trap_handler and page_fault_handler: the machine stops.
Panic ==
  /\ stage = "run" /\ rip[1] \in {"default_trap_handler", "page_fault_handler"}
  /\ report' = <<Field(stack, "irq"), Field(stack, "rip"),
                 Field(stack, "error_code")>>
  /\ stage' = "panic"
  /\ UNCHANGED <<tables, lapic, cpu>>

Irq == Field(stack, "irq")[3]

IrqHandler_NoEoi ==                                   \* variant: a bare return
  /\ At("irq_handler") /\ Irq \notin irq_handlers
  /\ rip' = Code("restore")
  /\ UNCHANGED <<stage, tables, lapic, flags, selector, regs, stack, taken,
                 report>>

\* The end of interrupt, for the highest vector in service if one is.
EndOfInterrupt ==
  /\ isr' = {v \in isr : \E w \in isr : v < w}
  /\ rip' = Code("restore")
  /\ UNCHANGED <<stage, tables, irr, flags, selector, regs, stack, taken, report>>

IrqHandler == At("irq_handler") /\ Irq \notin irq_handlers /\ EndOfInterrupt

CallModule ==
  /\ At("irq_handler") /\ Irq \in irq_handlers
  /\ rip' = Code("module")
  /\ UNCHANGED <<stage, tables, lapic, flags, selector, regs, stack, taken,
                 report>>

\* External: a module's handler returns, and has left the struct regs alone.
ModuleReturns == At("module") /\ EndOfInterrupt

\* External: the init of a module, which lmod calls.
RegisterIrqHandler(v) ==
  /\ At("syscall")
  /\ irq_handlers' = irq_handlers \union {v}
  /\ UNCHANGED <<stage, machine, lists, redir, idt, handlers, lapic, cpu, report>>

Popped == [r \in Registers |->
             stack[Len(stack) - SelectInSeq(RestoreOrder, LAMBDA g : g = r) + 1]]
Rest(n) == SubSeq(stack, 1, Len(stack) - n)
Skips_CodeKept == Len(SaveOrder) + 1                              \* variant
Skips == Len(SaveOrder) + 2            \* the number and the error code
Iret == Rest(Skips)
RipOf(word) == <<word[1], word[3]>>

\* RESTORE_REGS and iretq, which takes back the stack pointer as well, and
\* refuses a selector that is not of code.
PoppedSelector == Iret[Len(Iret) - 1][3]
Return ==
  /\ At("restore") /\ PoppedSelector # SYSRET_CODE
  /\ regs' = Popped
  /\ rip' = RipOf(Iret[Len(Iret)])
  /\ flags' = Iret[Len(Iret) - 2][1] /\ selector' = PoppedSelector
  /\ stack' = SubSeq(stack, 1, Iret[Len(Iret) - 3][3])
  /\ taken' = Front(taken)
  /\ UNCHANGED <<stage, tables, lapic, report>>

TRAP_GPF == 13
IretFaults ==
  /\ At("restore") /\ PoppedSelector = SYSRET_CODE
  /\ Follow(TRAP_GPF, Code("iret"), Popped, Iret, ErrorCode(TRAP_GPF), FALSE)
  /\ UNCHANGED <<stage, tables, lapic, report>>

-----------------------------------------------------------------------------
UserFlags_On == "on"                                             \* variant
UserFlags == "off"                     \* init_regs.rflags = 0x002

\* exec_process and switch_process: to a program, by iretq.
StartUser ==
  /\ At("kernel")
  /\ rip' = Code("user") /\ regs' = Holds("user")
  /\ flags' = UserFlags /\ selector' = GDT_USER_CODE /\ stack' = <<>>
  /\ UNCHANGED <<stage, tables, lapic, taken, report>>

\* syscall leaves the flags, and rip and rflags in rcx and r11.
Entered == [regs EXCEPT !["rcx"] = <<rip[1], "rip", rip[2]>>,
                         !["r11"] = <<flags, "rflags", 0>>]
Syscall(n) ==
  /\ At("user")
  /\ LET r == [Entered EXCEPT !["rax"] = Number(n)]
     IN  stack' = stack \o [k \in 1 .. 7 |-> <<"blank", "", 0>>]
                        \o [i \in 1 .. Len(SaveOrder) |-> r[SaveOrder[i]]]
  /\ rip' = Code(IF n < SYSCALL_MAX THEN "syscall" ELSE "nowhere")
  /\ regs' = Holds("handler") /\ selector' = GDT_KERNEL_CODE
  /\ UNCHANGED <<stage, tables, lapic, flags, taken, report>>

\* A number past the table calls what lies behind it.
CallNowhere ==
  /\ At("nowhere")
  /\ stage' = "wild"
  /\ UNCHANGED <<tables, lapic, cpu, report>>

Drop == Len(SaveOrder) + 2 + 5

\* The call leaves its result in rax's word; RESTORE_REGS, sysretq.
Sysret ==
  /\ At("syscall")
  /\ regs' = [Popped EXCEPT !["rax"] = <<"handler", "rax", 0>>]
  /\ rip' = RipOf(Popped["rcx"])
  /\ flags' = Popped["r11"][1] /\ selector' = SYSRET_CODE
  /\ stack' = Rest(Drop)
  /\ UNCHANGED <<stage, tables, lapic, taken, report>>

Kernel == EnableTraps \/ EnableApic \/ EnableIdt \/ Stub \/ Shim \/ Panic
            \/ IrqHandler \/ CallModule \/ Return \/ IretFaults \/ CallNowhere
            \/ Sysret

Next ==
  \/ Kernel \/ StartUser \/ Interrupt \/ NoGate \/ ModuleReturns
  \/ \E p \in machine.raised : Raise(p)
  \/ \E v \in Faults : Fault(v)
  \/ \E v \in Ints : SoftInterrupt(v)
  \/ \E v \in Registrations : RegisterIrqHandler(v)
  \/ \E n \in Calls : Syscall(n)

Spec == Init /\ [][Next]_vars

-----------------------------------------------------------------------------
(***************************************************************************)
(* What was interrupted goes on as if nothing had been: iretq finds where  *)
(* it was, its selector, flags and stack, and every register has its value *)
(* again (entry_shim.S:78-90, int_shim.h:6-42).  That iretq takes a        *)
(* program's selector is not said: it refuses the one of sysretq.          *)
(***************************************************************************)
InterruptedResumes ==
  At("restore") =>
    LET t == Last(taken)
    IN  /\ Popped = t.regs
        /\ Len(Iret) = t.len + 5
        /\ Iret[Len(Iret)] = <<t.rip[1], "rip", t.rip[2]>>
        /\ Iret[Len(Iret) - 1] = <<t.rip[1], "cs", t.selector>>
        /\ Iret[Len(Iret) - 2] = <<t.flags, "rflags", 0>>
        /\ Iret[Len(Iret) - 3] = Number(t.len)

(***************************************************************************)
(* A system call returns to where it was made, with the program's stack,   *)
(* registers and flags but rax, rcx and r11 (sysentry.S:8-20).             *)
(***************************************************************************)
ResumesCaller ==
  At("syscall") /\ rip' # rip /\ taken' = taken =>
    /\ rip' = Code("user") /\ stack' = <<>> /\ flags' = flags
    /\ \A r \in Registers \ {"rax", "rcx", "r11"} : regs'[r] = <<"user", r, 0>>

(***************************************************************************)
(* A trap's panic names the vector, and where and with which error code it *)
(* was raised (exception_handlers.c:6-21), but for two that are entered    *)
(* with a word more or less than their stub expects: the double fault, of  *)
(* which it expects no code, and an int of a program for a vector of which *)
(* it expects one.                                                         *)
(***************************************************************************)
CodeOf(t) == IF t.irq \in CpuHasCode /\ ~t.soft THEN t.irq ELSE 0
Misentered(t) == IF t.soft THEN t.irq \in CpuHasCode \ {TRAP_DOUBLE}
                 ELSE t.irq = TRAP_DOUBLE

Tells(t) ==
  /\ report[2] = <<t.rip[1], "rip", t.rip[2]>>
  /\ report[3] = Number(CodeOf(t))

PanicTellsTruth ==
  stage = "panic" =>
    LET t == Last(taken)
    IN  report[1] = Number(t.irq) /\ (~Misentered(t) => Tells(t))

(***************************************************************************)
(* On machines whose controllers have at most 224 pins, and overrides are  *)
(* of the 16 legacy interrupts, every pin is masked or raises a vector     *)
(* with a gate to irq_handler, and never an exception                      *)
(* (enable_apic.c:17-38).                                                  *)
(***************************************************************************)
LegacyPins ==
  /\ \A c \in DOMAIN machine.pins : machine.pins[c] <= 224
  /\ \A j \in DOMAIN legacymaps : legacymaps[j].irq <= 15

PinsReachIrqHandler ==
  stage = "run" /\ LegacyPins =>
    \A p \in DOMAIN redir : redir[p] # Masked =>
      /\ redir[p] \in Gates /\ handlers[redir[p]] = "irq_handler"
      /\ idt[redir[p]].type = "int" /\ idt[redir[p]].entry

(***************************************************************************)
(* Interrupts do not nest, so that one stack of a page or two is enough    *)
(* for them; and no device interrupts a program or its calls: its flags    *)
(* have none on, and a call keeps them (exec_process.c:99,                 *)
(* enable_syscalls.S:21-23).  So a module's handler runs, and iretq meets  *)
(* the selector that it refuses, only for an int of the program.           *)
(***************************************************************************)
NoNesting == Cardinality({i \in DOMAIN taken : taken[i].irq \in IrqGates}) <= 1

RunsUninterrupted ==
  /\ \A i \in DOMAIN taken : taken[i].rip[1] \in {"user", "syscall"} =>
       \A j \in i .. Len(taken) : taken[j].irq \in IrqGates => taken[j].soft
  /\ rip[1] = "module" => Last(taken).soft
  /\ \A j \in DOMAIN taken : taken[j].rip[1] = "iret" => taken[j - 1].soft
=============================================================================
