------------------------------- MODULE Serial -------------------------------
(***************************************************************************)
(* Serial ports: the kernel's log (seriallog.c), the port it takes from    *)
(* the BIOS data (init_biosdata.c), and the driver module behind /dev/com1 *)
(* (serial_com/init.c).  All three write to the same chips, which send and *)
(* receive on their own meanwhile.                                         *)
(*                                                                         *)
(* A chip is [loop, tx, rx, out]: its loopback mode, the bytes it has to   *)
(* send and has received, and the ones that left it.  A byte is the number *)
(* of a byte some program wrote, or LOG, TEST, or INPUT from the line.     *)
(* Reading from a port without a chip gives all ones: ready for anything.  *)
(***************************************************************************)
EXTENDS Integers, FiniteSets, SequencesExt

CONSTANTS
  SERIAL_PORT,       \* the port of the build's configuration
  Machines,          \* what the machine may be: the words of the BIOS data
                     \* for four ports, and the ports that have a chip
  FIFO,              \* bytes a chip keeps in each direction
  LOG_LENGTH,        \* bytes of a line of the log
  MAX_LENGTH,        \* and of what a program writes or reads at once
  MAX_CALLS, MAX_INPUT      \* bounds: calls and lines logged, input

ASSUME SerialAssumption ==
  /\ FIFO \in Nat \ {0} /\ LOG_LENGTH \in Nat \ {0}
  /\ \A m \in Machines : \A k \in 1 .. 4 :
       m.words[k] = 0 \/ m.words[k] \in m.chips

LOG == -1
TEST == -2
INPUT == -3

VARIABLES
  machine,
  chip,        \* port -> the chip there
  serial_port, enabled,          \* of the kernel's log
  pc, ret,     \* the step of the call, and what follows a line of the log
  port, minor, i, len,           \* its arguments and counter
  opened,      \* the minors a program has a descriptor of
  count, last, \* the bytes programs wrote; those of the last call, if it was
               \* a write: [port, from, to]
  calls, input

call == <<port, minor, i, len>>
log == <<serial_port, enabled>>
vars == <<machine, chip, log, pc, ret, call, opened, count, last, calls, input>>

NoWrite == [port |-> 0, from |-> 1, to |-> 0]

Init ==
  /\ machine \in Machines
  /\ chip = [p \in machine.chips |->
               [loop |-> FALSE, tx |-> <<>>, rx |-> <<>>, out |-> <<>>]]
  /\ serial_port = SERIAL_PORT /\ enabled = FALSE
  /\ pc = "init" /\ ret = "biosdata" /\ port = SERIAL_PORT
  /\ minor = 0 /\ i = 0 /\ len = 0
  /\ opened = {} /\ count = 0 /\ last = NoWrite /\ calls = 0 /\ input = 0

-----------------------------------------------------------------------------
(***************************************************************************)
(* The BIOS data: two bytes for each word, read at an offset in bytes.     *)
(***************************************************************************)
BdaByte(offset) ==
  LET word == machine.words[offset \div 2 + 1]
  IN  IF offset % 2 = 0 THEN word % 256 ELSE word \div 256
BDA_WORD(offset) == BdaByte(offset) + 256 * BdaByte(offset + 1)

\* The ports that init_biosdata looks at: at byte offsets 0 to 3.
Candidates == 0 .. 3

InitBiosdata ==
  /\ pc = "biosdata" /\ pc' = "idle"
  /\ LET found == {k \in Candidates : BDA_WORD(k) # 0}
     IN  serial_port' = IF found = {} THEN serial_port
                        ELSE BDA_WORD(CHOOSE k \in found :
                                        \A l \in found : k <= l)
  /\ UNCHANGED <<machine, chip, enabled, ret, call, opened, count, last,
                 calls, input>>

-----------------------------------------------------------------------------
\* The chip: one more byte to send or received, if there is room.
Keep(queue, byte) == IF Len(queue) < FIFO THEN Append(queue, byte) ELSE queue

Send(p) ==
  /\ chip[p].tx # <<>>
  /\ LET c == chip[p]
         byte == Head(c.tx)
         sent == [c EXCEPT !.tx = Tail(c.tx)]
     IN  chip' = [chip EXCEPT ![p] =
           IF c.loop THEN [sent EXCEPT !.rx = Keep(c.rx, byte)]
                     ELSE [sent EXCEPT !.out = Append(c.out, byte)]]
  /\ UNCHANGED <<machine, log, pc, ret, call, opened, count, last, calls,
                 input>>

Receive(p) ==
  /\ ~chip[p].loop /\ input < MAX_INPUT
  /\ input' = input + 1
  /\ chip' = [chip EXCEPT ![p].rx = Keep(@, INPUT)]
  /\ UNCHANGED <<machine, log, pc, ret, call, opened, count, last, calls>>

-----------------------------------------------------------------------------
\* What the processor does to a port: nothing where there is no chip.
Present(p) == p \in machine.chips
Changed(p, new(_)) == IF Present(p) THEN [chip EXCEPT ![p] = new(@)] ELSE chip
Cleared(c) == [c EXCEPT !.tx = <<>>, !.rx = <<>>, !.loop = FALSE]
Looped(c) == [c EXCEPT !.loop = TRUE]
Normal(c) == [c EXCEPT !.loop = FALSE]

Out(p, byte) == LET W(c) == [c EXCEPT !.tx = Keep(@, byte)] IN Changed(p, W)
In(p) == LET R(c) == [c EXCEPT !.rx = IF @ = <<>> THEN @ ELSE Tail(@)]
         IN  Changed(p, R)

\* The conditions of the waiting loops.
CanWrite_Always(p) == TRUE                                       \* variant
CanWrite_Data(p) == Present(p) => chip[p].rx # <<>>              \* variant
CanWrite(p) == Present(p) => chip[p].tx = <<>>
CanRead(p) == Present(p) => chip[p].rx # <<>>

\* init_serial and init_serial_port, step by step, as the chip works on.
InitPort ==
  /\ pc = "init" /\ pc' = "loopback"
  /\ chip' = Changed(port, Cleared)
  /\ UNCHANGED <<machine, log, ret, call, opened, count, last, calls, input>>

Loopback ==
  /\ pc = "loopback" /\ pc' = "send"
  /\ chip' = Changed(port, Looped)
  /\ UNCHANGED <<machine, log, ret, call, opened, count, last, calls, input>>

SendTest ==
  /\ pc = "send" /\ pc' = "ack"
  /\ chip' = Out(port, TEST)
  /\ UNCHANGED <<machine, log, ret, call, opened, count, last, calls, input>>

\* Reads what is there, without waiting; the driver logs it in either case.
ReadTest ==
  /\ pc = "ack"
  /\ LET ack == Present(port) /\ chip[port].rx # <<>>
                  /\ Head(chip[port].rx) = TEST
         next == IF ack THEN "normal" ELSE ret
     IN  /\ chip' = In(port)
         /\ IF ret = "idle" /\ enabled
            THEN pc' = "log" /\ ret' = next
            ELSE pc' = next /\ UNCHANGED ret
  /\ i' = 0
  /\ UNCHANGED <<machine, log, port, minor, len, opened, count, last, calls,
                 input>>

NormalMode ==
  /\ pc = "normal"
  /\ chip' = Changed(port, Normal)
  /\ IF ret = "biosdata"
     THEN pc' = "biosdata" /\ enabled' = TRUE /\ UNCHANGED opened
     ELSE pc' = "idle" /\ opened' = opened \union {minor} /\ UNCHANGED enabled
  /\ UNCHANGED <<machine, serial_port, ret, call, count, last, calls, input>>

-----------------------------------------------------------------------------
\* The log: from other parts of the kernel between calls, or of the driver.
BeginLog ==
  /\ pc \in {"biosdata", "idle"} /\ enabled /\ calls < MAX_CALLS
  /\ pc' = "log" /\ ret' = pc /\ i' = 0 /\ calls' = calls + 1
  /\ UNCHANGED <<machine, chip, log, port, minor, len, opened, count, last,
                 input>>

Putchar ==
  /\ pc = "log" /\ i < LOG_LENGTH /\ CanWrite(serial_port)
  /\ chip' = Out(serial_port, LOG) /\ i' = i + 1
  /\ UNCHANGED <<machine, log, pc, ret, port, minor, len, opened, count, last,
                 calls, input>>

EndLog ==
  /\ pc = "log" /\ i = LOG_LENGTH /\ pc' = ret
  /\ UNCHANGED <<machine, chip, log, ret, call, opened, count, last, calls,
                 input>>

-----------------------------------------------------------------------------
\* Calls of programs.  A minor above 3 is refused by each of them.
Call(m, to) ==
  /\ pc = "idle" /\ calls < MAX_CALLS /\ calls' = calls + 1
  /\ minor' = m /\ i' = 0 /\ pc' = to /\ ret' = "idle"
  /\ UNCHANGED <<machine, chip, log, opened, count, input>>

OpenSerial(m) ==
  /\ BDA_WORD(m * 2) # 0 /\ port' = BDA_WORD(m * 2)
  /\ Call(m, "init") /\ last' = NoWrite /\ UNCHANGED len

OpenRefused(m) ==
  /\ (m <= 3 => BDA_WORD(m * 2) = 0)
  /\ port' = 0 /\ Call(m, "idle") /\ UNCHANGED <<last, len>>

WriteSerial(m) ==
  /\ m \in opened /\ Call(m, "write")
  /\ port' = BDA_WORD(m) /\ len' \in 1 .. MAX_LENGTH
  /\ last' = [port |-> port', from |-> count + 1, to |-> count + len']

ReadSerial(m) ==
  /\ m \in opened /\ Call(m, "read")
  /\ port' = BDA_WORD(m) /\ len' \in 1 .. MAX_LENGTH /\ UNCHANGED last

WriteByte ==
  /\ pc = "write" /\ i < len /\ CanWrite(port)
  /\ chip' = Out(port, count + 1) /\ count' = count + 1 /\ i' = i + 1
  /\ UNCHANGED <<machine, log, pc, ret, port, minor, len, opened, last, calls,
                 input>>

ReadByte ==
  /\ pc = "read" /\ i < len /\ CanRead(port)
  /\ chip' = In(port)
  /\ i' = i + 1
  /\ UNCHANGED <<machine, log, pc, ret, port, minor, len, opened, count, last,
                 calls, input>>

EndCall ==
  /\ pc \in {"write", "read"} /\ i = len /\ pc' = "idle"
  /\ UNCHANGED <<machine, chip, log, ret, call, opened, count, last, calls,
                 input>>

Kernel ==
  \/ InitBiosdata \/ InitPort \/ Loopback \/ SendTest \/ ReadTest \/ NormalMode
  \/ Putchar \/ EndLog \/ WriteByte \/ ReadByte \/ EndCall
Calls ==
  \/ BeginLog
  \/ \E m \in 0 .. 3 : OpenSerial(m) \/ WriteSerial(m) \/ ReadSerial(m)
  \/ \E m \in 0 .. 4 : OpenRefused(m)
Chips == \E p \in machine.chips : Send(p) \/ Receive(p)

Next == Kernel \/ Calls \/ Chips

(***************************************************************************)
(* The processor goes on with what it began, and a chip sends what it has; *)
(* that a program calls, or that something comes in, is not promised.      *)
(***************************************************************************)
Spec == Init /\ [][Next]_vars
FairSpec ==
  Spec /\ WF_vars(Kernel)
       /\ \A p \in UNION {m.chips : m \in Machines} :
            WF_vars(Present(p) /\ Send(p))

-----------------------------------------------------------------------------
(***************************************************************************)
(* What a program wrote has left the chip it was written to when that chip *)
(* has nothing more to send: every byte, in order, and no line of the log  *)
(* in between, although both share the chip (serial_com/init.c:37-52,      *)
(* seriallog.c:20-34).                                                     *)
(***************************************************************************)
Idle(p) == Present(p) /\ ~chip[p].loop /\ chip[p].tx = <<>>
WrittenIsSent ==
  pc = "idle" /\ Idle(last.port) =>
    LET out == chip[last.port].out
        n == last.to - last.from + 1
    IN  n = 0 \/ \E k \in 0 .. Len(out) - n :
                   \A j \in 1 .. n : out[k + j] = last.from + j - 1

\* The kernel comes back from every wait for a chip to send, and the boot to
\* its end; a read may wait for input for ever (init.c:37, seriallog.c:20).
CallsEnd == (pc # "read") ~> (pc = "idle" \/ pc = "read")
=============================================================================
