----------------------------- MODULE SerialProofs ----------------------------
(***************************************************************************)
(* A theorem about Serial, for every machine, length of a line of the log  *)
(* and number of bytes and calls: what a program wrote leaves the chip     *)
(* whole, in order and in one piece.                                       *)
(***************************************************************************)
EXTENDS Serial, Inductions

-----------------------------------------------------------------------------
(***************************************************************************)
(* The line of a chip: what left it and what is to leave it.  The last     *)
(* write is on it in one piece, or, as long as it goes on, the bytes it    *)
(* came to are at its end.  A chip that loops back has no line; no chip    *)
(* changes its mode between a write and the next open.                     *)
(***************************************************************************)
Chip == [loop : BOOLEAN, tx : Seq(Int), rx : Seq(Int), out : Seq(Int)]
Line(c) == c.out \o c.tx

OnLine(s, from, n) ==
  \E k \in 0 .. Len(s) - n : \A j \in 1 .. n : s[k + j] = from + j - 1
AtEnd(s, from, n) ==
  n <= Len(s) /\ \A j \in 1 .. n : s[Len(s) - n + j] = from + j - 1

Opening ==
  \/ pc \in {"init", "loopback", "send", "ack", "normal"}
  \/ pc = "log" /\ ret = "normal"

SerialTyped ==
  /\ machine \in Machines
  /\ chip \in [machine.chips -> Chip]
  /\ count \in Nat /\ i \in Nat /\ len \in Nat
  /\ ret \in {"biosdata", "idle", "normal"}
  /\ last.from \in Nat \ {0} /\ last.to \in Nat /\ last.from <= last.to + 1

WriteGoesOn ==
  /\ i <= len /\ port = last.port
  /\ last.from + i = count + 1 /\ last.from + len = last.to + 1

WrittenSoFar ==
  Present(last.port) /\ ~chip[last.port].loop =>
    IF pc = "write" THEN AtEnd(Line(chip[last.port]), last.from, i)
    ELSE OnLine(Line(chip[last.port]), last.from, last.to - last.from + 1)

SerialInv ==
  /\ SerialTyped
  /\ Opening => last = NoWrite
  /\ pc = "write" => WriteGoesOn
  /\ WrittenSoFar

-----------------------------------------------------------------------------
(***************************************************************************)
(* Lines.                                                                  *)
(***************************************************************************)
LEMMA LineFacts ==
  ASSUME NEW s \in Seq(Int), NEW from \in Nat, NEW n \in Nat, NEW b \in Int
  PROVE  /\ OnLine(s, from, 0)
         /\ AtEnd(s, from, 0)
         /\ OnLine(s, from, n) => OnLine(Append(s, b), from, n)
         /\ AtEnd(s, from, n) => OnLine(s, from, n)
         /\ AtEnd(s, from, n) /\ b = from + n
              => AtEnd(Append(s, b), from, n + 1)
<1>1. /\ Len(s) \in Nat /\ Len(Append(s, b)) = Len(s) + 1
      /\ \A k \in 1 .. Len(s) : Append(s, b)[k] = s[k]
      /\ Append(s, b)[Len(s) + 1] = b
  OBVIOUS
<1> DEFINE t == Append(s, b)
           l == Len(s)
<1> HIDE DEF t, l
<1>2. /\ l \in Nat /\ Len(s) = l /\ Len(t) = l + 1
      /\ \A k \in 1 .. l : t[k] = s[k]
      /\ t[l + 1] = b
  BY <1>1 DEF t, l
<1>3. OnLine(s, from, 0)
  <2>1. 0 \in 0 .. Len(s) - 0 /\ 1 .. 0 = {}
    BY <1>2
  <2> QED BY <2>1 DEF OnLine
<1>4. AtEnd(s, from, 0)
  BY <1>2 DEF AtEnd
<1>5. ASSUME OnLine(s, from, n) PROVE OnLine(t, from, n)
  <2>1. PICK k \in 0 .. Len(s) - n : \A j \in 1 .. n : s[k + j] = from + j - 1
    BY <1>5 DEF OnLine
  <2>2. k \in 0 .. Len(t) - n
    BY <1>2, <2>1
  <2>3. ASSUME NEW j \in 1 .. n PROVE t[k + j] = from + j - 1
    <3>1. k + j \in 1 .. l
      BY <1>2, <2>1
    <3> QED BY <1>2, <2>1, <3>1
  <2> QED BY <2>2, <2>3 DEF OnLine
<1>6. ASSUME AtEnd(s, from, n) PROVE OnLine(s, from, n)
  <2>1. n <= l /\ \A j \in 1 .. n : s[l - n + j] = from + j - 1
    BY <1>2, <1>6 DEF AtEnd
  <2>2. l - n \in 0 .. Len(s) - n
    BY <1>2, <2>1
  <2> QED BY <2>1, <2>2 DEF OnLine
<1>7. ASSUME AtEnd(s, from, n), b = from + n PROVE AtEnd(t, from, n + 1)
  <2>1. n <= l /\ \A j \in 1 .. n : s[l - n + j] = from + j - 1
    BY <1>2, <1>7 DEF AtEnd
  <2>2. ASSUME NEW j \in 1 .. n + 1 PROVE t[Len(t) - (n + 1) + j] = from + j - 1
    <3>1. Len(t) - (n + 1) + j = l - n + j
      BY <1>2
    <3>2. CASE j = n + 1
      <4>1. l - n + j = l + 1 /\ from + j - 1 = from + n
        BY <1>2, <3>2
      <4> QED BY <1>2, <1>7, <3>1, <4>1
    <3>3. CASE j # n + 1
      <4>1. j \in 1 .. n /\ l - n + j \in 1 .. l
        BY <1>2, <2>1, <3>3
      <4> QED BY <1>2, <2>1, <3>1, <4>1
    <3> QED BY <3>2, <3>3
  <2>3. n + 1 <= Len(t)
    BY <1>2, <2>1
  <2> QED BY <2>2, <2>3 DEF AtEnd
<1> QED BY <1>3, <1>4, <1>5, <1>6, <1>7 DEF t

LEMMA ChipTyped ==
  ASSUME NEW c \in Chip
  PROVE  /\ c.loop \in BOOLEAN /\ c.tx \in Seq(Int) /\ c.rx \in Seq(Int)
         /\ c.out \in Seq(Int) /\ Line(c) \in Seq(Int)
  BY DEF Chip, Line

LEMMA ChipMade ==
  ASSUME NEW loop \in BOOLEAN, NEW tx \in Seq(Int), NEW rx \in Seq(Int),
         NEW out \in Seq(Int)
  PROVE  [loop |-> loop, tx |-> tx, rx |-> rx, out |-> out] \in Chip
  BY DEF Chip

LEMMA KeepFacts ==
  ASSUME NEW queue \in Seq(Int), NEW byte \in Int
  PROVE  /\ Keep(queue, byte) \in Seq(Int)
         /\ queue = <<>> => Keep(queue, byte) = <<byte>>
<1>1. CASE Len(queue) < FIFO
  <2>1. queue = <<>> => Append(queue, byte) = <<byte>>
    OBVIOUS
  <2> QED BY <1>1, <2>1 DEF Keep
<1>2. CASE ~ (Len(queue) < FIFO)
  <2>1. Len(queue) \in Nat /\ FIFO \in Nat \ {0}
    BY SerialAssumption
  <2>2. queue # <<>>
    BY <1>2, <2>1
  <2> QED BY <1>2, <2>2 DEF Keep
<1> QED BY <1>1, <1>2

\* With nothing to send before, one more byte is the last of the line.
LEMMA LineGrows ==
  ASSUME NEW c \in Chip, NEW d, NEW byte \in Int, c.tx = <<>>,
         d.out = c.out, d.tx = <<byte>>
  PROVE  Line(d) = Append(Line(c), byte)
<1> DEFINE s == c.out
<1>1. s \in Seq(Int)
  BY ChipTyped
<1>2. Line(c) = s \o <<>> /\ Line(d) = s \o <<byte>>
  BY DEF Line
<1> HIDE DEF s
<1>3. s \o <<>> = s
  BY <1>1
<1>4. s \o <<byte>> = Append(s, byte)
  BY <1>1
<1> QED BY <1>2, <1>3, <1>4

\* The byte that leaves the chip stays where it is on the line.
LEMMA LineStays ==
  ASSUME NEW c \in Chip, NEW d, c.tx # <<>>,
         d.tx = Tail(c.tx), d.out = Append(c.out, Head(c.tx))
  PROVE  Line(d) = Line(c) /\ Head(c.tx) \in Int /\ Tail(c.tx) \in Seq(Int)
<1> DEFINE s == c.out
           q == c.tx
<1>1. s \in Seq(Int) /\ q \in Seq(Int) /\ q # <<>>
  BY ChipTyped
<1>2. Line(c) = s \o q /\ Line(d) = Append(s, Head(q)) \o Tail(q)
  BY DEF Line
<1> HIDE DEF s, q
<1>3. Head(q) \in Int /\ Tail(q) \in Seq(Int)
  BY <1>1
<1> DEFINE u == s \o q
           v == Append(s, Head(q)) \o Tail(q)
<1>4. u \in Seq(Int) /\ v \in Seq(Int) /\ Len(u) = Len(v)
  BY <1>1, <1>3
<1>5. \A k \in 1 .. Len(u) : u[k] = v[k]
  BY <1>1, <1>3
<1>6. u = v
  <2> HIDE DEF u, v
  <2> QED BY <1>4, <1>5, SeqEqual
<1> QED BY <1>2, <1>3, <1>6 DEF q

-----------------------------------------------------------------------------
(***************************************************************************)
(* What the processor does to the chips.                                   *)
(***************************************************************************)

LEMMA OutFacts ==
  ASSUME chip \in [machine.chips -> Chip], machine' = machine,
         NEW p, NEW byte \in Int, chip' = Out(p, byte)
  PROVE  /\ chip' \in [machine'.chips -> Chip]
         /\ \A q \in machine.chips :
              /\ chip'[q].loop = chip[q].loop /\ chip'[q].out = chip[q].out
              /\ chip'[q].tx = IF q = p THEN Keep(chip[q].tx, byte)
                               ELSE chip[q].tx
<1>1. chip' = IF p \in machine.chips
              THEN [chip EXCEPT ![p] =
                      [chip[p] EXCEPT !.tx = Keep(chip[p].tx, byte)]]
              ELSE chip
  BY Zenon DEF Out, Changed, Present
<1>2. CASE p \notin machine.chips
  BY <1>1, <1>2
<1>3. CASE p \in machine.chips
  <2> DEFINE c == chip[p]
             tx == Keep(c.tx, byte)
             d == [c EXCEPT !.tx = tx]
  <2>1. c \in Chip /\ c.tx \in Seq(Int)
    BY <1>3, ChipTyped
  <2>2. tx \in Seq(Int)
    BY <2>1, KeepFacts
  <2>3. chip' = [chip EXCEPT ![p] = d]
    BY <1>1, <1>3, Zenon
  <2> HIDE DEF c, tx
  <2>4. d \in Chip /\ d.tx = tx /\ d.loop = c.loop /\ d.out = c.out
    BY <2>1, <2>2 DEF Chip
  <2> HIDE DEF d
  <2> QED BY <1>3, <2>3, <2>4 DEF c, tx
<1> QED BY <1>2, <1>3

LEMMA InFacts ==
  ASSUME chip \in [machine.chips -> Chip], machine' = machine,
         NEW p, chip' = In(p)
  PROVE  /\ chip' \in [machine'.chips -> Chip]
         /\ \A q \in machine.chips :
              /\ chip'[q].loop = chip[q].loop /\ chip'[q].out = chip[q].out
              /\ chip'[q].tx = chip[q].tx
<1>1. chip' = IF p \in machine.chips
              THEN [chip EXCEPT ![p] =
                      [chip[p] EXCEPT !.rx =
                         IF chip[p].rx = <<>> THEN chip[p].rx
                         ELSE Tail(chip[p].rx)]]
              ELSE chip
  BY Zenon DEF In, Changed, Present
<1>2. CASE p \notin machine.chips
  BY <1>1, <1>2
<1>3. CASE p \in machine.chips
  <2> DEFINE c == chip[p]
             rx == IF c.rx = <<>> THEN c.rx ELSE Tail(c.rx)
             d == [c EXCEPT !.rx = rx]
  <2>1. c \in Chip /\ c.rx \in Seq(Int)
    BY <1>3, ChipTyped
  <2>2. rx \in Seq(Int)
    BY <2>1
  <2>3. chip' = [chip EXCEPT ![p] = d]
    BY <1>1, <1>3, Zenon
  <2> HIDE DEF c, rx
  <2>4. d \in Chip /\ d.tx = c.tx /\ d.loop = c.loop /\ d.out = c.out
    BY <2>1, <2>2 DEF Chip
  <2> HIDE DEF d
  <2> QED BY <1>3, <2>3, <2>4 DEF c
<1> QED BY <1>2, <1>3

\* The steps that begin an open.
LEMMA ModeFacts ==
  ASSUME chip \in [machine.chips -> Chip], machine' = machine, NEW p,
         \/ chip' = Changed(p, Cleared)
         \/ chip' = Changed(p, Looped)
         \/ chip' = Changed(p, Normal)
  PROVE  chip' \in [machine'.chips -> Chip]
<1>1. \/ chip' = chip
      \/ p \in machine.chips
           /\ \/ chip' = [chip EXCEPT ![p] = Cleared(@)]
              \/ chip' = [chip EXCEPT ![p] = Looped(@)]
              \/ chip' = [chip EXCEPT ![p] = Normal(@)]
  BY DEF Changed, Present
<1>2. \A c \in Chip : /\ Cleared(c) \in Chip /\ Looped(c) \in Chip
                      /\ Normal(c) \in Chip
  <2> TAKE c \in Chip
  <2>1. <<>> \in Seq(Int)
    BY EmptySeq
  <2>2. ASSUME NEW e \in Seq(Int)
        PROVE  [c EXCEPT !.tx = e, !.rx = e, !.loop = FALSE] \in Chip
    BY <2>2 DEF Chip
  <2>3. Looped(c) \in Chip /\ Normal(c) \in Chip
    BY DEF Looped, Normal, Chip
  <2> QED BY <2>1, <2>2, <2>3 DEF Cleared
<1> QED BY <1>1, <1>2

-----------------------------------------------------------------------------
(***************************************************************************)
(* Each step keeps the invariant.                                          *)
(***************************************************************************)
\* Nothing was written: that is on every line.
LEMMA NothingWritten ==
  ASSUME chip \in [machine.chips -> Chip], pc # "write", last = NoWrite
  PROVE  WrittenSoFar /\ last.from \in Nat \ {0} /\ last.to \in Nat
           /\ last.from <= last.to + 1
<1>1. /\ last.from = 1 /\ last.to = 0 /\ last.to - last.from + 1 = 0
  BY DEF NoWrite
<1>2. ASSUME Present(last.port) PROVE OnLine(Line(chip[last.port]), 1, 0)
  <2>1. Line(chip[last.port]) \in Seq(Int)
    BY <1>2, ChipTyped DEF Present
  <2> QED BY <2>1, LineFacts
<1> QED BY <1>1, <1>2 DEF WrittenSoFar

LEMMA NothingWrittenNext ==
  chip' \in [machine'.chips -> Chip] /\ pc' # "write" /\ last' = NoWrite
    => /\ WrittenSoFar' /\ last'.from \in Nat \ {0} /\ last'.to \in Nat
       /\ last'.from <= last'.to + 1
<1>1. chip \in [machine.chips -> Chip] /\ pc # "write" /\ last = NoWrite
        => /\ WrittenSoFar /\ last.from \in Nat \ {0} /\ last.to \in Nat
           /\ last.from <= last.to + 1
  BY NothingWritten
<1>2. (chip \in [machine.chips -> Chip] /\ pc # "write" /\ last = NoWrite
        => /\ WrittenSoFar /\ last.from \in Nat \ {0} /\ last.to \in Nat
           /\ last.from <= last.to + 1)'
  BY <1>1, PTL
<1>3. NoWrite' = NoWrite
  BY DEF NoWrite
<1> QED BY <1>2, <1>3

LEMMA SerialInit == Init => SerialInv
<1> SUFFICES ASSUME Init PROVE SerialInv
  OBVIOUS
<1>1. /\ machine \in Machines /\ pc = "init" /\ ret = "biosdata" /\ i = 0
      /\ len = 0 /\ count = 0 /\ last = NoWrite
      /\ chip = [p \in machine.chips |->
                   [loop |-> FALSE, tx |-> <<>>, rx |-> <<>>, out |-> <<>>]]
  BY DEF Init
<1>2. chip \in [machine.chips -> Chip]
  <2>1. <<>> \in Seq(Int)
    BY EmptySeq
  <2>2. [loop |-> FALSE, tx |-> <<>>, rx |-> <<>>, out |-> <<>>] \in Chip
    BY <2>1, ChipMade
  <2> QED BY <1>1, <2>2
<1>3. WrittenSoFar /\ last.from \in Nat \ {0} /\ last.to \in Nat
        /\ last.from <= last.to + 1
  BY <1>1, <1>2, NothingWritten
<1> QED BY <1>1, <1>2, <1>3 DEF SerialInv, SerialTyped, Opening

\* Steps that neither send nor write.
LEMMA QuietKeeps ==
  ASSUME SerialInv, machine' = machine, chip' = chip, count' = count,
         last' = last, i' \in Nat, len' \in Nat,
         ret' \in {"biosdata", "idle", "normal"},
         pc # "write", pc' # "write", Opening' => Opening
  PROVE  SerialInv'
<1>1. SerialTyped'
  BY DEF SerialInv, SerialTyped
<1>2. WrittenSoFar' = WrittenSoFar
  BY DEF WrittenSoFar, Present
<1>3. (Opening => last = NoWrite)'
  BY DEF SerialInv, NoWrite
<1> QED BY <1>1, <1>2, <1>3 DEF SerialInv

\* Steps of an open.
LEMMA OpeningKeeps ==
  ASSUME SerialInv, machine' = machine, chip' \in [machine'.chips -> Chip],
         count' = count, last' = NoWrite, i' \in Nat, len' \in Nat,
         ret' \in {"biosdata", "idle", "normal"}, pc' # "write"
  PROVE  SerialInv'
<1>1. /\ WrittenSoFar' /\ last'.from \in Nat \ {0} /\ last'.to \in Nat
      /\ last'.from <= last'.to + 1
  BY NothingWrittenNext
<1>2. SerialTyped'
  BY <1>1 DEF SerialInv, SerialTyped
<1>3. (Opening => last = NoWrite)'
  BY DEF NoWrite
<1> QED BY <1>1, <1>2, <1>3 DEF SerialInv

\* Steps of the chips, and reads: the lines are as they were.
LEMMA LinesKept ==
  ASSUME SerialInv, machine' = machine, chip' \in [machine'.chips -> Chip],
         count' = count, last' = last, i' \in Nat, len' = len, ret' = ret,
         pc' = pc, port' = port, pc = "write" => i' = i,
         \A q \in machine.chips :
           /\ chip'[q].loop = chip[q].loop
           /\ ~chip[q].loop => Line(chip'[q]) = Line(chip[q])
  PROVE  SerialInv'
<1>1. SerialTyped'
  BY DEF SerialInv, SerialTyped
<1>2. WrittenSoFar'
  <2>1. SUFFICES ASSUME Present(last.port), ~chip'[last.port].loop
                 PROVE  IF pc = "write"
                        THEN AtEnd(Line(chip'[last.port]), last.from, i')
                        ELSE OnLine(Line(chip'[last.port]), last.from,
                                    last.to - last.from + 1)
    BY DEF WrittenSoFar, Present
  <2>2. /\ ~chip[last.port].loop
        /\ Line(chip'[last.port]) = Line(chip[last.port])
    BY <2>1 DEF Present
  <2> QED BY <2>1, <2>2 DEF SerialInv, WrittenSoFar
<1>3. (Opening => last = NoWrite)' /\ (pc = "write" => WriteGoesOn)'
  BY DEF SerialInv, NoWrite, Opening, WriteGoesOn
<1> QED BY <1>1, <1>2, <1>3 DEF SerialInv

\* A byte more to send, on a chip with nothing to send before.
LEMMA SentLine ==
  ASSUME chip \in [machine.chips -> Chip], machine' = machine, NEW p,
         NEW byte \in Int, CanWrite(p), chip' = Out(p, byte)
  PROVE  /\ chip' \in [machine'.chips -> Chip]
         /\ \A q \in machine.chips :
              /\ chip'[q].loop = chip[q].loop
              /\ Line(chip'[q]) = IF q = p THEN Append(Line(chip[q]), byte)
                                  ELSE Line(chip[q])
<1>1. /\ chip' \in [machine'.chips -> Chip]
      /\ \A q \in machine.chips :
           /\ chip'[q].loop = chip[q].loop /\ chip'[q].out = chip[q].out
           /\ chip'[q].tx = IF q = p THEN Keep(chip[q].tx, byte)
                            ELSE chip[q].tx
  BY OutFacts
<1>2. ASSUME NEW q \in machine.chips
      PROVE  Line(chip'[q]) = IF q = p THEN Append(Line(chip[q]), byte)
                              ELSE Line(chip[q])
  <2>1. CASE q = p
    <3>1. chip[q].tx = <<>> /\ chip[q] \in Chip
      BY <2>1 DEF CanWrite, Present
    <3>2. chip'[q].tx = <<byte>> /\ chip'[q].out = chip[q].out
      BY <1>1, <2>1, <3>1, ChipTyped, KeepFacts
    <3> QED BY <2>1, <3>1, <3>2, LineGrows
  <2>2. CASE q # p
    BY <1>1, <2>2 DEF Line
  <2> QED BY <2>1, <2>2
<1> QED BY <1>1, <1>2

LEMMA PutcharKeeps == ASSUME SerialInv, Putchar PROVE SerialInv'
<1>1. /\ pc = "log" /\ CanWrite(serial_port) /\ chip' = Out(serial_port, LOG)
      /\ i' = i + 1 /\ machine' = machine /\ count' = count /\ last' = last
      /\ len' = len /\ ret' = ret /\ pc' = pc /\ port' = port
  BY DEF Putchar
<1>2. SerialTyped /\ LOG \in Int
  BY DEF SerialInv, LOG
<1>3. /\ chip' \in [machine'.chips -> Chip]
      /\ \A q \in machine.chips :
           /\ chip'[q].loop = chip[q].loop
           /\ \/ Line(chip'[q]) = Append(Line(chip[q]), LOG)
              \/ Line(chip'[q]) = Line(chip[q])
  BY <1>1, <1>2, SentLine DEF SerialTyped
<1>4. SerialTyped'
  BY <1>1, <1>2, <1>3 DEF SerialTyped
<1>5. WrittenSoFar'
  <2>1. SUFFICES ASSUME Present(last.port), ~chip'[last.port].loop
                 PROVE  OnLine(Line(chip'[last.port]), last.from,
                               last.to - last.from + 1)
    BY <1>1 DEF WrittenSoFar, Present
  <2>2. last.port \in machine.chips /\ ~chip[last.port].loop
    BY <1>3, <2>1 DEF Present
  <2>3. OnLine(Line(chip[last.port]), last.from, last.to - last.from + 1)
    BY <1>1, <2>1, <2>2 DEF SerialInv, WrittenSoFar
  <2>4. /\ Line(chip[last.port]) \in Seq(Int)
        /\ last.from \in Nat /\ last.to - last.from + 1 \in Nat
    BY <1>2, <2>2, ChipTyped DEF SerialTyped
  <2> QED BY ZenonT(60), <1>2, <1>3, <2>2, <2>3, <2>4, LineFacts
<1>6. (Opening => last = NoWrite)' /\ pc' # "write"
  BY <1>1 DEF SerialInv, NoWrite, Opening
<1> QED BY <1>4, <1>5, <1>6 DEF SerialInv

LEMMA WriteByteKeeps == ASSUME SerialInv, WriteByte PROVE SerialInv'
<1>1. /\ pc = "write" /\ i < len /\ CanWrite(port)
      /\ chip' = Out(port, count + 1) /\ count' = count + 1
      /\ i' = i + 1 /\ machine' = machine /\ last' = last
      /\ len' = len /\ ret' = ret /\ pc' = pc /\ port' = port
  BY DEF WriteByte
<1>2. SerialTyped /\ WriteGoesOn /\ count + 1 \in Int
  BY <1>1 DEF SerialInv, SerialTyped
<1>3. /\ chip' \in [machine'.chips -> Chip]
      /\ \A q \in machine.chips :
           /\ chip'[q].loop = chip[q].loop
           /\ Line(chip'[q]) = IF q = port THEN Append(Line(chip[q]), count + 1)
                               ELSE Line(chip[q])
  BY <1>1, <1>2, SentLine DEF SerialTyped
<1>4. SerialTyped'
  BY <1>1, <1>2, <1>3 DEF SerialTyped
<1>5. WriteGoesOn'
  BY <1>1, <1>2 DEF SerialTyped, WriteGoesOn
<1>6. WrittenSoFar'
  <2>1. SUFFICES ASSUME Present(last.port), ~chip'[last.port].loop
                 PROVE  AtEnd(Line(chip'[last.port]), last.from, i')
    BY <1>1 DEF WrittenSoFar, Present
  <2>2. last.port \in machine.chips /\ ~chip[last.port].loop
    BY <1>3, <2>1 DEF Present
  <2>3. AtEnd(Line(chip[last.port]), last.from, i)
    BY <1>1, <2>1, <2>2 DEF SerialInv, WrittenSoFar
  <2>4. /\ Line(chip[last.port]) \in Seq(Int)
        /\ last.from \in Nat /\ i \in Nat /\ count \in Nat
        /\ last.port = port /\ last.from + i = count + 1
    BY <1>2, <2>2, ChipTyped DEF SerialTyped, WriteGoesOn
  <2>5. Line(chip'[last.port]) = Append(Line(chip[last.port]), count + 1)
    BY <1>3, <2>2, <2>4
  <2>6. AtEnd(Append(Line(chip[last.port]), count + 1), last.from, i + 1)
    BY <1>2, <2>3, <2>4, LineFacts
  <2> QED BY <1>1, <2>5, <2>6
<1>7. ~Opening'
  BY <1>1 DEF Opening
<1> QED BY <1>4, <1>5, <1>6, <1>7 DEF SerialInv

LEMMA SendKeeps ==
  ASSUME SerialInv, NEW p \in machine.chips, Send(p) PROVE SerialInv'
<1> DEFINE c == chip[p]
           rest == Tail(c.tx)
           rx == Keep(c.rx, Head(c.tx))
           out == Append(c.out, Head(c.tx))
           looped == [[c EXCEPT !.tx = rest] EXCEPT !.rx = rx]
           sent == [[c EXCEPT !.tx = rest] EXCEPT !.out = out]
           d == IF c.loop THEN looped ELSE sent
<1>1. /\ c.tx # <<>> /\ chip' = [chip EXCEPT ![p] = d]
      /\ machine' = machine /\ count' = count /\ last' = last /\ i' = i
      /\ len' = len /\ ret' = ret /\ pc' = pc /\ port' = port
  <2>1. chip' = [chip EXCEPT ![p] = d]
    BY Zenon DEF Send
  <2> QED BY <2>1 DEF Send, log, call
<1>2. SerialTyped /\ c \in Chip
  BY DEF SerialInv, SerialTyped
<1> HIDE DEF d
<1>3. /\ c.rx \in Seq(Int) /\ c.out \in Seq(Int) /\ c.loop \in BOOLEAN
      /\ Head(c.tx) \in Int /\ rest \in Seq(Int)
  <2>1. c.tx \in Seq(Int) /\ c.tx # <<>>
    BY <1>1, <1>2, ChipTyped
  <2> HIDE DEF c
  <2>2. Head(c.tx) \in Int /\ Tail(c.tx) \in Seq(Int)
    BY <2>1
  <2> QED BY <1>2, <2>2, ChipTyped
<1>4. rx \in Seq(Int) /\ out \in Seq(Int)
  <2> HIDE DEF c
  <2>1. rx \in Seq(Int)
    BY <1>3, KeepFacts
  <2>2. out \in Seq(Int)
    BY <1>3
  <2> QED BY <2>1, <2>2
<1> HIDE DEF rest, rx
<1>5. /\ looped \in Chip /\ looped.loop = c.loop
      /\ sent \in Chip /\ sent.loop = c.loop
      /\ sent.tx = rest /\ sent.out = out
  <2> HIDE DEF c, out
  <2> QED BY <1>2, <1>3, <1>4 DEF Chip
<1> HIDE DEF looped, sent
<1>6. ~c.loop => Line(d) = Line(c)
  <2>1. sent.tx = Tail(c.tx) /\ sent.out = Append(c.out, Head(c.tx))
    BY <1>5 DEF rest
  <2> HIDE DEF c, out
  <2>2. Line(sent) = Line(c)
    BY <1>1, <1>2, <2>1, LineStays
  <2> QED BY <2>2 DEF d
<1>7. d \in Chip /\ d.loop = c.loop
  <2> HIDE DEF c, out
  <2> QED BY <1>3, <1>5 DEF d
<1>8. /\ chip' \in [machine'.chips -> Chip]
      /\ \A q \in machine.chips :
           /\ chip'[q].loop = chip[q].loop
           /\ ~chip[q].loop => Line(chip'[q]) = Line(chip[q])
  BY <1>1, <1>2, <1>6, <1>7 DEF SerialTyped
<1>9. i' \in Nat
  BY <1>1, <1>2 DEF SerialTyped
<1> QED BY <1>1, <1>8, <1>9, LinesKept

LEMMA ReceiveKeeps ==
  ASSUME SerialInv, NEW p \in machine.chips, Receive(p) PROVE SerialInv'
<1> DEFINE c == chip[p]
           rx == Keep(c.rx, INPUT)
           d == [c EXCEPT !.rx = rx]
<1>1. /\ chip' = [chip EXCEPT ![p] = d]
      /\ machine' = machine /\ count' = count /\ last' = last /\ i' = i
      /\ len' = len /\ ret' = ret /\ pc' = pc /\ port' = port
  <2>1. chip' = [chip EXCEPT ![p] = d]
    BY Zenon DEF Receive
  <2> QED BY <2>1 DEF Receive, log, call
<1>2. SerialTyped /\ c \in Chip
  BY DEF SerialInv, SerialTyped
<1>3. rx \in Seq(Int)
  <2>1. c.rx \in Seq(Int) /\ INPUT \in Int
    BY <1>2, ChipTyped DEF INPUT
  <2> HIDE DEF c
  <2> QED BY <2>1, KeepFacts
<1> HIDE DEF rx
<1>4. d \in Chip /\ d.loop = c.loop /\ d.tx = c.tx /\ d.out = c.out
  <2> HIDE DEF c
  <2> QED BY <1>2, <1>3 DEF Chip
<1> HIDE DEF d
<1>5. Line(d) = Line(c)
  BY <1>4 DEF Line
<1>6. /\ chip' \in [machine'.chips -> Chip]
      /\ \A q \in machine.chips :
           /\ chip'[q].loop = chip[q].loop
           /\ ~chip[q].loop => Line(chip'[q]) = Line(chip[q])
  BY <1>1, <1>2, <1>4, <1>5 DEF SerialTyped
<1>7. i' \in Nat
  BY <1>1, <1>2 DEF SerialTyped
<1> QED BY <1>1, <1>6, <1>7, LinesKept

LEMMA ReadByteKeeps == ASSUME SerialInv, ReadByte PROVE SerialInv'
<1>1. /\ pc = "read" /\ chip' = In(port) /\ i' = i + 1
      /\ machine' = machine /\ count' = count /\ last' = last
      /\ len' = len /\ ret' = ret /\ pc' = pc /\ port' = port
  BY DEF ReadByte
<1>2. SerialTyped
  BY DEF SerialInv
<1>3. /\ chip' \in [machine'.chips -> Chip]
      /\ \A q \in machine.chips :
           /\ chip'[q].loop = chip[q].loop
           /\ Line(chip'[q]) = Line(chip[q])
  <2>1. /\ chip' \in [machine'.chips -> Chip]
        /\ \A q \in machine.chips :
             /\ chip'[q].loop = chip[q].loop /\ chip'[q].out = chip[q].out
             /\ chip'[q].tx = chip[q].tx
    BY <1>1, <1>2, InFacts DEF SerialTyped
  <2> QED BY <2>1 DEF Line
<1>4. i' \in Nat
  BY <1>1, <1>2 DEF SerialTyped
<1> QED BY <1>1, <1>3, <1>4, LinesKept

LEMMA WriteSerialKeeps ==
  ASSUME SerialInv, NEW m, WriteSerial(m) PROVE SerialInv'
<1>1. /\ pc = "idle" /\ pc' = "write" /\ i' = 0 /\ ret' = "idle"
      /\ len' \in 1 .. MAX_LENGTH
      /\ last' = [port |-> port', from |-> count + 1, to |-> count + len']
      /\ machine' = machine /\ chip' = chip /\ count' = count
  BY DEF WriteSerial, Call
<1>2. SerialTyped
  BY DEF SerialInv
<1>3. /\ len' \in Nat /\ last'.from = count + 1 /\ last'.to = count + len'
      /\ last'.port = port' /\ count \in Nat
  BY <1>1, <1>2 DEF SerialTyped
<1>4. SerialTyped' /\ WriteGoesOn'
  <2>1. /\ count + 1 \in Nat \ {0} /\ count + len' \in Nat
        /\ count + 1 <= count + len' + 1 /\ 0 <= len'
        /\ count + 1 + 0 = count + 1 /\ count + 1 + len' = count + len' + 1
    <3> DEFINE a == len'
    <3>1. a \in Nat /\ count \in Nat
      BY <1>3
    <3> HIDE DEF a
    <3>2. /\ count + 1 \in Nat \ {0} /\ count + a \in Nat
          /\ count + 1 <= count + a + 1 /\ 0 <= a
          /\ count + 1 + 0 = count + 1 /\ count + 1 + a = count + a + 1
      BY <3>1
    <3> QED BY <3>2 DEF a
  <2>2. SerialTyped'
    BY <1>1, <1>2, <1>3, <2>1 DEF SerialTyped
  <2> QED BY <1>1, <1>3, <2>1, <2>2 DEF WriteGoesOn
<1>5. WrittenSoFar'
  <2>1. SUFFICES ASSUME last'.port \in machine.chips
                 PROVE  AtEnd(Line(chip[last'.port]), last'.from, i')
    BY <1>1 DEF WrittenSoFar, Present
  <2>2. Line(chip[last'.port]) \in Seq(Int) /\ last'.from \in Nat
    BY <1>2, <1>3, <2>1, ChipTyped DEF SerialTyped
  <2> QED BY <1>1, <2>2, LineFacts
<1>6. ~Opening'
  BY <1>1 DEF Opening
<1> QED BY <1>4, <1>5, <1>6 DEF SerialInv

\* The last byte is written: what was at the end of the line is on it.
LEMMA EndCallKeeps == ASSUME SerialInv, EndCall PROVE SerialInv'
<1>1. /\ pc \in {"write", "read"} /\ i = len /\ pc' = "idle"
      /\ machine' = machine /\ chip' = chip /\ count' = count /\ last' = last
      /\ i' = i /\ len' = len /\ ret' = ret
  BY DEF EndCall, call, log
<1>2. SerialTyped
  BY DEF SerialInv
<1>3. SerialTyped' /\ ~Opening'
  BY <1>1, <1>2 DEF SerialTyped, Opening
<1>4. WrittenSoFar'
  <2>1. SUFFICES ASSUME last.port \in machine.chips, ~chip[last.port].loop
                 PROVE  OnLine(Line(chip[last.port]), last.from,
                               last.to - last.from + 1)
    BY <1>1 DEF WrittenSoFar, Present
  <2>2. CASE pc = "read"
    BY <2>1, <2>2 DEF SerialInv, WrittenSoFar, Present
  <2>3. CASE pc = "write"
    <3>1. /\ AtEnd(Line(chip[last.port]), last.from, i) /\ WriteGoesOn
      BY <2>1, <2>3 DEF SerialInv, WrittenSoFar, Present
    <3>2. /\ Line(chip[last.port]) \in Seq(Int) /\ last.from \in Nat
          /\ i \in Nat /\ last.to - last.from + 1 = i
      <4>1. /\ last.from \in Nat /\ last.to \in Nat /\ i \in Nat
            /\ last.from + i = last.to + 1
        BY <1>1, <1>2, <3>1 DEF SerialTyped, WriteGoesOn
      <4>2. last.to - last.from + 1 = i
        BY <4>1
      <4> QED BY <1>2, <2>1, <4>1, <4>2, ChipTyped DEF SerialTyped
    <3> QED BY <3>1, <3>2, LineFacts, 0 \in Int
  <2> QED BY <1>1, <2>2, <2>3
<1> QED BY <1>1, <1>3, <1>4 DEF SerialInv

LEMMA SerialStep == SerialInv /\ [Next]_vars => SerialInv'
<1> SUFFICES ASSUME SerialInv, [Next]_vars PROVE SerialInv'
  OBVIOUS
<1>1. /\ SerialTyped /\ i \in Nat /\ len \in Nat
      /\ ret \in {"biosdata", "idle", "normal"}
      /\ chip \in [machine.chips -> Chip]
  BY DEF SerialInv, SerialTyped
<1>2. CASE InitBiosdata
  <2>1. /\ machine' = machine /\ chip' = chip /\ count' = count /\ last' = last
        /\ i' = i /\ len' = len /\ ret' = ret /\ pc = "biosdata" /\ pc' = "idle"
    BY <1>2 DEF InitBiosdata, call
  <2>2. ~Opening'
    BY <2>1 DEF Opening
  <2> QED BY <1>1, <2>1, <2>2, QuietKeeps
<1>3. CASE InitPort \/ Loopback \/ SendTest \/ ReadTest \/ NormalMode
  <2>1. /\ machine' = machine /\ count' = count /\ last' = last
        /\ i' \in Nat /\ len' = len
        /\ pc \in {"init", "loopback", "send", "ack", "normal"}
    BY <1>1, <1>3 DEF InitPort, Loopback, SendTest, ReadTest, NormalMode, call
  <2>2. /\ last = NoWrite /\ NoWrite' = NoWrite
    BY <2>1 DEF SerialInv, Opening, NoWrite
  <2>3. /\ pc' # "write" /\ ret' \in {"biosdata", "idle", "normal"}
    BY <1>1, <1>3 DEF InitPort, Loopback, SendTest, ReadTest, NormalMode
  <2>4. chip' \in [machine'.chips -> Chip]
    <3>1. CASE InitPort \/ Loopback \/ NormalMode
      <4>1. \/ chip' = Changed(port, Cleared)
            \/ chip' = Changed(port, Looped)
            \/ chip' = Changed(port, Normal)
        BY <3>1, Zenon DEF InitPort, Loopback, NormalMode
      <4> QED BY <1>1, <2>1, <4>1, ModeFacts
    <3>2. CASE SendTest
      <4>1. chip' = Out(port, TEST) /\ TEST \in Int
        BY <3>2 DEF SendTest, TEST
      <4> QED BY <1>1, <2>1, <4>1, OutFacts
    <3>3. CASE ReadTest
      <4>1. chip' = In(port)
        BY <3>3 DEF ReadTest
      <4> QED BY <1>1, <2>1, <4>1, InFacts
    <3> QED BY <1>3, <3>1, <3>2, <3>3
  <2> QED BY <1>1, <2>1, <2>2, <2>3, <2>4, OpeningKeeps
<1>4. CASE Putchar
  BY <1>4, PutcharKeeps
<1>5. CASE EndLog
  <2>1. /\ machine' = machine /\ chip' = chip /\ count' = count /\ last' = last
        /\ i' = i /\ len' = len /\ ret' = ret /\ pc = "log" /\ pc' = ret
    BY <1>5 DEF EndLog, call
  <2>2. Opening' => Opening
    BY <1>1, <2>1 DEF Opening
  <2> QED BY <1>1, <2>1, <2>2, QuietKeeps
<1>6. CASE WriteByte
  BY <1>6, WriteByteKeeps
<1>7. CASE ReadByte
  BY <1>7, ReadByteKeeps
<1>8. CASE EndCall
  BY <1>8, EndCallKeeps
<1>9. CASE BeginLog
  <2>1. /\ machine' = machine /\ chip' = chip /\ count' = count /\ last' = last
        /\ i' = 0 /\ len' = len /\ ret' = pc /\ pc' = "log"
        /\ pc \in {"biosdata", "idle"}
    BY <1>9 DEF BeginLog
  <2>2. ~Opening'
    BY <2>1 DEF Opening
  <2> QED BY <1>1, <2>1, <2>2, QuietKeeps
<1>10. CASE \E m \in 0 .. 3 : OpenSerial(m)
  <2>1. /\ machine' = machine /\ chip' = chip /\ count' = count
        /\ last' = NoWrite /\ i' = 0 /\ len' = len /\ ret' = "idle"
        /\ pc' = "init"
    BY <1>10 DEF OpenSerial, Call
  <2> QED BY <1>1, <2>1, OpeningKeeps
<1>11. CASE \E m \in 0 .. 3 : WriteSerial(m)
  BY <1>11, WriteSerialKeeps
<1>12. CASE \E m \in 0 .. 3 : ReadSerial(m)
  <2>1. /\ machine' = machine /\ chip' = chip /\ count' = count /\ last' = last
        /\ i' = 0 /\ len' \in Nat /\ ret' = "idle" /\ pc = "idle"
        /\ pc' = "read"
    BY <1>12 DEF ReadSerial, Call
  <2>2. ~Opening'
    BY <2>1 DEF Opening
  <2> QED BY <1>1, <2>1, <2>2, QuietKeeps
<1>13. CASE \E m \in 0 .. 4 : OpenRefused(m)
  <2>1. /\ machine' = machine /\ chip' = chip /\ count' = count /\ last' = last
        /\ i' = 0 /\ len' = len /\ ret' = "idle" /\ pc = "idle"
        /\ pc' = "idle"
    BY <1>13 DEF OpenRefused, Call
  <2>2. ~Opening'
    BY <2>1 DEF Opening
  <2> QED BY <1>1, <2>1, <2>2, QuietKeeps
<1>14. CASE Chips
  BY <1>14, SendKeeps, ReceiveKeeps DEF Chips
<1>15. CASE UNCHANGED vars
  <2>1. /\ machine' = machine /\ chip' = chip /\ count' = count /\ last' = last
        /\ i' = i /\ len' = len /\ ret' = ret /\ pc' = pc /\ port' = port
    BY <1>15 DEF vars, call
  <2> QED BY <1>1, <2>1, LinesKept
<1> QED BY <1>2, <1>3, <1>4, <1>5, <1>6, <1>7, <1>8, <1>9, <1>10, <1>11, <1>12,
           <1>13, <1>14, <1>15 DEF Next, Kernel, Calls

(***************************************************************************)
(* The bytes of the last write are on the line of their chip, in order and *)
(* with nothing in between, from the moment it ends until the next open,   *)
(* whatever is logged, read and received meanwhile (serial_com/init.c,     *)
(* seriallog.c).                                                           *)
(***************************************************************************)
THEOREM SerialInductive == Spec => []SerialInv
<1> QED BY SerialInit, SerialStep, PTL DEF Spec

(***************************************************************************)
(* When the chip has nothing more to send, what was written has left it:   *)
(* every byte, in order, and no line of the log in between                 *)
(* (serial_com/init.c:37-52, seriallog.c:20-34).                           *)
(***************************************************************************)
THEOREM WritesAreSent == Spec => []WrittenIsSent
<1>1. SerialInv => WrittenIsSent
  <2> SUFFICES ASSUME SerialInv, pc = "idle", Idle(last.port)
               PROVE  LET out == chip[last.port].out
                          n == last.to - last.from + 1
                      IN  n = 0 \/ \E k \in 0 .. Len(out) - n :
                                     \A j \in 1 .. n :
                                       out[k + j] = last.from + j - 1
    BY DEF WrittenIsSent
  <2> DEFINE c == chip[last.port]
             n == last.to - last.from + 1
  <2>1. Present(last.port) /\ ~c.loop /\ c.tx = <<>> /\ c \in Chip
    BY DEF Idle, SerialInv, SerialTyped, Present
  <2>2. OnLine(Line(c), last.from, n)
    BY <2>1 DEF SerialInv, WrittenSoFar
  <2>3. Line(c) = c.out
    <3>1. c.out \in Seq(Int)
      BY <2>1, ChipTyped
    <3>2. c.out \o <<>> = c.out
      <4> HIDE DEF c
      <4> QED BY <3>1
    <3> QED BY <2>1, <3>2 DEF Line
  <2> HIDE DEF c
  <2> QED BY <2>2, <2>3 DEF OnLine, c
<1> QED BY <1>1, SerialInductive, PTL
=============================================================================
