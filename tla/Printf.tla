------------------------------- MODULE Printf -------------------------------
(***************************************************************************)
(* _vsnprintf of printf.c, as the kernel builds it (no floating point),    *)
(* as each function of printf.h calls it: to _putchar, which is what the   *)
(* log uses, to a function of the caller, or into an array.                *)
(*                                                                         *)
(* A character is a string of length one, or NUL.  An argument is a record *)
(* [n, s]: the word that an integer conversion takes, and the string that  *)
(* %s takes; %c takes the first character of s.  A long has LONG bits, an  *)
(* int, a short and a char each half as many as the one before.            *)
(***************************************************************************)
EXTENDS Integers, FiniteSets, SequencesExt

CONSTANTS
  LONG,             \* bits of a long; 64 in the code
  BUFFER,           \* PRINTF_NTOA_BUFFER_SIZE; half of LONG in the code
  Calls             \* what may be asked for: [api, format, args, buffer, count]

NUL == "NUL"
UNBOUNDED == -1     \* (size_t)-1

\* The functions; a call of one that takes no buffer or count has any.
Api == {"printf_", "vprintf_", "fctprintf", "sprintf_", "snprintf_", "vsnprintf_"}
Streams == {"printf_", "vprintf_", "fctprintf"}
Counted == {"snprintf_", "vsnprintf_"}

ASSUME PrintfAssumption ==
  /\ LONG \in {8, 16} /\ BUFFER \in 3 .. LONG
  /\ \A c \in Calls :
       c.api \in Api /\ c.count \in Nat /\ c.buffer \in {"NULL", "array"}

VARIABLES
  call,
  pc,                \* the part of the loop: see Next
  format, args,      \* what is left of them
  flags, width, precision,      \* of the directive; precision is 0 if none
  spec,
  buf, value,        \* a number's digits from the right, and the number
  out,               \* every character given to the output function; idx is
                     \* its length
  stored,            \* what arrived there
  start              \* where the output of the last directive begins

vars == <<call, pc, format, args, flags, width, precision, spec, buf, value,
          out, stored, start>>
directive == <<flags, width, precision, spec, buf, value>>

Init ==
  /\ call \in Calls /\ pc = "text"
  /\ format = call.format /\ args = call.args
  /\ flags = {} /\ width = 0 /\ precision = 0 /\ spec = "%"
  /\ buf = <<>> /\ value = 0
  /\ out = <<>> /\ stored = <<>> /\ start = 0

\* The character at *format; the string ends with a null.
At == IF format = <<>> THEN NUL ELSE Head(format)
Rest == IF format = <<>> THEN <<>> ELSE Tail(format)

-----------------------------------------------------------------------------
maxlen == IF call.api \in Counted THEN call.count ELSE UNBOUNDED

\* _out_char and _out_fct leave nulls out, _out_buffer what is behind the end,
\* and _out_null, which stands for an array that is NULL, everything.
Printable(c) == c # NUL
Into(old, chars) ==
  IF call.api \in Streams THEN old \o SelectSeq(chars, Printable)
  ELSE IF call.buffer = "NULL" THEN old
  ELSE LET all == old \o chars
       IN  IF maxlen = UNBOUNDED \/ Len(all) < maxlen THEN all
           ELSE SubSeq(all, 1, maxlen)
Emit(chars) == out' = out \o chars /\ stored' = Into(stored, chars)

Repeat(n, c) == [k \in 1 .. n |-> c]            \* empty for n below 0

-----------------------------------------------------------------------------
Literal ==
  /\ pc = "text" /\ At \notin {"%", NUL}
  /\ Emit(<<At>>) /\ format' = Rest /\ spec' = "%"
  /\ UNCHANGED <<call, pc, args, flags, width, precision, buf, value, start>>

BeginDirective ==
  /\ pc = "text" /\ At = "%"
  /\ format' = Rest /\ pc' = "flags" /\ flags' = {} /\ start' = Len(out)
  /\ UNCHANGED <<call, args, width, precision, spec, buf, value, out, stored>>

Flags == {"0", "-", "+", " ", "#"}
Flag ==
  /\ pc = "flags"
  /\ IF At \in Flags
     THEN flags' = flags \union {At} /\ format' = Rest /\ UNCHANGED pc
     ELSE pc' = "width" /\ UNCHANGED <<flags, format>>
  /\ UNCHANGED <<call, args, width, precision, spec, buf, value, out, stored,
                 start>>

\* A number of the format, or the next argument as an int.
Value == [c \in {"0", "1", "2", "3", "4", "5", "6", "7", "8", "9"} |->
            CHOOSE d \in 0 .. 9 : ToString(d) = c]
NumberLength(f) ==
  LET ends == {k \in 0 .. Len(f) : k = Len(f) \/ f[k + 1] \notin DOMAIN Value}
  IN  CHOOSE k \in ends : \A l \in ends : k <= l
Atoi(f) == FoldLeft(LAMBDA n, c : 10 * n + Value[c], 0,
                    SubSeq(f, 1, NumberLength(f)))
Behind(n) == SubSeq(format, n + 1, Len(format))

Signed(n, bits) ==
  LET low == n % 2^bits IN IF low >= 2^(bits - 1) THEN low - 2^bits ELSE low
Abs(n) == IF n < 0 THEN -n ELSE n
INT == LONG \div 2
Argument == Signed(Head(args).n, INT)

Width ==
  /\ pc = "width" /\ pc' = "precision"
  /\ IF At = "*"
     THEN /\ width' = Abs(Argument) /\ args' = Tail(args) /\ format' = Rest
          /\ flags' = IF Argument < 0 THEN flags \union {"-"} ELSE flags
     ELSE /\ width' = Atoi(format) /\ format' = Behind(NumberLength(format))
          /\ UNCHANGED <<flags, args>>
  /\ UNCHANGED <<call, precision, spec, buf, value, out, stored, start>>

Precision ==
  /\ pc = "precision" /\ pc' = "length"
  /\ IF At # "." THEN precision' = 0 /\ UNCHANGED <<flags, args, format>>
     ELSE /\ flags' = flags \union {"."}
          /\ IF Len(format) > 1 /\ format[2] = "*"
             THEN /\ precision' = IF Argument > 0 THEN Argument ELSE 0
                  /\ args' = Tail(args) /\ format' = Tail(Rest)
             ELSE /\ precision' = Atoi(Rest)
                  /\ format' = Behind(1 + NumberLength(Rest)) /\ UNCHANGED args
  /\ UNCHANGED <<call, width, spec, buf, value, out, stored, start>>

\* l, ll, h, hh, t, j and z; a long and a long long are the same.
Lengths == {"l", "h", "t", "j", "z"}
Length ==
  /\ pc = "length" /\ pc' = "specifier"
  /\ IF At \in Lengths
     THEN LET twice == At \in {"l", "h"} /\ Len(format) > 1 /\ format[2] = At
              size == IF At # "h" THEN "l" ELSE IF twice THEN "hh" ELSE "h"
          IN  /\ flags' = flags \union {size}
              /\ format' = Behind(IF twice THEN 2 ELSE 1)
     ELSE UNCHANGED <<flags, format>>
  /\ UNCHANGED <<call, args, width, precision, spec, buf, value, out, stored,
                 start>>

-----------------------------------------------------------------------------
(***************************************************************************)
(* The integer conversions.  spec decides the base, and which flags count. *)
(***************************************************************************)
Base(c) == CASE c \in {"x", "X", "p"} -> 16 [] c = "o" -> 8 [] c = "b" -> 2
             [] OTHER -> 10
Bits(c) == IF "l" \in flags THEN LONG
           ELSE IF "hh" \in flags THEN INT \div 4
           ELSE IF "h" \in flags THEN INT \div 2 ELSE INT
IsSigned(c) == c \in {"d", "i"}
Ignored(c) ==
  (IF IsSigned(c) THEN {} ELSE {"+", " "})
  \union (IF Base(c) = 10 THEN {"#"} ELSE {})
  \union (IF "." \in flags THEN {"0"} ELSE {})

Integers_ == {"d", "i", "u", "x", "X", "o", "b"}
Digit(d, upper) ==
  IF d < 10 THEN ToString(d)
  ELSE IF upper THEN <<"A", "B", "C", "D", "E", "F">>[d - 9]
                ELSE <<"a", "b", "c", "d", "e", "f">>[d - 9]

\* The digits from the right, one at least, as many as the buffer holds.
DigitsOf(number, base, upper) ==
  LET count == CHOOSE n \in 1 .. BUFFER :
                 /\ number < base^n \/ n = BUFFER
                 /\ n = 1 \/ number >= base^(n - 1)
  IN  [k \in 1 .. count |-> Digit((number \div base^(k - 1)) % base, upper)]

\* _ntoa_long and _ntoa_long_long, up to _ntoa_format.
Ntoa(number, shown, upper) ==
  /\ value' = number
  /\ flags' = IF number = 0 THEN shown \ {"#"} ELSE shown
  /\ buf' = IF "." \in shown /\ number = 0 THEN <<>>
            ELSE DigitsOf(Abs(number), Base(At), upper)
  /\ spec' = At /\ args' = Tail(args) /\ format' = Rest /\ pc' = "zeros"
  /\ UNCHANGED <<call, precision, out, stored, start>>

Integer ==
  /\ pc = "specifier" /\ At \in Integers_
  /\ Ntoa(IF IsSigned(At) THEN Signed(Head(args).n, Bits(At))
          ELSE Head(args).n % 2^Bits(At), flags \ Ignored(At), At = "X")
  /\ UNCHANGED width

\* %p has zeros up to the digits of a pointer, of which there are two a byte.
Pointer ==
  /\ pc = "specifier" /\ At = "p"
  /\ Ntoa(Head(args).n % 2^LONG, flags \union {"0"}, TRUE)
  /\ width' = LONG \div 4

\* The buffer takes zeros up to a length, as far as it reaches.
ZerosUpTo(b, length) ==
  b \o Repeat((IF length < BUFFER THEN length ELSE BUFFER) - Len(b), "0")

HasSign == value < 0 \/ flags \intersect {"+", " "} # {}

WithZeros(b, w) ==
  IF "-" \in flags THEN b
  ELSE LET p == ZerosUpTo(b, precision)
       IN  IF "0" \in flags THEN ZerosUpTo(p, w) ELSE p

Zeros ==
  /\ pc = "zeros" /\ pc' = "hash"
  /\ LET less == width > 0 /\ {"0", "-"} \intersect flags = {"0"} /\ HasSign
         w == IF less THEN width - 1 ELSE width
     IN  width' = w /\ buf' = WithZeros(buf, w)
  /\ UNCHANGED <<call, format, args, flags, precision, spec, value, out,
                 stored, start>>

\* The prefix goes over one or two digits if they fill a length exactly.
Cut ==
  IF "." \notin flags /\ buf # <<>> /\ Len(buf) \in {precision, width}
  THEN IF Len(buf) > 1 /\ Base(spec) = 16 THEN 2 ELSE 1
  ELSE 0
Letter == CASE Base(spec) = 2 -> <<"b">>
            [] Base(spec) = 16 -> IF spec = "x" THEN <<"x">> ELSE <<"X">>
            [] OTHER -> <<>>
Room(b, chars) == IF Len(b) < BUFFER THEN b \o chars ELSE b

Hash ==
  /\ pc = "hash" /\ pc' = "sign"
  /\ buf' = IF "#" \in flags
            THEN Room(Room(SubSeq(buf, 1, Len(buf) - Cut), Letter), <<"0">>)
            ELSE buf
  /\ UNCHANGED <<call, format, args, flags, width, precision, spec, value,
                 out, stored, start>>

SignOf_PlusFirst ==                                               \* variant
  IF "+" \in flags THEN <<"+">> ELSE IF value < 0 THEN <<"-">>
  ELSE IF " " \in flags THEN <<" ">> ELSE <<>>
SignOf == IF value < 0 THEN <<"-">> ELSE IF "+" \in flags THEN <<"+">>
          ELSE IF " " \in flags THEN <<" ">> ELSE <<>>
Sign ==
  /\ pc = "sign" /\ pc' = "reverse" /\ buf' = Room(buf, SignOf)
  /\ UNCHANGED <<call, format, args, flags, width, precision, spec, value,
                 out, stored, start>>

\* Spaces before or behind; zeros stand for the ones before.
Spaces(n) == Repeat(width - n, " ")
Padded(text) == IF "-" \in flags THEN text \o Spaces(Len(text))
                ELSE Spaces(Len(text)) \o text
OutRev ==
  /\ pc = "reverse" /\ pc' = "text"
  /\ LET text == Reverse(buf)
     IN  Emit(IF "0" \in flags /\ "-" \notin flags THEN text ELSE Padded(text))
  /\ UNCHANGED <<call, format, args, directive, start>>

-----------------------------------------------------------------------------
\* %c and %s.  The flag 0 does not count there.
Character ==
  /\ pc = "specifier" /\ At = "c"
  /\ spec' = "c" /\ Emit(Padded(<<Head(args).s[1]>>))
  /\ args' = Tail(args) /\ format' = Rest /\ pc' = "text"
  /\ UNCHANGED <<call, flags, width, precision, buf, value, start>>

Prefix(s) == IF "." \in flags /\ precision < Len(s)
             THEN SubSeq(s, 1, precision) ELSE s
String ==
  /\ pc = "specifier" /\ At = "s"
  /\ spec' = "s" /\ Emit(Padded(Prefix(Head(args).s)))
  /\ args' = Tail(args) /\ format' = Rest /\ pc' = "text"
  /\ UNCHANGED <<call, flags, width, precision, buf, value, start>>

\* Anything else is itself.  At the end of the format it is the null there,
\* and what follows in memory is read as the rest of the format ("beyond").
Other ==
  /\ pc = "specifier" /\ At \notin Integers_ \union {"c", "s", "p"}
  /\ spec' = "%" /\ Emit(<<At>>) /\ format' = Rest
  /\ pc' = IF At = NUL THEN "beyond" ELSE "text"
  /\ UNCHANGED <<call, args, flags, width, precision, buf, value, start>>

\* The termination: at idx, or at the last place.
Terminate_AtEnd ==                                                \* variant
  /\ pc = "text" /\ At = NUL /\ pc' = "done"
  /\ stored' = Into(stored, <<NUL>>)
  /\ UNCHANGED <<call, format, args, directive, out, start>>

Terminate ==
  /\ pc = "text" /\ At = NUL /\ pc' = "done"
  /\ stored' = IF maxlen = UNBOUNDED \/ Len(out) < maxlen
               THEN Into(stored, <<NUL>>)
               ELSE IF maxlen = 0 \/ stored = <<>> THEN stored
               ELSE [stored EXCEPT ![maxlen] = NUL]
  /\ UNCHANGED <<call, format, args, directive, out, start>>

Next ==
  \/ Literal \/ BeginDirective
  \/ Flag \/ Width \/ Precision \/ Length
  \/ Integer \/ Pointer \/ Zeros \/ Hash \/ Sign \/ OutRev
  \/ Character \/ String \/ Other
  \/ Terminate

Spec == Init /\ [][Next]_vars

-----------------------------------------------------------------------------
\* A number was just written.
Numbers == Integers_ \union {"p"}
Converted == pc = "text" /\ spec \in Numbers
Field == SubSeq(out, start + 1, Len(out))

DigitValue(c) ==
  CASE c \in DOMAIN Value -> Value[c]
    [] c \in {"a", "A"} -> 10 [] c \in {"b", "B"} -> 11 [] c \in {"c", "C"} -> 12
    [] c \in {"d", "D"} -> 13 [] c \in {"e", "E"} -> 14 [] c \in {"f", "F"} -> 15
Signs == {"-", "+", " "}
Digits(text) ==
  LET plain == SelectSeq(text, LAMBDA c : c \notin Signs)
      prefix == IF "#" \notin flags THEN 0 ELSE IF spec = "o" THEN 1 ELSE 2
  IN  SubSeq(plain, prefix + 1, Len(plain))
Number(text) == FoldLeft(LAMBDA n, c : Base(spec) * n + DigitValue(c), 0,
                         Digits(text))
Fits == Abs(value) < 2^BUFFER \/ Base(spec) # 2
HashHasRoom ==
  /\ Base(spec) = 16 /\ {width, precision} \subseteq 0 .. BUFFER - 2
  /\ width > 2 /\ Abs(value) < 16^(width - 2)
NumberReads ==
  Converted /\ Fits /\ ("#" \in flags => HashHasRoom) =>
    /\ Number(Field) = Abs(value)
    /\ value < 0 => "-" \in ToSet(Field) \/ Len(Field) >= BUFFER

WidthKept ==
  pc = "text" /\ spec # "%" =>
    \/ Len(Field) >= width
    \/ "0" \in flags /\ spec \in Numbers /\ Len(Field) >= BUFFER

(***************************************************************************)
(* A number is read back from what was written, with its sign, whatever    *)
(* the flags, the width and the precision, but for three cases: # in a     *)
(* field without room for digits and prefix, which may lose two digits;    *)
(* more digits than the buffer has; and zeros that fill it, so that the    *)
(* sign is lost.  Every conversion is at least as wide as asked, but for   *)
(* zeros behind the end of the buffer (printf.c:201-329, 692-757).         *)
(***************************************************************************)
FieldRight == NumberReads /\ WidthKept

(***************************************************************************)
(* The caller's array holds as much of the output as the count allows and  *)
(* ends with a null in its last used place; without a count it has it all. *)
(* An array that is NULL, or of no places, is not touched, and a stream    *)
(* has the output without its nulls, of which the last is not sent         *)
(* (printf.c:134-168, 579-587, 855).                                       *)
(***************************************************************************)
ArrayEnds ==
  pc = "done" =>
    LET n == Len(stored)
    IN  IF call.api \in Streams THEN stored = SelectSeq(out, Printable)
        ELSE IF call.buffer = "NULL" \/ maxlen = 0 THEN stored = <<>>
        ELSE /\ n > 0 /\ stored[n] = NUL /\ n <= Len(out) + 1
             /\ SubSeq(stored, 1, n - 1) = SubSeq(out, 1, n - 1)
             /\ IF maxlen = UNBOUNDED THEN n = Len(out) + 1
                ELSE n <= maxlen /\ (n = maxlen \/ n = Len(out) + 1)
=============================================================================
