------------------------------ MODULE MCPrintf ------------------------------
(***************************************************************************)
(* One directive of each kind with pairs of flags, widths below and above  *)
(* the buffer, numbers of one digit up to all bits, and a few longer       *)
(* formats, through every function.                                        *)
(***************************************************************************)
EXTENDS Printf

FlagSets == {<<>>, <<"0">>, <<"-">>, <<"#">>, <<"0", "-">>, <<"0", "+">>,
             <<" ">>, <<"#", "0">>}
Widths == {<<>>, <<"4">>, <<"1", "1">>, <<"*">>}
Precisions == {<<>>, <<".", "3">>, <<".", "*">>}
Lengths_ == {<<>>, <<"l">>, <<"h", "h">>}
Text == {<<"A", "%", "%", "%", "z", "X", "%", "o">>, <<>>, <<"A", "%">>,
         <<"%", "-">>}
MCFormats ==
  {<<"%">> \o fl \o w \o p \o l \o <<c>> :
     fl \in FlagSets, w \in Widths, p \in Precisions, l \in Lengths_,
     c \in {"d", "x", "b", "p"}}
  \union {<<"%">> \o fl \o w \o p \o <<c, "A">> :
            fl \in FlagSets, w \in Widths, p \in Precisions, c \in {"s", "c"}}
  \union Text

Arg(n, s) == [n |-> n, s |-> s]
MCArgs == {<<Arg(9, <<"A">>), Arg(65535, <<"B", "C", "D", "E", "F">>), Arg(0, <<NUL>>)>>,
           <<Arg(4660, <<NUL>>), Arg(2, <<"A">>), Arg(256, <<"A", "B">>)>>,
           <<Arg(32768, <<"A", "B", "C", "D">>), Arg(200, <<"A">>), Arg(16, <<"B">>)>>,
           <<Arg(250, <<"A", "B">>), Arg(0, <<"A">>), Arg(65534, <<"B">>)>>}

\* Each format goes to _putchar and to small arrays, some to everything.
Calls_(apis, formats, buffers, counts) ==
  [api : apis, format : formats, args : MCArgs, buffer : buffers, count : counts]
MCCalls ==
  Calls_({"printf_"}, MCFormats, {"NULL"}, {0})
  \union Calls_({"snprintf_"}, MCFormats, {"array"}, {0, 4})
  \union Calls_(Api, Text \union {<<"%", "c", "A">>, <<"%", "x", "%", "s">>},
                {"NULL", "array"}, {0, 1, 3, 9})
=============================================================================
