------------------------------ MODULE MCPipeline ------------------------------
(* Small pipelines for Pipeline. *)
EXTENDS Pipeline

C(name, flags, args, n) == [name |-> name, flags |-> flags, args |-> args, n |-> n, seek |-> 1]
Of(letter, digits) == [digits |-> digits, letter |-> letter, tail |-> ""]
Op(name, value) == [name |-> name, value |-> value]
Num(name, n) == Op(name, Of("", n))

Case(input, cmds, refused, interrupt) ==
  [input |-> input, files |-> [f |-> <<97, 10, 9>>, g |-> <<98, 98>>], cmds |-> cmds,
   refused |-> refused, interrupt |-> interrupt]
Lone(cmd, input) == Case(input, <<cmd>>, {}, FALSE)

In    == <<97, 10, 32, 98, 10>>
Brief == <<97, 98, 10>>

Cat == C("cat", {}, <<>>, 0)
Tee == C("tee", {}, <<"h">>, 0)
Dd(ops) == C("dd", {}, ops, 0)

(* Every program alone, with its options and lists of operands. *)
Operandss == {<<>>, <<"f">>, <<"f", "-">>, <<"none", "g">>}
Cats  == {C("cat", fl, a, 0) : fl \in {{}, {"number"}, {"ends", "tabs"}, {"byte"}}, a \in Operandss}
Heads == {C("head", fl, a, n) : fl \in {{"lines"}, {"bytes"}, {"lines", "quiet"}}, a \in Operandss, n \in 0..3}
         \cup {C("head", {}, <<>>, 0)}
Hexs  == {C("hex", fl, a, n) : fl \in {{}, {"seek"}, {"length"}}, a \in Operandss, n \in {0, 3}}
Wcs   == {C("wc", fl, a, 0) : fl \in {{}, {"lines"}, {"words", "bytes"}}, a \in Operandss}

A(c) == Bare(c)
TrSets == {<<A(97)>>, <<A(97), A(98)>>, <<Between(97, 99)>>, <<Between(97, 98), A(32)>>, <<Escaped(110), A(98)>>,
           <<Escaped(Backslash), Between(98, 100)>>, <<A(Dash), A(97)>>, <<A(32), Escaped(118)>>,
           <<A(98), Between(120, 121), Escaped(110)>>}
TrIn == <<98, 97, 97, 10, 32>>
Trs == {C("tr", fl, <<s, t>>, 0) : fl \in {{}, {"squeeze"}, {"delete", "squeeze"}}, s \in TrSets, t \in TrSets}
       \cup {C("tr", fl, <<s>>, 0) : fl \in {{}, {"delete"}, {"squeeze"}}, s \in TrSets}
       \cup {C("tr", {"delete"}, <<<<A(97), Between(99, 98)>>>>, 0), C("tr", {"squeeze"}, <<<<Between(99, 98)>>>>, 0)}

DdLines == {<<Num("bs", 2)>>, <<>>, <<Num("ibs", 2), Num("obs", 3), Num("count", 1)>>}
           \cup {<<Num("ibs", i), Num("obs", o), Num("count", n)>> : i \in 1..2, o \in {2, 4}, n \in 0..3}
           \cup {<<Num("bs", 2), Op("of", "g"), Num("seek", 1), Op("conv", v)>> :
                    v \in {{}, {"notrunc"}, {"excl"}, {"sync"}}}
           \cup {<<Num("bs", 2), Op("of", f), Num("count", 1)>> : f \in {"g", "h"}}
           \cup {<<Num("bs", 1), Op("if", f), Op("of", "h"), Num("skip", 1)>> : f \in {"f", "none"}}
           \cup {<<Num("bs", 0)>>, <<Num("obs", 0)>>, <<Op("if", "g"), Op("of", "g")>>, <<Op("x", "f")>>,
                 <<Op("obs", Of("w", 1)), Op("ibs", Of("B", 1))>>, <<Op("bs", Of("K", 1)), Op("count", Of("b", 1))>>,
                 <<Op("ibs", Of("?", 0))>>}
Dds == {Dd(l) : l \in DdLines}

Alones == {Lone(c, i) : c \in Cats \cup Heads \cup Hexs \cup Wcs \cup Dds, i \in {In, Brief, <<>>}}
          \cup {Lone(c, TrIn) : c \in Trs}
          \cup {Lone(C("tee", fl, a, 0), Brief) : fl \in {{}, {"append"}}, a \in {<<>>, <<"h", "g">>, <<"h", "h">>}}

(* Pipelines: every pair and some triples, also with a program that never ends by itself. *)
Parts  == {Cat, Tee, C("cat", {"ends"}, <<"-", "g">>, 0), C("head", {"lines"}, <<>>, 1), C("head", {"bytes"}, <<>>, 2),
           C("tr", {"squeeze"}, <<<<A(98), A(10)>>, <<A(97), A(98)>>>>, 0)}
Ddc    == Dd(<<Num("bs", 2), Num("count", 1)>>)
Lasts  == {Ddc, C("wc", {}, <<>>, 0), C("hex", {}, <<>>, 0), C("head", {"lines"}, <<"g", "-">>, 1)}
Y      == C("yes", {}, <<>>, 0)
Pairs  == {Case(Brief, <<a, b>>, {}, FALSE) : a \in Parts, b \in Parts \cup Lasts}
          \cup {Case(Brief, <<Ddc, b>>, {}, FALSE) : b \in {Cat, Tee}}
          \cup {Case(<<>>, <<Y, b>>, {}, FALSE) : b \in {C("head", {"lines"}, <<>>, 2), Dd(<<Num("bs", 3), Num("count", 1)>>)}}
Triples == {Case(Brief, <<a, b, c>>, {}, FALSE) : a \in Parts, b \in Parts, c \in {Cat, C("head", {"lines"}, <<>>, 1), C("wc", {}, <<>>, 0)}}
          \cup {Case(<<>>, <<Y, Tee, C("head", {"lines"}, <<>>, 1)>>, {}, FALSE)}

(* Refused calls, short writes, interrupts, and a file that is read while tee writes it. *)
TeeTwo == C("tee", {"append"}, <<"h", "g">>, 0)
TeeI   == C("tee", {"ignore"}, <<"h">>, 0)
Faulty ==
  {Case(Brief, <<c>>, r, FALSE) : c \in {TeeTwo, Tee, Dd(<<Num("ibs", 2), Num("obs", 1)>>),
                                         Dd(<<Num("bs", 2), Op("of", "h")>>), C("cat", {}, <<"f", "-">>, 0),
                                         C("wc", {}, <<"f", "g">>, 0), C("head", {"lines"}, <<"f", "-">>, 1)},
                                  r \in {{"write"}, {"short"}, {"read"}, {"open"}, {"write", "short"}}}
  \cup {Case(Brief, <<Cat, c>>, {}, TRUE) : c \in {Tee, TeeI}}
  \cup {Case(Brief, <<TeeTwo, Cat>>, {"write"}, FALSE), Case(<<>>, <<C("cat", {}, <<"f">>, 0), C("tee", {}, <<"f">>, 0)>>, {}, FALSE),
        Case(Brief, <<C("tee", {}, <<"h", "h">>, 0), C("cat", {}, <<"h", "-">>, 0)>>, {}, FALSE)}

MCSettings == Alones \cup Pairs \cup Triples \cup Faulty

\* Two blocks of two bytes are asked for, and written in blocks of three.
Uneven == {Lone(Dd(<<Num("ibs", 2), Num("obs", 3), Num("count", 2)>>), i) : i \in {In, Brief, <<1, 2, 3, 4, 5, 6, 7>>}}
===============================================================================
