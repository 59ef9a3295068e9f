------------------------------- MODULE Filters -------------------------------
(***************************************************************************)
(* The loops of src/cat.c (the options that show characters), src/head.c,  *)
(* src/wc.c and src/hex.c over what one read or fread gives them.  Each is *)
(* a function from what the program knows so far and the bytes of a buffer *)
(* to what it knows then: `out` is what it has printed of this buffer, and *)
(* `stop` whether it leaves the loop.                                      *)
(*                                                                         *)
(* What is printed with %zu is one symbol, Number(n), and the name of a    *)
(* file one, too; padding and colours are left out.                        *)
(***************************************************************************)
EXTENDS Streams, Tr

CONSTANT Col     \* how many bytes hex shows on a line

Newline == 10
Tab     == 9
AName   == 256
Number(n) == 257 + n

NothingYet == [out |-> <<>>, stop |-> FALSE]

TrStart == [out |-> <<>>, stop |-> FALSE, last_out |-> -1]

Prints(c) == c \in 32..126

(***************************************************************************)
(* cat, one byte at a time.  prev is EOF (-1) at the start of each file.   *)
(***************************************************************************)
CatStart == [out |-> <<>>, stop |-> FALSE, prev |-> -1, line |-> 0]

CatByte(flags, s, c) ==
  LET numbered == "number" \in flags /\ s.prev \in {-1, Newline}
      shown ==
        CASE c = Newline -> IF "ends" \in flags THEN <<36, c>> ELSE <<c>>
          [] c = Tab     -> IF "tabs" \in flags THEN <<94, 73>> ELSE <<c>>
          [] OTHER       -> IF Prints(c) THEN <<c>> ELSE <<94, (c + 64) % 256>>
  IN  [s EXCEPT !.prev = c,
                !.line = IF numbered THEN @ + 1 ELSE @,
                !.out  = @ \o (IF numbered THEN <<Number(s.line)>> ELSE <<>>) \o shown]

(***************************************************************************)
(* head: lines win over bytes.                                             *)
(***************************************************************************)
LinesIn(buf) == {i \in DOMAIN buf : buf[i] = Newline}

\* Behind the k-th newline of buf.
AfterLine(buf, k) == CHOOSE i \in LinesIn(buf) : Cardinality({j \in LinesIn(buf) : j <= i}) = k

HeadStart == [out |-> <<>>, stop |-> FALSE, total |-> 0]

HeadBuffer(flags, n, s, buf) ==
  IF "lines" \in flags
  THEN LET wanted == n - s.total
           found  == Cardinality(LinesIn(buf))
       IN  IF found >= wanted
           THEN [s EXCEPT !.out = SubSeq(buf, 1, AfterLine(buf, wanted)), !.stop = TRUE]
           ELSE [s EXCEPT !.out = buf, !.total = @ + found]
  ELSE IF Len(buf) + s.total > n
       THEN [s EXCEPT !.out = SubSeq(buf, 1, n - s.total), !.stop = TRUE]
       ELSE [s EXCEPT !.out = buf, !.total = @ + Len(buf)]

(***************************************************************************)
(* wc: words are counted where a blank is followed by something else, and  *)
(* prev goes from one buffer to the next.  A buffer that is not full is    *)
(* the last one.  The grid and the sums go from one file to the next.      *)
(***************************************************************************)
is_blank(c) == c \in {0, 32, Newline, Tab}

WcSums  == [lines |-> 0, words |-> 0, bytes |-> 0]
WcStart == [out |-> <<>>, stop |-> FALSE, bytes |-> 0, words |-> 0, lines |-> 0, prev |-> 0,
            grid |-> <<>>, sums |-> WcSums]

WcByte(s, c) ==
  [s EXCEPT !.bytes = @ + 1,
            !.lines = IF c = Newline THEN @ + 1 ELSE @,
            !.words = IF is_blank(s.prev) /\ ~is_blank(c) THEN @ + 1 ELSE @,
            !.prev  = c]

\* A line of the grid: the counts asked for, or all of them.
add_stat(flags, s) ==
  LET asked(f, n) == IF flags = {} \/ f \in flags THEN <<Number(n)>> ELSE <<>>
  IN  asked("lines", s.lines) \o asked("words", s.words) \o asked("bytes", s.bytes)

(***************************************************************************)
(* hex: `line` is the line that is not full yet.                           *)
(***************************************************************************)
\* print_line of each Col bytes.
Rows(bytes) ==
  FlattenSeq([i \in 1..((Len(bytes) + Col - 1) \div Col) |->
                Append(SubSeq(bytes, (i - 1) * Col + 1, Less(i * Col, Len(bytes))), Newline)])

HexStart == [out |-> <<>>, stop |-> FALSE, total |-> 0, line |-> <<>>]

HexBuffer(flags, n, s, buf) ==
  LET limit == "length" \in flags
      some  == IF limit /\ Len(buf) > n - s.total THEN SubSeq(buf, 1, n - s.total) ELSE buf
      bytes == s.line \o some
      full  == Len(bytes) - (Len(bytes) % Col)
  IN  IF limit /\ s.total >= n THEN [s EXCEPT !.stop = TRUE]
      ELSE [s EXCEPT !.total = @ + Len(some),
                     !.line  = SubSeq(bytes, full + 1, Len(bytes)),
                     !.out   = Rows(SubSeq(bytes, 1, full))]
===============================================================================
