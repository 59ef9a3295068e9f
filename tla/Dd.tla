---------------------------------- MODULE Dd ----------------------------------
(***************************************************************************)
(* src/dd.c: the operands, and the blocks, in size_t.                      *)
(* What dd knows is a record; the reads and writes themselves are actions  *)
(* of Pipeline, which call the functions below with what they returned.    *)
(***************************************************************************)
EXTENDS Filters

CONSTANT SizeLimit   \* SIZE_MAX + 1

ASSUME DdAssumption == SizeLimit \in Nat \ {0}

Size(n)  == n % SizeLimit
SIZE_MAX == SizeLimit - 1

(***************************************************************************)
(* An operand is its name and its value.  The value of a number is its     *)
(* digits, the letter behind them and what follows that letter; digits = 0 *)
(* and letter = "?" stand for what is not a number.                        *)
(***************************************************************************)
Power == [l \in {"K", "M", "G", "T", "P", "E", "Z", "Y", "R", "Q"} |->
            CASE l = "K" -> 1 [] l = "M" -> 2 [] l = "G" -> 3 [] l = "T" -> 4 [] l = "P" -> 5
              [] l = "E" -> 6 [] l = "Z" -> 7 [] l = "Y" -> 8 [] l = "R" -> 9 [] l = "Q" -> 10]

OneLetter == [c |-> 1, B |-> 1, w |-> 2, b |-> 512]

JustDigits(v) == v.letter = "" /\ v.tail = ""

IsNumber(v) ==
  \/ JustDigits(v)
  \/ v.letter \in DOMAIN OneLetter /\ v.tail = ""
  \/ v.letter \in DOMAIN Power /\ v.tail \in {"", "B", "iB"}

\* n times base to a power. (Each product is taken modulo the width, so that none gets too large.)
TimesPower(n, base, power) == FoldLeft(LAMBDA i, k : Size(i * base), Size(n), [k \in 1..power |-> k])

str2int(v) ==
  IF JustDigits(v) THEN Size(v.digits)
  ELSE IF v.letter \in DOMAIN OneLetter THEN Size(v.digits * OneLetter[v.letter])
  ELSE TimesPower(v.digits, IF v.tail = "B" THEN 1000 ELSE 1024, Power[v.letter])

Numeric == {"bs", "count", "ibs", "obs", "seek", "oseek", "skip", "iseek"}

DdStart == [ibs |-> 512, obs |-> 512, count |-> SIZE_MAX, iseek |-> 0, oseek |-> 0,
            in |-> "stdin", of |-> "stdout", trunc |-> TRUE, excl |-> FALSE, bad |-> FALSE,
            room |-> 0, block |-> <<>>, content |-> <<>>, eof |-> FALSE,
            total_r |-> 0, total_w |-> 0, out |-> <<>>, stop |-> FALSE]

\* One operand; conv takes a list.
Operand(s, op) ==
  IF s.bad THEN s
  ELSE IF op.name \in Numeric
  THEN IF ~IsNumber(op.value) THEN [s EXCEPT !.bad = TRUE]
       ELSE LET n == str2int(op.value)
            IN  CASE op.name = "bs"    -> [s EXCEPT !.ibs = n, !.obs = n]
                  [] op.name = "ibs"   -> [s EXCEPT !.ibs = n]
                  [] op.name = "obs"   -> [s EXCEPT !.obs = n]
                  [] op.name = "count" -> [s EXCEPT !.count = n]
                  [] op.name \in {"seek", "oseek"} -> [s EXCEPT !.oseek = n]
                  [] op.name \in {"skip", "iseek"} -> [s EXCEPT !.iseek = n]
  ELSE CASE op.name = "if"   -> [s EXCEPT !.in = op.value]
         [] op.name = "of"   -> [s EXCEPT !.of = op.value]
         [] op.name = "conv" -> [s EXCEPT !.trunc = @ /\ "notrunc" \notin op.value,
                                          !.excl  = @ \/ "excl" \in op.value,
                                          !.bad   = ~(op.value \subseteq {"notrunc", "excl"})]
         [] OTHER            -> [s EXCEPT !.bad = TRUE]

\* What an operand is: digits are digits, and if and of name a file.
OperandOK(op) ==
  CASE op.name \in Numeric -> op.value.digits \in Nat
    [] op.name \in {"if", "of"} -> op.value \in FileName
    [] OTHER -> TRUE

Operands(args) == FoldLeft(Operand, DdStart, args)

(***************************************************************************)
(* The blocks.  `room` is what read_by_blocks may still read, `block` what *)
(* read_block has got of the block it fills, `content` the buffer.         *)
(***************************************************************************)
Bs(s) == IF s.ibs > s.obs THEN s.ibs ELSE s.obs

NewRound(s) == [s EXCEPT !.room = Less(Bs(s), Size(s.ibs * s.count)), !.block = <<>>, !.content = <<>>]

\* How much the next read asks for.
Asks(s) == Less(s.room, s.ibs) - Len(s.block)

\* read_block returns: the block joins the buffer, and read_by_blocks goes on
\* unless it was a short one.
BlockDone(s, block) ==
  [s EXCEPT !.content = @ \o block, !.room = IF Len(block) < s.ibs THEN 0 ELSE @ - Len(block),
            !.block = <<>>]

\* read_by_blocks returns.
AllRead(s) == [s EXCEPT !.total_r = @ + Len(s.content), !.eof = Len(s.content) < Bs(s)]

\* What the next write is given, and what a write of w bytes leaves.
Chunk(s) == SubSeq(s.content, 1, Less(Len(s.content), s.obs))
Written(s, w) == [s EXCEPT !.total_w = @ + w, !.content = SubSeq(@, w + 1, Len(@))]

CountKeepsGoing(s) == s
Counted(s) == [s EXCEPT !.count = Size(@ - Bs(s) \div s.ibs)]

\* The three lines that dd prints to its standard output.
Report(s) ==
  <<Number(s.total_r \div s.ibs), Number(s.total_r % s.ibs), Newline,
    Number(s.total_w \div s.obs), Number(s.total_w % s.obs), Newline,
    Number(Less(s.total_r, s.total_w)), Newline>>
===============================================================================
