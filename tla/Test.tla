--------------------------------- MODULE Test ---------------------------------
(***************************************************************************)
(* src/test.c: the expression that test and [ evaluate.  A word is what    *)
(* strcmp tells apart; of its spelling only what the code looks at is      *)
(* known: the one character behind its '-', and its number.                *)
(***************************************************************************)
EXTENDS Integers, SequencesExt

CONSTANTS Letter,    \* what stands behind the '-' in each word that is a '-' and one character
          Numeral,   \* what strtol makes of each word that is a number
          Me         \* the effective user and group

ASSUME TestAssumption ==
  /\ \A w \in DOMAIN Numeral : Numeral[w] \in Int
  /\ Me.uid \in Nat /\ Me.gid \in Nat
  /\ {"(", ")", "=", "!=", "-eq", "-ne", "-lt", "-le", "-gt", "-ge"} \cap DOMAIN Letter = {}
  /\ {"-0", "-1", "-2", "-3", "-4", "-5", "-6", "-7", "-8", "-9"} \cap DOMAIN Numeral \subseteq DOMAIN Letter

Not(b) == IF b THEN 0 ELSE 1

(***************************************************************************)
(* What stat() tells: st.kind is "none" if there is no such file.  It      *)
(* follows links (so that -h and -L fail), and there are no devices, pipes *)
(* or sockets; -k, -s, -S, -r, -w and -x are TODOs that fail.              *)
(***************************************************************************)
FileOp(letter, st) ==
  CASE st.kind = "none"     -> 1
    [] letter \in {"a", "e"} -> 0
    [] letter = "d" -> Not(st.kind = "dir")
    [] letter = "f" -> Not(st.kind = "file")
    [] letter = "u" -> Not(<<"u", "s">> \in st.mode)
    [] letter = "g" -> Not(<<"g", "s">> \in st.mode)
    [] letter = "O" -> Not(st.uid = Me.uid)
    [] letter = "G" -> Not(st.gid = Me.gid)
    [] letter = "N" -> Not(st.atime <= st.mtime)
    [] OTHER        -> 1

OneOperand(letter, word, st) ==
  CASE letter = "z" -> Not(word = "")
    [] letter = "n" -> Not(word # "")
    [] OTHER        -> FileOp(letter, st)

\* parse_long ends the program with 2.  -ne does what -eq does.
Numbers(op, a, b) ==
  CASE {a, b} \ DOMAIN Numeral # {} -> 2
    [] op \in {"-eq", "-ne"} -> Not(Numeral[a] = Numeral[b])
    [] op = "-lt" -> Not(Numeral[a] < Numeral[b])
    [] op = "-le" -> Not(Numeral[a] <= Numeral[b])
    [] op = "-gt" -> Not(Numeral[a] > Numeral[b])
    [] op = "-ge" -> Not(Numeral[a] >= Numeral[b])

TwoOperands(a, op, b) ==
  CASE op = "="  -> Not(a = b)
    [] op = "!=" -> Not(a # b)
    [] op \in {"-eq", "-ne", "-lt", "-le", "-gt", "-ge"} -> Numbers(op, a, b)
    [] OTHER -> 1

(***************************************************************************)
(* test(): the activations that each take a "(" are counted; each wants    *)
(* its ")" when the innermost returns 0.  What is left over is ignored.    *)
(***************************************************************************)
Opened(argv) == CHOOSE n \in 0..Len(argv) : (n < Len(argv) => argv[n + 1] # "(") /\ \A i \in 1..n : argv[i] = "("

\* What the innermost returns, and how many words it takes.  Every word that is a '-'
\* and one character is an operator of one operand, be it a number.
Innermost(argv, Stat(_)) ==
  IF argv # <<>> /\ argv[1] \in DOMAIN Letter
  THEN [takes |-> 2, ret |-> IF Len(argv) < 2 THEN 1 ELSE OneOperand(Letter[argv[1]], argv[2], Stat(argv[2]))]
  ELSE [takes |-> 3, ret |-> IF Len(argv) < 3 THEN 1 ELSE TwoOperands(argv[1], argv[2], argv[3])]

ClosesNothing(argv, from, n) == TRUE
Closes(argv, from, n) == from + n <= Len(argv) /\ \A i \in 1..n : argv[from + i] = ")"

test(argv, Stat(_)) ==
  LET n     == Opened(argv)
      inner == Innermost(SubSeq(argv, n + 1, Len(argv)), Stat)
  IN  IF inner.ret = 0 /\ ~Closes(argv, n + inner.takes, n) THEN 1 ELSE inner.ret

\* [ wants a "]" at the end.
test_main(name, argv, Stat(_)) ==
  CASE name = "test" -> test(argv, Stat)
    [] name = "[" /\ (argv = <<>> \/ Last(argv) # "]") -> 1
    [] OTHER -> test(Front(argv), Stat)

(***************************************************************************)
(* The reference: what an expression is, and what it says of the words and *)
(* of the kind and the owner of a file.                                    *)
(***************************************************************************)
Around(n, e) == [i \in 1..n |-> "("] \o e \o [i \in 1..n |-> ")"]

NoFile == [kind |-> "none"]

FilesSay == [e |-> {"file", "dir"}, f |-> {"file"}, d |-> {"dir"}]

Comparing == {"=", "!=", "-eq", "-lt", "-le", "-gt", "-ge"}

\* An expression in parentheses is one, too.  "-ne" and the other letters are left out,
\* and so is on the left what looks like an operator.
IsTest(e) ==
  \/ Len(e) = 2 /\ e[1] \in DOMAIN Letter /\ Letter[e[1]] \in {"z", "n"} \cup DOMAIN FilesSay
  \/ /\ Len(e) = 3 /\ e[1] \notin DOMAIN Letter \cup {"("}
     /\ e[2] \in Comparing
     /\ e[2] \in {"=", "!="} \/ {e[1], e[3]} \subseteq DOMAIN Numeral

Holds(e, Kind(_)) ==
  IF Len(e) = 2
  THEN CASE Letter[e[1]] = "z" -> Len(e[2]) = 0
         [] Letter[e[1]] = "n" -> Len(e[2]) > 0
         [] OTHER -> Kind(e[2]) \in FilesSay[Letter[e[1]]]
  ELSE CASE e[2] = "="  -> e[1] = e[3]
         [] e[2] = "!=" -> e[1] # e[3]
         [] OTHER -> LET d == Numeral[e[1]] - Numeral[e[3]]
                     IN  \/ d = 0 /\ e[2] \in {"-eq", "-le", "-ge"}
                         \/ d < 0 /\ e[2] \in {"-lt", "-le"}
                         \/ d > 0 /\ e[2] \in {"-gt", "-ge"}
===============================================================================
