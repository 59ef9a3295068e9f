--------------------------------- MODULE Modes ---------------------------------
(***************************************************************************)
(* The MODE operand of src/chmod.c: how ch() reads it and what it makes of *)
(* st_mode.  The operand is a sequence of characters; st_mode is the set   *)
(* of its bits, and a bit a class and a permission.                        *)
(***************************************************************************)
EXTENDS Naturals, SequencesExt

Classes == {"u", "g", "o"}
Sticky  == <<"o", "t">>             \* S_ISVTX
S_IFDIR == <<"type", "dir">>
Bits    == (Classes \X {"r", "w", "x"}) \cup {<<"u", "s">>, <<"g", "s">>, Sticky}

Letters == Classes \cup {"a"}
Perms   == {"r", "w", "x", "s", "t"}
Octals  == {"0", "1", "2", "3", "4", "5", "6", "7"}
Digits  == Octals \cup {"8", "9"}

\* Of whom the bits are, for a letter, and for anything else that is not one.
MaskOfAll(letter) == Bits
Mask(letter) == IF letter \in Classes THEN {b \in Bits : b[1] = letter} \cup {Sticky} ELSE Bits

PermBits(perms) == {b \in Bits : b[2] \in perms}

(***************************************************************************)
(* strtol(m, &end, 8).  What is above the twelve bits the mask takes away. *)
(***************************************************************************)
Binary(digit) ==
  CASE digit = "0" -> {}  [] digit = "1" -> {1}    [] digit = "2" -> {2}    [] digit = "3" -> {1, 2}
    [] digit = "4" -> {3} [] digit = "5" -> {1, 3} [] digit = "6" -> {2, 3} [] digit = "7" -> {1, 2, 3}

\* The bits of the k-th digit from the right, the lowest first.
Place(k) ==
  IF k = 4 THEN <<Sticky, <<"g", "s">>, <<"u", "s">>>>
  ELSE LET class == <<"o", "g", "u">>[k] IN <<<<class, "x">>, <<class, "w">>, <<class, "r">>>>

OctalBits(digits) ==
  UNION {{Place(k)[i] : i \in Binary(digits[Len(digits) + 1 - k])} : k \in 1..Len(digits) \cap 1..4}

(***************************************************************************)
(* One turn of the loop of ch(), from place i of the mode on: what it does *)
(* with which bits, and where the next turn starts.  A character that is   *)
(* no operation is complained about, and the turn does nothing.            *)
(***************************************************************************)
Char(mode, i) == IF i <= Len(mode) THEN mode[i] ELSE "\\0"

\* How far the characters of `set` go from i on.
RunEnd(mode, i, set) ==
  CHOOSE k \in i..(Len(mode) + 2) : Char(mode, k) \notin set /\ \A j \in i..(k - 1) : Char(mode, j) \in set

Clause(mode, i) ==
  LET who     == mode[i]
      at      == IF who \in Letters THEN i + 1 ELSE i
      digit   == Char(mode, at) \in Digits
      start   == IF digit THEN at ELSE at + 1
      number  == Char(mode, start) \in Digits
      end     == RunEnd(mode, start, IF number THEN Octals ELSE Perms)
      what    == SubSeq(mode, start, end - 1)
  IN  [op   |-> IF digit THEN "=" ELSE Char(mode, at),
       bits |-> (IF number THEN OctalBits(what) ELSE PermBits(ToSet(what))) \cap Mask(who),
       from |-> i,
       next |-> IF Char(mode, end) = "," THEN end + 1 ELSE end]

\* The turns of the loop.  It stays for ever where strtol takes nothing.
Clauses(mode) ==
  LET from[i \in 1..(Len(mode) + 1)] ==
        IF i > Len(mode) THEN <<>>
        ELSE LET c == Clause(mode, i)
             IN  <<c>> \o (IF c.next \in {i, Len(mode) + 2} THEN <<>> ELSE from[c.next])
  IN  from[1]

Spins(mode) == LET turns == Clauses(mode) IN Last(turns).next = Last(turns).from

\* A turn that finds no operation before the end of the string goes on behind it.
InBounds(mode) == mode # <<>> /\ \A c \in ToSet(Clauses(mode)) : c.op # "\\0"

\* `=` replaces all of st_mode.
Apply(st_mode, c) ==
  CASE c.op = "=" -> c.bits
    [] c.op = "+" -> st_mode \cup c.bits
    [] c.op = "-" -> st_mode \ c.bits
    [] OTHER      -> st_mode

NewMode(mode, st_mode) == FoldLeft(Apply, st_mode, Clauses(mode))

(***************************************************************************)
(* What the operand is to mean: clauses, each of which says who, what is   *)
(* done, and which permissions.  For `=` this is said of everybody only.   *)
(***************************************************************************)
Gives(who, op, perms) ==
  [op |-> op, bits |-> {b \in Bits : b[2] \in perms /\ (who \in {"", "a"} \/ b[1] = who \/ b = Sticky)},
   text |-> (IF who = "" THEN <<>> ELSE <<who>>) \o <<op>> \o SetToSeq(perms)]
Octal(digits) == [op |-> "=", bits |-> OctalBits(digits), text |-> digits]

IsClause(c) ==
  \/ \E who \in Letters \cup {""}, op \in {"+", "-", "="}, perms \in SUBSET Perms :
       c = Gives(who, op, perms) /\ (op = "=" => who \in {"", "a"})
  \/ c.text # <<>> /\ c.text \in Seq(Octals) /\ c = Octal(c.text)

\* With commas between them.
Written(clauses) ==
  FlattenSeq([k \in DOMAIN clauses |-> clauses[k].text \o (IF k < Len(clauses) THEN <<",">> ELSE <<>>)])

Meant(clauses, bits) ==
  FoldLeft(LAMBDA m, c : CASE c.op = "=" -> c.bits [] c.op = "+" -> m \cup c.bits [] c.op = "-" -> m \ c.bits,
           bits, clauses)
===============================================================================
