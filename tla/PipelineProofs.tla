---------------------------- MODULE PipelineProofs ----------------------------
(***************************************************************************)
(* Theorems about Options and Pipeline: from the words of a command line   *)
(* to the flags and the operands of a command, and what the commands that  *)
(* copy streams then do, for every command line, every pipeline, every     *)
(* input and every interleaving.  (FileSystemProofs has the induction on   *)
(* sets of numbers.)                                                       *)
(***************************************************************************)
EXTENDS Options, Pipeline, FileSystemProofs, FiniteSetTheorems

-------------------------------------------------------------------------------
(***************************************************************************)
(* Options.                                                                *)
(***************************************************************************)
(***************************************************************************)
(* What holds until the command is found.                                  *)
(***************************************************************************)
Untouched == cmd = 0 /\ word = 1 /\ flags = {} /\ value = [s \in Slot |-> <<>>]

Searched ==
  /\ at \in {"start", "search"} => Untouched
  /\ at = "search" => (argc = 0 => progname = "tutils")

Inv == TypeOK /\ Searched

\* A command of the table is what Command says, and so are its options.
LEMMA TableOK ==
  /\ DOMAIN Commands = 1..Len(Commands) /\ Len(Commands) \in Nat
  /\ \A k \in DOMAIN Commands : Commands[k] \in Command
BY TableAssumption

LEMMA OptionOK ==
  ASSUME cmd \in 0..Len(Commands)
  PROVE  /\ Options \in Seq(Option)
         /\ \A j \in DOMAIN Options : Options[j].flags \subseteq Flag
         /\ \A j \in DOMAIN Options : Options[j].value \in Slot \cup {NULL}
<1>1. Options \in Seq(Option)
  BY TableOK DEF Options, Command
<1>2. \A j \in DOMAIN Options : Options[j] \in Option
  BY <1>1
<1>3. \A o \in Option : o.flags \subseteq Flag /\ o.value \in Slot \cup {NULL}
  BY DEF Option
<1> QED  BY <1>1, <1>2, <1>3

\* Words in front of argc are words.
LEMMA ArgIsWord ==
  ASSUME args \in Seq(Word), NEW k \in Nat, k < argc
  PROVE  Arg(k) \in Word
BY DEF Arg, argc

\* A text that fits is there; so, for a letter, there is a next word.
LEMMA NextIsThere ==
  ASSUME args \in Seq(Word), NEW k \in Nat, NEW t, IsFit(t, NextWord(k))
  PROVE  k + 1 < argc
BY DEF IsFit, NextWord, argc

LEMMA InitInv == OptInit => Inv
BY TableOK, WordAssumption
   DEF OptInit, Inv, TypeOK, Searched, Untouched, argc, Arg

(***************************************************************************)
(* main and find_command.                                                  *)
(***************************************************************************)
LEMMA MainStep == Inv /\ (NamesCommand \/ IsCommand) => Inv'
<1> SUFFICES ASSUME Inv, NamesCommand \/ IsCommand PROVE Inv'
  OBVIOUS
<1> USE DEF Inv, TypeOK, Searched, Untouched
<1>1. CASE NamesCommand
  <2>1. args' \in Seq(Word) /\ argc' = argc - 1 /\ argc >= 2 /\ argc \in Nat
    BY <1>1 DEF NamesCommand, argc
  <2>2. progname' \in Word
    <3>1. Arg(1) \in Word
      BY <2>1, ArgIsWord
    <3> QED  BY <1>1, <3>1 DEF NamesCommand
  <2> QED
    BY <1>1, <2>1, <2>2, TableOK DEF NamesCommand, argc
<1>2. CASE IsCommand
  <2>1. argc \in Nat
    BY DEF argc
  <2>2. progname' \in Word
    <3>1. CASE argc = 0
      BY <1>2, <3>1, WordAssumption DEF IsCommand, CalledAs
    <3>2. CASE argc # 0
      <4>1. Arg(0) \in Word
        BY <2>1, <3>2, ArgIsWord
      <4> QED  BY <1>2, <3>2, <4>1, WordAssumption DEF IsCommand, CalledAs
    <3> QED  BY <3>1, <3>2
  <2>3. argc' = argc /\ (argc = 0 => progname' = "tutils")
    BY <1>2 DEF IsCommand, CalledAs, argc
  <2> QED
    BY <1>2, <2>2, <2>3, TableOK DEF IsCommand
<1> QED  BY <1>1, <1>2

\* A command that is found has a name, and so main() has an argv[0].
LEMMA SearchStep == Inv /\ (CommandFound \/ CommandUnknown) => Inv'
<1> SUFFICES ASSUME Inv, CommandFound \/ CommandUnknown PROVE Inv'
  OBVIOUS
<1> USE DEF Inv, TypeOK, Searched, Untouched, main
<1>0. at = "search"
  BY DEF CommandFound, CommandUnknown
<1>1. CASE CommandFound
  <2>1. PICK k \in DOMAIN Commands : Commands[k].name = progname /\ cmd' = k
    BY <1>1 DEF CommandFound
  <2>2. argc > 0
    BY <1>0, <2>1, TableAssumption DEF argc
  <2>3. cmd' \in 1..Len(Commands)
    BY <2>1, TableOK
  <2> QED
    BY <1>0, <1>1, <2>2, <2>3 DEF CommandFound, argc
<1>2. CASE CommandUnknown
  BY <1>0, <1>2 DEF CommandUnknown, argc
<1> QED  BY <1>1, <1>2

(***************************************************************************)
(* parse_opts and its helpers.                                             *)
(***************************************************************************)
LEMMA ParseStep ==
  Inv /\ (OperandsBegin \/ DashDash \/ Informs \/ LongUnknown \/ LongBadValue \/ LettersBegin
          \/ LetterUnknown \/ LetterBadValue \/ LettersEnd) => Inv'
<1> SUFFICES ASSUME Inv, OperandsBegin \/ DashDash \/ Informs \/ LongUnknown \/ LongBadValue
                         \/ LettersBegin \/ LetterUnknown \/ LetterBadValue \/ LettersEnd
             PROVE  Inv'
  OBVIOUS
<1> USE DEF Inv, TypeOK, Searched, main
<1>0. argc \in Nat
  BY DEF argc
<1>1. CASE OperandsBegin
  BY <1>1 DEF OperandsBegin, argc
<1>2. CASE DashDash
  BY <1>0, <1>2 DEF DashDash, AtLong, argc
<1>3. CASE Informs \/ LongUnknown \/ LongBadValue
  BY <1>3 DEF Informs, LongUnknown, LongBadValue, AtLong, argc
<1>4. CASE LettersBegin
  <2>1. Letters[Arg(word)] \in Seq(STRING)
    BY <1>4, WordAssumption DEF LettersBegin, Short
  <2> QED
    BY <1>0, <1>4, <2>1 DEF LettersBegin, argc, Arg
<1>5. CASE LetterUnknown \/ LetterBadValue
  BY <1>5 DEF LetterUnknown, LetterBadValue, AtLetter, argc
<1>6. CASE LettersEnd
  BY <1>0, <1>6 DEF LettersEnd, argc
<1> QED  BY <1>1, <1>2, <1>3, <1>4, <1>5, <1>6

\* The four steps that take an option. A value is there if it fits, and so is the word
\* that is then skipped.
LEMMA TakeStep == Inv /\ (LongFlag \/ LongValue \/ LetterFlag \/ LetterValue) => Inv'
<1> SUFFICES ASSUME Inv, LongFlag \/ LongValue \/ LetterFlag \/ LetterValue PROVE Inv'
  OBVIOUS
<1> USE DEF Inv, TypeOK, Searched, main
<1>0. argc \in Nat
  BY DEF argc
<1>1. flags' \subseteq Flag /\ DOMAIN value' = Slot
  <2>1. \A j \in DOMAIN Options : Options[j].flags \subseteq Flag
    BY OptionOK
  <2> QED
    BY <2>1 DEF LongFlag, LongValue, LetterFlag, LetterValue, Assign
<1>2. CASE LongFlag
  BY <1>0, <1>1, <1>2 DEF LongFlag, AtLong, argc
<1>3. CASE LongValue
  <2>1. word < argc /\ at = "word"
    BY <1>3 DEF LongValue, AtLong
  <2>2. HasText(word) \/ word + 1 < argc
    <3> SUFFICES ASSUME ~HasText(word) PROVE word + 1 < argc
      OBVIOUS
    <3>1. PICK j \in DOMAIN Options : IsFit(Options[j].arg_type, NextWord(word))
      BY <1>3 DEF LongValue, TextOf
    <3> QED  BY <3>1, NextIsThere
  <2>3. word' \in Nat \ {0} /\ word' <= argc
    BY <1>0, <1>3, <2>1, <2>2 DEF LongValue
  <2> QED
    BY <1>1, <1>3, <2>1, <2>3 DEF LongValue, argc
<1>4. CASE LetterFlag
  <2>1. Letters[Arg(word)] \in Seq(STRING) /\ at = "letters"
    BY <1>4, WordAssumption DEF LetterFlag, AtLetter, Short
  <2>2. letter' \in 1..(Len(Letters[Arg(word)]) + 1)
    BY <1>4, <2>1 DEF LetterFlag, AtLetter
  <2> QED
    BY <1>0, <1>1, <1>4, <2>1, <2>2 DEF LetterFlag, argc, Arg
<1>5. CASE LetterValue
  <2>1. Letters[Arg(word)] \in Seq(STRING) /\ at = "letters"
    BY <1>5, WordAssumption DEF LetterValue, AtLetter, Short
  <2>2. letter' \in 1..(Len(Letters[Arg(word)]) + 1)
    BY <1>5, <2>1 DEF LetterValue, AtLetter
  <2>3. PICK j \in DOMAIN Options : IsFit(Options[j].arg_type, NextWord(word))
    BY <1>5 DEF LetterValue
  <2>4. word + 1 < argc
    BY <2>3, NextIsThere
  <2> QED
    BY <1>0, <1>1, <1>5, <2>1, <2>2, <2>4 DEF LetterValue, argc, Arg
<1> QED  BY <1>2, <1>3, <1>4, <1>5

LEMMA StepInv == Inv /\ [OptNext]_optVars => Inv'
<1> SUFFICES ASSUME Inv, [OptNext]_optVars PROVE Inv'
  OBVIOUS
<1>1. CASE UNCHANGED optVars
  BY <1>1 DEF Inv, TypeOK, Searched, Untouched, optVars, argc, Arg
<1>2. CASE OptNext
  BY <1>1, <1>2, MainStep, SearchStep, ParseStep, TakeStep DEF OptNext
<1> QED  BY <1>1, <1>2

\* TypeOK for every table and every command line: parse_opts (line 234) and its
\* helpers look at no word behind the last, and hand over operands that are there.
THEOREM TypeCorrect == OptSpec => []TypeOK
<1>1. Inv => TypeOK
  BY DEF Inv
<1> QED  BY <1>1, InitInv, StepInv, PTL DEF OptSpec

(***************************************************************************)
(* What a reading means. The words in front of the one at hand have one    *)
(* reading, and every complete reading passes through the word at hand: so *)
(* that the parser cannot take a wrong turn.                               *)
(***************************************************************************)
EndsThere(e) ==
  e = argc \/ Arg(e) = "--" \/ ~Dashed(Arg(e)) \/ (Short(Arg(e)) /\ Options = <<>>)

Final(e) == EndsThere(e) \/ AsksForInformation(e)

\* ReadsAsMeant, where a "-" is an option that names none.
ReadAsParsed ==
  /\ at = "run" /\ Parses(cmd) =>
       \E S \in SUBSET (1..argc), end \in 1..argc :
         /\ Reading(S, end) /\ EndsThere(end) /\ word = First(end)
         /\ FlagsFrom(Uses(S)) /\ \A s \in Slot : ValueFrom(Uses(S), s)
  /\ at = "informed" => AsksForInformation(word) /\ \E S \in SUBSET (1..argc) : Reading(S, word)
  /\ at = "refused" /\ cmd # 0 =>
       \A S \in SUBSET (1..argc), end \in 1..argc :
         Reading(S, end) => ~(EndsThere(end) \/ AsksForInformation(end))

PassesBy(k) ==
  \A S \in SUBSET (1..argc), e \in 1..argc : Reading(S, e) /\ Final(e) => k \in S \cup {e}

\* The flags f and the values v are those that the uses U give.
Gives(f, v, U) ==
  /\ f = UNION {Used(a).flags : a \in U}
  /\ \A s \in Slot :
       \/ v[s] = <<>> /\ \A a \in U : Used(a).value # s
       \/ \E a \in U : /\ Used(a).value = s
                       /\ \A b \in U : Used(b).value = s => NotAfter(b, a)
                       /\ v[s] = Converted(Used(a).arg_type, TextOf(a[1]))

\* The uses of the first n - 1 letters of the word at k.
UsesUpTo(k, n) == {<<k, g>> : g \in {g \in NamedAt(k) : g[1] < n}}

AtWord(k, f, v) ==
  /\ PassesBy(k)
  /\ \E S \in SUBSET (1..argc) : Reading(S, k) /\ Gives(f, v, Uses(S))

\* Those letters are in order, and one of them takes the next word.
LettersFit(k, n) ==
  /\ \A p \in 1..(n - 1) : \E g \in NamedAt(k) : g[1] = p
  /\ \A g \in NamedAt(k) : g[1] < n /\ Valued(g) => IsFit(Options[g[2]].arg_type, TextOf(k))

TakesNext(k, n) == \E g \in NamedAt(k) : g[1] < n /\ Valued(g)

AtLetterOf(k, n, skip, f, v) ==
  /\ PassesBy(k)
  /\ \E S \in SUBSET (1..argc) : Reading(S, k) /\ Gives(f, v, Uses(S) \cup UsesUpTo(k, n))
  /\ Options # <<>> /\ LettersFit(k, n)
  /\ skip = IF TakesNext(k, n) THEN 1 ELSE 0

\* The bound variables stand for i, letter, skip_next, flags and value, so that each
\* operator is applied to constants only.
ReadInv ==
  /\ Inv
  /\ at = "word" => \A k, f, v : k = word /\ f = flags /\ v = value => AtWord(k, f, v)
  /\ at = "letters" =>
       \A k, n, skip, f, v :
         k = word /\ n = letter /\ skip = skip_next /\ f = flags /\ v = value =>
           AtLetterOf(k, n, skip, f, v)
  /\ ReadAsParsed

\* All this hangs on the words and the command only.
LEMMA SameWords ==
  ASSUME args' = args, cmd' = cmd
  PROVE  /\ argc' = argc /\ Options' = Options
         /\ \A S, e : Reading(S, e)' <=> Reading(S, e)
         /\ \A S : Uses(S)' = Uses(S)
         /\ \A f, v, U : Gives(f, v, U)' <=> Gives(f, v, U)
         /\ \A e : (EndsThere(e)' <=> EndsThere(e)) /\ (Final(e)' <=> Final(e)) /\ First(e)' = First(e)
         /\ \A e : AsksForInformation(e)' <=> AsksForInformation(e)
         /\ \A k, f, v : AtWord(k, f, v)' <=> AtWord(k, f, v)
         /\ \A k, n, skip, f, v : AtLetterOf(k, n, skip, f, v)' <=> AtLetterOf(k, n, skip, f, v)
<1>1. argc' = argc /\ Options' = Options /\ \A k : Arg(k)' = Arg(k)
  BY DEF argc, Options, Arg
<1>2. \A j, c : (IsLetter(j, c)' <=> IsLetter(j, c)) /\ (IsName(j, c)' <=> IsName(j, c))
  BY <1>1 DEF IsLetter, IsName
<1>3. \A k : NamedAt(k)' = NamedAt(k)
  BY <1>1, <1>2 DEF NamedAt, Short
<1>4. \A k : (HasText(k)' <=> HasText(k)) /\ TextOf(k)' = TextOf(k)
  BY <1>1 DEF HasText, TextOf, NextWord
<1>5. \A g : Valued(g)' <=> Valued(g)
  BY <1>1 DEF Valued
<1>6. \A k : (IsOption(k)' <=> IsOption(k)) /\ After(k)' = After(k)
  BY <1>1, <1>3, <1>4, <1>5 DEF IsOption, After, Short, Long
<1>7. \A S, e : Reading(S, e)' <=> Reading(S, e)
  BY <1>6 DEF Reading
<1>8. \A S : Uses(S)' = Uses(S)
  BY <1>3 DEF Uses
<1>9. \A a : Used(a)' = Used(a)
  BY <1>1 DEF Used
<1>10. \A f, v, U : Gives(f, v, U)' <=> Gives(f, v, U)
  BY <1>4, <1>9 DEF Gives, NotAfter
<1>11. \A e : AsksForInformation(e)' <=> AsksForInformation(e)
  BY <1>1 DEF AsksForInformation
<1>12. \A e : (EndsThere(e)' <=> EndsThere(e)) /\ (Final(e)' <=> Final(e)) /\ First(e)' = First(e)
  BY <1>1, <1>11 DEF EndsThere, Final, First, Dashed, Short, Long
<1>13. \A k : PassesBy(k)' <=> PassesBy(k)
  BY <1>1, <1>7, <1>12 DEF PassesBy
<1>14. \A k, n : UsesUpTo(k, n)' = UsesUpTo(k, n)
  BY <1>3 DEF UsesUpTo
<1>15. \A k, f, v : AtWord(k, f, v)' <=> AtWord(k, f, v)
  BY <1>1, <1>7, <1>8, <1>10, <1>13 DEF AtWord
<1>16. \A k, n : LettersFit(k, n)' <=> LettersFit(k, n)
  BY <1>1, <1>3, <1>4, <1>5 DEF LettersFit
<1>17. \A k, n : TakesNext(k, n)' <=> TakesNext(k, n)
  BY <1>3, <1>5 DEF TakesNext
<1>18. \A k, n, f, v :
         (\E S \in SUBSET (1..argc) : Reading(S, k) /\ Gives(f, v, Uses(S) \cup UsesUpTo(k, n)))'
         <=> (\E S \in SUBSET (1..argc) : Reading(S, k) /\ Gives(f, v, Uses(S) \cup UsesUpTo(k, n)))
  BY <1>1, <1>7, <1>8, <1>10, <1>14
<1>19. \A k, n, skip, f, v : AtLetterOf(k, n, skip, f, v)' <=> AtLetterOf(k, n, skip, f, v)
  BY <1>1, <1>13, <1>16, <1>17, <1>18 DEF AtLetterOf
<1> QED
  BY <1>1, <1>7, <1>8, <1>10, <1>11, <1>12, <1>15, <1>19

\* Which options a word names: for a letter, or a long name, at most one.
LEMMA GivenOK ==
  ASSUME NEW k
  PROVE  \A g \in NamedAt(k) : /\ g[1] \in Nat \ {0} /\ g[2] \in DOMAIN Options
                               /\ g = <<g[1], g[2]>>
                               /\ Short(Arg(k)) => g[1] <= Len(Letters[Arg(k)])
<1>1. Short(Arg(k)) => /\ DOMAIN Letters[Arg(k)] = 1..Len(Letters[Arg(k)])
                       /\ Len(Letters[Arg(k)]) \in Nat
  BY WordAssumption DEF Short
<1> QED  BY <1>1 DEF NamedAt

LEMMA OneOption ==
  ASSUME cmd \in 0..Len(Commands), NEW j \in DOMAIN Options, NEW m \in DOMAIN Options, NEW c
  PROVE  /\ IsLetter(j, c) /\ IsLetter(m, c) => j = m
         /\ IsName(j, c) /\ IsName(m, c) => j = m
<1>1. DOMAIN Options = 1..Len(Options) /\ Len(Options) \in Nat
  BY OptionOK
<1> QED  BY <1>1 DEF IsLetter, IsName

LEMMA GivenLong ==
  ASSUME cmd \in 0..Len(Commands), NEW k, Long(Arg(k)),
         NEW j \in DOMAIN Options, IsName(j, LongName[Arg(k)])
  PROVE  NamedAt(k) = {<<1, j>>}
<1>1. ~Short(Arg(k))
  BY WordAssumption DEF Short, Long
<1>2. \A m \in DOMAIN Options : IsName(m, LongName[Arg(k)]) => m = j
  BY OneOption
<1>3. NamedAt(k) = {g \in {1} \X (DOMAIN Options) : IsName(g[2], LongName[Arg(k)])}
  BY <1>1 DEF NamedAt
<1>4. <<1, j>> \in NamedAt(k)
  BY <1>3
<1>5. \A g \in NamedAt(k) : g = <<1, j>>
  BY <1>2, <1>3
<1> QED  BY <1>4, <1>5

LEMMA GivenLetter ==
  ASSUME cmd \in 0..Len(Commands), NEW k, Short(Arg(k)),
         NEW n \in DOMAIN Letters[Arg(k)],
         NEW j \in DOMAIN Options, IsLetter(j, Letters[Arg(k)][n])
  PROVE  /\ <<n, j>> \in NamedAt(k)
         /\ \A g \in NamedAt(k) : g[1] = n => g = <<n, j>>
<1>1. \A m \in DOMAIN Options : IsLetter(m, Letters[Arg(k)][n]) => m = j
  BY OneOption
<1>2. NamedAt(k) = {g \in (DOMAIN Letters[Arg(k)]) \X (DOMAIN Options) :
                    IsLetter(g[2], Letters[Arg(k)][g[1]])}
  BY DEF NamedAt
<1>3. <<n, j>> \in NamedAt(k)
  BY <1>2
<1>4. ASSUME NEW g \in NamedAt(k), g[1] = n PROVE g = <<n, j>>
  <2>1. g[2] \in DOMAIN Options /\ IsLetter(g[2], Letters[Arg(k)][n]) /\ g = <<g[1], g[2]>>
    BY <1>2, <1>4
  <2> QED  BY <1>1, <1>4, <2>1
<1> QED  BY <1>3, <1>4

\* One letter more.
LEMMA NextLetter ==
  ASSUME cmd \in 0..Len(Commands), NEW k, Short(Arg(k)),
         NEW n \in DOMAIN Letters[Arg(k)], LettersFit(k, n),
         NEW j \in DOMAIN Options, IsLetter(j, Letters[Arg(k)][n]),
         Options[j].value # NULL => IsFit(Options[j].arg_type, TextOf(k))
  PROVE  /\ LettersFit(k, n + 1)
         /\ UsesUpTo(k, n + 1) = UsesUpTo(k, n) \cup {<<k, <<n, j>>>>}
         /\ TakesNext(k, n + 1) <=> TakesNext(k, n) \/ Options[j].value # NULL
<1>1. n \in Nat
  BY WordAssumption DEF Short
<1>2. \A g \in NamedAt(k) : g[1] \in Nat /\ (g[1] < n + 1 <=> g[1] < n \/ g = <<n, j>>)
  <2>1. \A g \in NamedAt(k) : g[1] \in Nat /\ (g[1] = n => g = <<n, j>>)
    BY GivenOK, GivenLetter
  <2>2. <<n, j>>[1] = n
    OBVIOUS
  <2>3. \A m \in Nat : m < n + 1 <=> m < n \/ m = n
    BY <1>1
  <2> QED  BY <2>1, <2>2, <2>3
<1>3. <<n, j>> \in NamedAt(k) /\ (Valued(<<n, j>>) <=> Options[j].value # NULL)
  BY GivenLetter DEF Valued
<1>4. LettersFit(k, n + 1)
  <2>1. \A p \in 1..n : \E g \in NamedAt(k) : g[1] = p
    BY <1>1, <1>3 DEF LettersFit
  <2>2. \A g \in NamedAt(k) : g[1] < n + 1 /\ Valued(g) => IsFit(Options[g[2]].arg_type, TextOf(k))
    BY <1>2, <1>3 DEF LettersFit
  <2> QED  BY <1>1, <2>1, <2>2 DEF LettersFit
<1>5. UsesUpTo(k, n + 1) = UsesUpTo(k, n) \cup {<<k, <<n, j>>>>}
  BY <1>2, <1>3 DEF UsesUpTo
<1>6. TakesNext(k, n + 1) <=> TakesNext(k, n) \/ Options[j].value # NULL
  BY <1>2, <1>3 DEF TakesNext
<1> QED  BY <1>4, <1>5, <1>6

\* After its last letter the word is an option.
LEMMA LastLetter ==
  ASSUME argc \in Nat, NEW k \in 1..argc, k < argc, Short(Arg(k)), Options # <<>>,
         NEW n \in Nat, n > Len(Letters[Arg(k)]), LettersFit(k, n)
  PROVE  /\ IsOption(k)
         /\ UsesUpTo(k, n) = {<<k, g>> : g \in NamedAt(k)}
         /\ After(k) = IF TakesNext(k, n) THEN k + 2 ELSE k + 1
<1>1. DOMAIN Letters[Arg(k)] = 1..Len(Letters[Arg(k)]) /\ Len(Letters[Arg(k)]) \in Nat
  BY WordAssumption DEF Short
<1>2. \A g \in NamedAt(k) : g[1] \in Nat /\ g[1] < n
  BY <1>1, GivenOK
<1>3. IsOption(k)
  BY <1>1, <1>2 DEF IsOption, LettersFit
<1>4. UsesUpTo(k, n) = {<<k, g>> : g \in NamedAt(k)}
  BY <1>2 DEF UsesUpTo
<1>5. ~HasText(k)
  BY WordAssumption DEF HasText, Short
<1> QED  BY <1>2, <1>3, <1>4, <1>5 DEF After, TakesNext

\* An option is not the end; a word that is neither ends every reading.
LEMMA OptionIsNotFinal ==
  ASSUME NEW k, IsOption(k), argc \in Nat
  PROVE  ~Final(k) /\ After(k) \in {k + 1, k + 2}
BY WordAssumption
   DEF IsOption, Final, EndsThere, AsksForInformation, After, Dashed, Short, Long

LEMMA NothingElse ==
  ASSUME NEW k, PassesBy(k), ~IsOption(k), ~Final(k)
  PROVE  \A S \in SUBSET (1..argc), e \in 1..argc : Reading(S, e) => ~Final(e)
BY DEF PassesBy, Reading

LEMMA PassOn ==
  ASSUME NEW k, PassesBy(k), IsOption(k), argc \in Nat
  PROVE  PassesBy(After(k))
BY OptionIsNotFinal DEF PassesBy, Reading

\* A reading grows by the option at its end, and by its uses.
LEMMA Extend ==
  ASSUME argc \in Nat, NEW k \in 1..argc, IsOption(k),
         NEW S \in SUBSET (1..argc), Reading(S, k)
  PROVE  /\ S \cup {k} \in SUBSET (1..argc)
         /\ Reading(S \cup {k}, After(k))
         /\ Uses(S \cup {k}) = Uses(S) \cup {<<k, g>> : g \in NamedAt(k)}
<1>1. k < argc /\ After(k) \in {k + 1, k + 2}
  BY OptionIsNotFinal DEF IsOption
<1>2. Reading(S \cup {k}, After(k))
  BY <1>1 DEF Reading
<1>3. Uses(S \cup {k}) = Uses(S) \cup {<<k, g>> : g \in NamedAt(k)}
  BY DEF Uses
<1> QED  BY <1>2, <1>3

\* The uses at places in front of k come before those of the word at k, and those of its
\* first letters before that of the next.
LEMMA UsesBefore ==
  ASSUME argc \in Nat, NEW k \in 1..argc, NEW S \in SUBSET (1..argc), Reading(S, k),
         NEW n \in Nat, NEW j
  PROVE  \A b \in Uses(S) \cup UsesUpTo(k, n) : NotAfter(b, <<k, <<n, j>>>>)
<1>1. \A b \in Uses(S) : b[1] < k
  BY DEF Uses, Reading
<1>2. \A b \in UsesUpTo(k, n) : b[1] = k /\ b[2][1] <= n
  <2>1. \A g \in NamedAt(k) : g[1] \in Int
    BY GivenOK
  <2> QED  BY <2>1 DEF UsesUpTo
<1> QED  BY <1>1, <1>2 DEF NotAfter

\* One more use at the end.
LEMMA UseGives ==
  ASSUME NEW f, NEW v, NEW U, Gives(f, v, U), DOMAIN v = Slot, NULL \notin Slot,
         NEW a, Used(a).value \in Slot \cup {NULL},
         \A b \in U : NotAfter(b, a), NotAfter(a, a),
         NEW w,
         w = IF Used(a).value = NULL THEN v
             ELSE [v EXCEPT ![Used(a).value] = Converted(Used(a).arg_type, TextOf(a[1]))]
  PROVE  Gives(f \cup Used(a).flags, w, U \cup {a})
<1>1. f \cup Used(a).flags = UNION {Used(b).flags : b \in U \cup {a}}
  BY DEF Gives
<1>2. ASSUME NEW s \in Slot
      PROVE  \/ w[s] = <<>> /\ \A b \in U \cup {a} : Used(b).value # s
             \/ \E c \in U \cup {a} :
                  /\ Used(c).value = s
                  /\ \A b \in U \cup {a} : Used(b).value = s => NotAfter(b, c)
                  /\ w[s] = Converted(Used(c).arg_type, TextOf(c[1]))
  <2>1. CASE Used(a).value = s
    <3>1. w[s] = Converted(Used(a).arg_type, TextOf(a[1]))
      BY <1>2, <2>1
    <3> QED  BY <2>1, <3>1
  <2>2. CASE Used(a).value # s
    <3>1. w[s] = v[s]
      BY <1>2, <2>2
    <3>2. CASE v[s] = <<>> /\ \A b \in U : Used(b).value # s
      BY <2>2, <3>1, <3>2
    <3>3. CASE \E c \in U : /\ Used(c).value = s
                            /\ \A b \in U : Used(b).value = s => NotAfter(b, c)
                            /\ v[s] = Converted(Used(c).arg_type, TextOf(c[1]))
      BY <2>2, <3>1, <3>3
    <3> QED  BY <3>2, <3>3 DEF Gives
  <2> QED  BY <2>1, <2>2
<1> QED  BY <1>1, <1>2 DEF Gives

(***************************************************************************)
(* The steps.                                                              *)
(***************************************************************************)
LEMMA ReadInit == OptInit => ReadInv
BY InitInv DEF OptInit, ReadInv, ReadAsParsed

\* While the command is looked for, nothing has been read.
LEMMA ReadSearch ==
  ReadInv /\ (NamesCommand \/ IsCommand \/ CommandFound \/ CommandUnknown) => ReadInv'
<1> SUFFICES ASSUME ReadInv, NamesCommand \/ IsCommand \/ CommandFound \/ CommandUnknown
             PROVE  ReadInv'
  OBVIOUS
<1>1. Inv /\ Inv'
  BY MainStep, SearchStep DEF ReadInv
<1>2. at \in {"start", "search"} /\ Untouched
  BY <1>1 DEF Inv, Searched, NamesCommand, IsCommand, CommandFound, CommandUnknown
<1>3. CASE NamesCommand \/ IsCommand \/ CommandUnknown
  <2>1. at' \in {"search", "refused"} /\ cmd' = 0
    BY <1>2, <1>3 DEF NamesCommand, IsCommand, CommandUnknown, Untouched, main
  <2> QED  BY <1>1, <2>1 DEF ReadInv, ReadAsParsed
<1>4. CASE CommandFound
  <2>1. /\ at' = IF Parses(cmd') THEN "word" ELSE "run"
        /\ word' = 1 /\ flags' = {} /\ value' = [s \in Slot |-> <<>>]
    BY <1>2, <1>4 DEF CommandFound, Untouched
  <2>2. CASE at' = "run"
    BY <1>1, <2>1, <2>2 DEF ReadInv, ReadAsParsed
  <2>3. CASE at' = "word"
    <3>1. \A f, v : f = {} /\ v = [s \in Slot |-> <<>>] => Gives(f, v, {})'
      BY DEF Gives
    <3>2. Uses({})' = {}
      BY DEF Uses
    <3>3. Reading({}, 1)' /\ PassesBy(1)'
      BY DEF Reading, PassesBy
    <3>4. \A k, f, v : k = 1 /\ f = {} /\ v = [s \in Slot |-> <<>>] => AtWord(k, f, v)'
      BY <3>1, <3>2, <3>3 DEF AtWord
    <3> QED  BY <1>1, <2>1, <2>3, <3>4 DEF ReadInv, ReadAsParsed
  <2> QED  BY <2>1, <2>2, <2>3
<1> QED  BY <1>3, <1>4

\* What ends the options, and what asks for information.
LEMMA ReadEnd == ReadInv /\ (OperandsBegin \/ DashDash \/ Informs) => ReadInv'
<1> SUFFICES ASSUME ReadInv, OperandsBegin \/ DashDash \/ Informs PROVE ReadInv'
  OBVIOUS
<1>1. Inv /\ Inv' /\ argc \in Nat
  BY ParseStep DEF ReadInv, argc
<1>2. at = "word" /\ word \in 1..argc
  BY <1>1 DEF Inv, TypeOK, OperandsBegin, DashDash, Informs, AtLong
<1>3. PICK S \in SUBSET (1..argc) : Reading(S, word) /\ Gives(flags, value, Uses(S))
  BY <1>2 DEF ReadInv, AtWord
<1>4. args' = args /\ cmd' = cmd /\ flags' = flags /\ value' = value
  BY DEF OperandsBegin, DashDash, Informs, main
<1>5. FlagsFrom(Uses(S)) /\ \A s \in Slot : ValueFrom(Uses(S), s)
  BY <1>3 DEF Gives, FlagsFrom, ValueFrom
<1>6. CASE OperandsBegin \/ DashDash
  <2>1. EndsThere(word) /\ word' = First(word)
    <3>1. \A w : ~Dashed(w) \/ Short(w) => w # "--"
      BY WordAssumption DEF Dashed, Short, Long
    <3>2. CASE OperandsBegin
      <4>1. word' = word /\ (word = argc \/ ~Dashed(Arg(word)) \/ (Short(Arg(word)) /\ Options = <<>>))
        BY <3>2 DEF OperandsBegin
      <4> QED  BY <3>1, <4>1 DEF EndsThere, First
    <3>3. CASE DashDash
      <4>1. word' = word + 1 /\ word # argc /\ Arg(word) = "--"
        BY <1>1, <1>2, <3>3 DEF DashDash, AtLong
      <4> QED  BY <4>1 DEF EndsThere, First
    <3> QED  BY <1>6, <3>2, <3>3
  <2>2. PICK end \in 1..argc : Reading(S, end) /\ EndsThere(end) /\ word' = First(end)
    BY <1>2, <1>3, <2>1
  <2>3. \A e : Reading(S, e)' <=> Reading(S, e)
    BY <1>4, SameWords
  <2>4. /\ Reading(S, end)' /\ EndsThere(end)' /\ word' = First(end)'
        /\ argc' = argc
    BY <1>4, <2>2, SameWords
  <2>5. \A f, v : f = flags /\ v = value => Gives(f, v, Uses(S))'
    <3>1. \A U, f, v : Gives(f, v, U)' <=> Gives(f, v, U)
      BY <1>4, SameWords
    <3>2. Uses(S)' = Uses(S)
      BY <1>4, SameWords
    <3> QED  BY <1>3, <3>1, <3>2
  <2>6. FlagsFrom(Uses(S))' /\ \A s \in Slot : ValueFrom(Uses(S), s)'
    BY <1>4, <2>5 DEF Gives, FlagsFrom, ValueFrom
  <2>7. at' = "run"
    BY <1>6 DEF OperandsBegin, DashDash
  <2> QED
    BY <1>1, <2>4, <2>6, <2>7 DEF ReadInv, ReadAsParsed
<1>7. CASE Informs
  <2>1. word' = word /\ at' = "informed" /\ AsksForInformation(word)
    BY <1>7 DEF Informs, AtLong, AsksForInformation
  <2>2. \A e : e = word => Reading(S, e)' /\ AsksForInformation(e)' /\ argc' = argc
    BY <1>3, <1>4, <2>1, SameWords
  <2>3. \A e : e = word' => (AsksForInformation(e) /\ \E T \in SUBSET (1..argc) : Reading(T, e))'
    BY <2>1, <2>2
  <2> QED
    BY <1>1, <2>1, <2>3 DEF ReadInv, ReadAsParsed
<1> QED  BY <1>6, <1>7

\* What is refused: the word at hand is no option and no end, and every reading comes to it.
LEMMA ReadRefused ==
  ReadInv /\ (LongUnknown \/ LongBadValue \/ LetterUnknown \/ LetterBadValue) => ReadInv'
<1> SUFFICES ASSUME ReadInv, LongUnknown \/ LongBadValue \/ LetterUnknown \/ LetterBadValue
             PROVE  ReadInv'
  OBVIOUS
<1>1. Inv /\ Inv' /\ argc \in Nat /\ cmd \in 0..Len(Commands)
  BY ParseStep DEF ReadInv, Inv, TypeOK, argc
<1>2. at \in {"word", "letters"} /\ word \in 1..argc /\ word < argc
  BY <1>1 DEF Inv, TypeOK, LongUnknown, LongBadValue, LetterUnknown, LetterBadValue, AtLong, AtLetter
<1>3. args' = args /\ cmd' = cmd /\ at' = "refused"
  BY DEF LongUnknown, LongBadValue, LetterUnknown, LetterBadValue, main
<1>4. PassesBy(word) /\ (at = "letters" => Options # <<>>)
  BY <1>2 DEF ReadInv, AtWord, AtLetterOf
<1>5. ~IsOption(word) /\ ~Final(word)
  <2>1. \A w : ~(Short(w) /\ Long(w)) /\ (w \in {"--"} \cup Information => Long(w))
    BY WordAssumption DEF Short, Long
  <2>2. CASE LongUnknown \/ LongBadValue
    <3>1. Long(Arg(word)) /\ Arg(word) \notin {"--"} \cup Information
      BY <2>2 DEF LongUnknown, LongBadValue, AtLong, OptionWord
    <3>2. ~Final(word)
      BY <1>2, <2>1, <3>1 DEF Final, EndsThere, AsksForInformation, Dashed
    <3>3. CASE LongUnknown
      <4>1. \A g \in NamedAt(word) : FALSE
        BY <2>1, <3>1, <3>3 DEF LongUnknown, NamedAt
      <4> QED  BY <2>1, <3>1, <3>2, <4>1 DEF IsOption
    <3>4. CASE LongBadValue
      <4>1. PICK j \in DOMAIN Options :
              /\ IsName(j, LongName[Arg(word)]) /\ Options[j].value # NULL
              /\ ~IsFit(Options[j].arg_type, TextOf(word))
        BY <3>4 DEF LongBadValue
      <4>2. <<1, j>> \in NamedAt(word)
        BY <1>1, <3>1, <4>1, GivenLong
      <4>3. Valued(<<1, j>>) /\ ~IsFit(Options[<<1, j>>[2]].arg_type, TextOf(word))
        BY <4>1 DEF Valued
      <4> QED  BY <3>2, <4>2, <4>3 DEF IsOption
    <3> QED  BY <2>2, <3>3, <3>4
  <2>3. CASE LetterUnknown \/ LetterBadValue
    <3>1. Short(Arg(word)) /\ Options # <<>> /\ letter \in DOMAIN Letters[Arg(word)]
      <4>1. at = "letters" /\ letter <= Len(Letters[Arg(word)])
        BY <2>3 DEF LetterUnknown, LetterBadValue, AtLetter
      <4>2. Short(Arg(word)) /\ letter \in 1..(Len(Letters[Arg(word)]) + 1)
        BY <1>1, <4>1 DEF Inv, TypeOK
      <4> QED  BY <1>4, <4>1, <4>2, WordAssumption DEF Short
    <3>2. ~Final(word)
      BY <1>2, <2>1, <3>1 DEF Final, EndsThere, AsksForInformation, Dashed
    <3>3. CASE LetterUnknown
      <4>1. \A j \in DOMAIN Options : ~IsLetter(j, Letters[Arg(word)][letter])
        BY <3>3 DEF LetterUnknown, Letter
      <4>2. \A g \in NamedAt(word) : g[1] # letter
        BY <3>1, <4>1 DEF NamedAt
      <4> QED  BY <3>1, <3>2, <4>2 DEF IsOption
    <3>4. CASE LetterBadValue
      <4>1. PICK j \in DOMAIN Options :
              /\ IsLetter(j, Letters[Arg(word)][letter]) /\ Options[j].value # NULL
              /\ ~IsFit(Options[j].arg_type, NextWord(word))
        BY <3>4 DEF LetterBadValue, Letter
      <4>2. <<letter, j>> \in NamedAt(word)
        BY <1>1, <3>1, <4>1, GivenLetter
      <4>3. TextOf(word) = NextWord(word)
        BY <3>1, WordAssumption DEF TextOf, HasText, Short
      <4>4. Valued(<<letter, j>>) /\ ~IsFit(Options[<<letter, j>>[2]].arg_type, TextOf(word))
        BY <4>1, <4>3 DEF Valued
      <4> QED  BY <3>2, <4>2, <4>4 DEF IsOption
    <3> QED  BY <2>3, <3>3, <3>4
  <2> QED  BY <2>2, <2>3
<1>6. \A S \in SUBSET (1..argc), e \in 1..argc : Reading(S, e) => ~Final(e)
  BY <1>4, <1>5, NothingElse
<1>7. \A S \in SUBSET (1..argc), e \in 1..argc :
        Reading(S, e)' => ~(EndsThere(e)' \/ AsksForInformation(e)')
  BY <1>3, <1>6, SameWords DEF Final
<1>8. argc' = argc
  BY <1>3, SameWords
<1> QED
  BY <1>1, <1>3, <1>7, <1>8 DEF ReadInv, ReadAsParsed

\* An option with a long name becomes part of the reading.
LEMMA ReadLong == ReadInv /\ (LongFlag \/ LongValue) => ReadInv'
<1> SUFFICES ASSUME ReadInv, LongFlag \/ LongValue PROVE ReadInv'
  OBVIOUS
<1>1. Inv /\ Inv' /\ argc \in Nat /\ cmd \in 0..Len(Commands) /\ DOMAIN value = Slot
  BY TakeStep DEF ReadInv, Inv, TypeOK, argc
<1>2. at = "word" /\ word \in 1..argc /\ word < argc /\ Long(Arg(word)) /\ OptionWord
  BY <1>1 DEF Inv, TypeOK, LongFlag, LongValue, AtLong
<1>3. args' = args /\ cmd' = cmd /\ at' = "word"
  BY <1>2 DEF LongFlag, LongValue, main
<1>4. PassesBy(word)
  BY <1>2 DEF ReadInv, AtWord
<1>5. PICK S \in SUBSET (1..argc) : Reading(S, word) /\ Gives(flags, value, Uses(S))
  BY <1>2 DEF ReadInv, AtWord
<1>6. PICK j \in DOMAIN Options :
        /\ IsName(j, LongName[Arg(word)])
        /\ flags' = flags \cup Options[j].flags
        /\ Options[j].value # NULL => IsFit(Options[j].arg_type, TextOf(word))
        /\ value' = IF Options[j].value = NULL THEN value
                    ELSE [value EXCEPT ![Options[j].value] =
                            Converted(Options[j].arg_type, TextOf(word))]
        /\ word' = IF Options[j].value # NULL /\ ~HasText(word) THEN word + 2 ELSE word + 1
  <2>1. CASE LongFlag
    BY <2>1 DEF LongFlag
  <2>2. CASE LongValue
    BY <2>2 DEF LongValue, Assign
  <2> QED  BY <2>1, <2>2
<1> DEFINE a == <<word, <<1, j>>>>
<1>7. NamedAt(word) = {<<1, j>>} /\ (Valued(<<1, j>>) <=> Options[j].value # NULL)
  BY <1>1, <1>2, <1>6, GivenLong DEF Valued
<1>8. IsOption(word) /\ word' = After(word)
  <2>1. ~Short(Arg(word))
    BY <1>2, WordAssumption DEF Short, Long
  <2> QED  BY <1>2, <1>6, <1>7, <2>1 DEF IsOption, After, OptionWord, Valued
<1>9. PassesBy(word')
  BY <1>1, <1>4, <1>8, PassOn
<1>10. /\ S \cup {word} \in SUBSET (1..argc) /\ Reading(S \cup {word}, word')
       /\ Uses(S \cup {word}) = Uses(S) \cup {a}
  <2>1. /\ S \cup {word} \in SUBSET (1..argc) /\ Reading(S \cup {word}, After(word))
        /\ Uses(S \cup {word}) = Uses(S) \cup {<<word, g>> : g \in NamedAt(word)}
    BY <1>1, <1>2, <1>5, <1>8, Extend
  <2>2. {<<word, g>> : g \in NamedAt(word)} = {a}
    BY <1>7
  <2> QED  BY <1>8, <2>1, <2>2
<1>11. Gives(flags', value', Uses(S) \cup {a})
  <2>1. Used(a) = Options[j] /\ a[1] = word
    BY DEF Used
  <2>2. \A b \in Uses(S) : NotAfter(b, a)
    BY <1>1, <1>2, <1>5, UsesBefore, 1 \in Nat
  <2>3. NotAfter(a, a)
    BY DEF NotAfter
  <2>4. Options[j].value \in Slot \cup {NULL} /\ NULL \notin Slot
    BY <1>1, OptionOK, WordAssumption
  <2> HIDE DEF a
  <2> QED
    BY <1>1, <1>5, <1>6, <2>1, <2>2, <2>3, <2>4, UseGives
<1>12. \A k, f, v : k = word' /\ f = flags' /\ v = value' => AtWord(k, f, v)
  BY <1>9, <1>10, <1>11 DEF AtWord
<1>13. \A k, f, v : k = word' /\ f = flags' /\ v = value' => AtWord(k, f, v)'
  BY <1>3, <1>12, SameWords
<1> QED
  BY <1>1, <1>3, <1>13 DEF ReadInv, ReadAsParsed

\* parse_short_opt begins a word.
LEMMA ReadLettersBegin == ReadInv /\ LettersBegin => ReadInv'
<1> SUFFICES ASSUME ReadInv, LettersBegin PROVE ReadInv'
  OBVIOUS
<1>1. Inv'
  BY ParseStep DEF ReadInv
<1>2. /\ args' = args /\ cmd' = cmd /\ at = "word" /\ at' = "letters"
      /\ word' = word /\ letter' = 1 /\ skip_next' = 0 /\ flags' = flags /\ value' = value
      /\ Options # <<>>
  BY DEF LettersBegin, main
<1>3. AtWord(word, flags, value)
  BY <1>2 DEF ReadInv
<1>4. \A g \in NamedAt(word) : ~(g[1] < 1)
  BY GivenOK
<1>5. UsesUpTo(word, 1) = {} /\ ~TakesNext(word, 1) /\ LettersFit(word, 1)
  BY <1>4 DEF UsesUpTo, TakesNext, LettersFit
<1>6. AtLetterOf(word, 1, 0, flags, value)
  BY <1>2, <1>3, <1>5 DEF AtWord, AtLetterOf
<1>7. \A k, n, skip, f, v :
        k = word /\ n = 1 /\ skip = 0 /\ f = flags /\ v = value => AtLetterOf(k, n, skip, f, v)'
  BY <1>2, <1>6, SameWords
<1> QED
  BY <1>1, <1>2, <1>7 DEF ReadInv, ReadAsParsed

\* A letter becomes part of it.
LEMMA ReadLetter == ReadInv /\ (LetterFlag \/ LetterValue) => ReadInv'
<1> SUFFICES ASSUME ReadInv, LetterFlag \/ LetterValue PROVE ReadInv'
  OBVIOUS
<1>1. Inv /\ Inv' /\ argc \in Nat /\ cmd \in 0..Len(Commands) /\ DOMAIN value = Slot
  BY TakeStep DEF ReadInv, Inv, TypeOK, argc
<1>2. at = "letters" /\ letter <= Len(Letters[Arg(word)]) /\ word' = word /\ letter' = letter + 1
  BY DEF LetterFlag, LetterValue, AtLetter
<1>3. args' = args /\ cmd' = cmd /\ at' = "letters"
  BY <1>2 DEF LetterFlag, LetterValue, main
<1>4. word \in 1..argc /\ Short(Arg(word)) /\ letter \in DOMAIN Letters[Arg(word)] /\ letter \in Nat
  <2>1. word \in 1..argc /\ Short(Arg(word)) /\ letter \in 1..(Len(Letters[Arg(word)]) + 1)
    BY <1>1, <1>2 DEF Inv, TypeOK
  <2> QED  BY <1>2, <2>1, WordAssumption DEF Short
<1>5. AtLetterOf(word, letter, skip_next, flags, value)
  BY <1>2 DEF ReadInv
<1>6. PICK S \in SUBSET (1..argc) :
        Reading(S, word) /\ Gives(flags, value, Uses(S) \cup UsesUpTo(word, letter))
  BY <1>5 DEF AtLetterOf
<1>7. TextOf(word) = NextWord(word)
  BY <1>4, WordAssumption DEF TextOf, HasText, Short
<1>8. PICK j \in DOMAIN Options :
        /\ IsLetter(j, Letters[Arg(word)][letter])
        /\ flags' = flags \cup Options[j].flags
        /\ Options[j].value # NULL => IsFit(Options[j].arg_type, TextOf(word))
        /\ value' = IF Options[j].value = NULL THEN value
                    ELSE [value EXCEPT ![Options[j].value] =
                            Converted(Options[j].arg_type, TextOf(word))]
        /\ skip_next' = IF Options[j].value # NULL THEN 1 ELSE skip_next
  <2>1. CASE LetterFlag
    BY <2>1 DEF LetterFlag, Letter
  <2>2. CASE LetterValue
    BY <1>7, <2>2 DEF LetterValue, Letter, Assign
  <2> QED  BY <2>1, <2>2
<1> DEFINE a == <<word, <<letter, j>>>>
<1>9. /\ LettersFit(word, letter + 1)
      /\ UsesUpTo(word, letter + 1) = UsesUpTo(word, letter) \cup {a}
      /\ TakesNext(word, letter + 1) <=> TakesNext(word, letter) \/ Options[j].value # NULL
  BY <1>1, <1>4, <1>5, <1>8, NextLetter DEF AtLetterOf
<1>10. Gives(flags', value', (Uses(S) \cup UsesUpTo(word, letter)) \cup {a})
  <2>1. Used(a) = Options[j] /\ a[1] = word
    BY DEF Used
  <2>2. \A b \in Uses(S) \cup UsesUpTo(word, letter) : NotAfter(b, a)
    BY <1>1, <1>4, <1>6, UsesBefore
  <2>3. NotAfter(a, a)
    BY <1>4 DEF NotAfter
  <2>4. Options[j].value \in Slot \cup {NULL} /\ NULL \notin Slot
    BY <1>1, OptionOK, WordAssumption
  <2> HIDE DEF a
  <2> QED
    BY <1>1, <1>6, <1>8, <2>1, <2>2, <2>3, <2>4, UseGives
<1>11. skip_next' = IF TakesNext(word, letter + 1) THEN 1 ELSE 0
  BY <1>5, <1>8, <1>9 DEF AtLetterOf
<1>12. (Uses(S) \cup UsesUpTo(word, letter)) \cup {a} = Uses(S) \cup UsesUpTo(word, letter + 1)
  BY <1>9
<1>13. AtLetterOf(word, letter + 1, skip_next', flags', value')
  BY <1>5, <1>6, <1>9, <1>10, <1>11, <1>12 DEF AtLetterOf
<1>14. \A k, n, skip, f, v :
         k = word' /\ n = letter' /\ skip = skip_next' /\ f = flags' /\ v = value' =>
           AtLetterOf(k, n, skip, f, v)'
  BY <1>2, <1>3, <1>13, SameWords
<1> QED
  BY <1>1, <1>3, <1>14 DEF ReadInv, ReadAsParsed

\* The word has ended, and with it an option of the reading.
LEMMA ReadLettersEnd == ReadInv /\ LettersEnd => ReadInv'
<1> SUFFICES ASSUME ReadInv, LettersEnd PROVE ReadInv'
  OBVIOUS
<1>1. Inv /\ Inv' /\ argc \in Nat
  BY ParseStep DEF ReadInv, argc
<1>2. /\ args' = args /\ cmd' = cmd /\ at = "letters" /\ at' = "word"
      /\ word' = word + 1 + skip_next /\ flags' = flags /\ value' = value
      /\ letter > Len(Letters[Arg(word)])
  BY DEF LettersEnd, main
<1>3. word \in 1..argc /\ word < argc /\ Short(Arg(word)) /\ letter \in Nat
  BY <1>1, <1>2 DEF Inv, TypeOK
<1>4. AtLetterOf(word, letter, skip_next, flags, value)
  BY <1>2 DEF ReadInv
<1>5. PICK S \in SUBSET (1..argc) :
        Reading(S, word) /\ Gives(flags, value, Uses(S) \cup UsesUpTo(word, letter))
  BY <1>4 DEF AtLetterOf
<1>6. /\ IsOption(word) /\ UsesUpTo(word, letter) = {<<word, g>> : g \in NamedAt(word)}
      /\ After(word) = IF TakesNext(word, letter) THEN word + 2 ELSE word + 1
  BY <1>1, <1>2, <1>3, <1>4, LastLetter DEF AtLetterOf
<1>7. word' = After(word)
  BY <1>2, <1>3, <1>4, <1>6 DEF AtLetterOf
<1>8. /\ S \cup {word} \in SUBSET (1..argc) /\ Reading(S \cup {word}, word')
      /\ Uses(S \cup {word}) = Uses(S) \cup UsesUpTo(word, letter)
  BY <1>1, <1>3, <1>5, <1>6, <1>7, Extend
<1>9. PassesBy(word')
  BY <1>1, <1>4, <1>6, <1>7, PassOn DEF AtLetterOf
<1>10. AtWord(word', flags', value')
  BY <1>2, <1>5, <1>8, <1>9 DEF AtWord
<1>11. \A k, f, v : k = word' /\ f = flags' /\ v = value' => AtWord(k, f, v)'
  BY <1>2, <1>10, SameWords
<1> QED
  BY <1>1, <1>2, <1>11 DEF ReadInv, ReadAsParsed

LEMMA ReadStep == ReadInv /\ [OptNext]_optVars => ReadInv'
<1> SUFFICES ASSUME ReadInv, [OptNext]_optVars PROVE ReadInv'
  OBVIOUS
<1>1. CASE UNCHANGED optVars
  <2>1. Inv'
    BY <1>1, StepInv DEF ReadInv
  <2>2. /\ args' = args /\ cmd' = cmd /\ at' = at /\ word' = word /\ letter' = letter
        /\ skip_next' = skip_next /\ flags' = flags /\ value' = value
    BY <1>1 DEF optVars
  <2>3. at' = "word" => AtWord(word, flags, value)'
    <3>1. \A k, f, v : k = word' /\ f = flags' /\ v = value' /\ AtWord(k, f, v) => AtWord(k, f, v)'
      BY <2>2, SameWords
    <3> QED  BY <2>2, <3>1 DEF ReadInv
  <2>4. at' = "letters" => AtLetterOf(word, letter, skip_next, flags, value)'
    <3>1. \A k, n, skip, f, v :
            /\ k = word' /\ n = letter' /\ skip = skip_next' /\ f = flags' /\ v = value'
            /\ AtLetterOf(k, n, skip, f, v)
            => AtLetterOf(k, n, skip, f, v)'
      BY <2>2, SameWords
    <3> QED  BY <2>2, <3>1 DEF ReadInv
  <2>5. ReadAsParsed'
    <3>1. ReadAsParsed
      BY DEF ReadInv
    <3>2. \A S, e : /\ argc' = argc /\ (Reading(S, e)' <=> Reading(S, e))
                   /\ (EndsThere(e)' <=> EndsThere(e)) /\ First(e)' = First(e)
                   /\ (AsksForInformation(e)' <=> AsksForInformation(e))
      BY <2>2, SameWords
    <3>3. Parses(cmd)' <=> Parses(cmd)
      BY <2>2 DEF Parses
    <3>4. \A S : /\ FlagsFrom(Uses(S))' <=> FlagsFrom(Uses(S))
                /\ \A s \in Slot : ValueFrom(Uses(S), s)' <=> ValueFrom(Uses(S), s)
      <4>1. \A S : Uses(S)' = Uses(S)
        BY <2>2, SameWords
      <4>2. \A a : Used(a)' = Used(a)
        BY <2>2 DEF Used, Options
      <4>3. \A k : TextOf(k)' = TextOf(k)
        BY <2>2 DEF TextOf, HasText, NextWord, Arg, argc
      <4> QED  BY <2>2, <4>1, <4>2, <4>3 DEF FlagsFrom, ValueFrom, NotAfter
    <3>5. at' = "run" /\ Parses(cmd)' =>
            \E S \in SUBSET (1..argc), end \in 1..argc :
              /\ Reading(S, end)' /\ EndsThere(end)' /\ word' = First(end)'
              /\ FlagsFrom(Uses(S))' /\ \A s \in Slot : ValueFrom(Uses(S), s)'
      <4> SUFFICES ASSUME at' = "run", Parses(cmd)'
                   PROVE  \E S \in SUBSET (1..argc), end \in 1..argc :
                            /\ Reading(S, end)' /\ EndsThere(end)' /\ word' = First(end)'
                            /\ FlagsFrom(Uses(S))' /\ \A s \in Slot : ValueFrom(Uses(S), s)'
        OBVIOUS
      <4>1. PICK S \in SUBSET (1..argc), end \in 1..argc :
              /\ Reading(S, end) /\ EndsThere(end) /\ word = First(end)
              /\ FlagsFrom(Uses(S)) /\ \A s \in Slot : ValueFrom(Uses(S), s)
        BY <2>2, <3>1, <3>3 DEF ReadAsParsed
      <4>2. FlagsFrom(Uses(S))' /\ \A s \in Slot : ValueFrom(Uses(S), s)'
        BY <3>4, <4>1
      <4> QED  BY <2>2, <3>2, <4>1, <4>2
    <3>6. at' = "informed" =>
            AsksForInformation(word)' /\ (\E S \in SUBSET (1..argc) : Reading(S, word))'
      <4>1. \A S, e : e = word' => /\ AsksForInformation(e)' <=> AsksForInformation(word)
                               /\ Reading(S, e)' <=> Reading(S, word)
        BY <2>2, <3>2
      <4> QED  BY <2>2, <3>1, <3>2, <4>1 DEF ReadAsParsed
    <3>7. at' = "refused" /\ cmd' # 0 =>
            \A S \in SUBSET (1..argc), end \in 1..argc :
              Reading(S, end)' => ~(EndsThere(end)' \/ AsksForInformation(end)')
      BY <2>2, <3>1, <3>2 DEF ReadAsParsed
    <3> QED  BY <3>2, <3>5, <3>6, <3>7 DEF ReadAsParsed
  <2> QED  BY <2>1, <2>3, <2>4, <2>5 DEF ReadInv
<1>2. CASE OptNext
  BY <1>1, <1>2, ReadSearch, ReadEnd, ReadRefused, ReadLong, ReadLettersBegin, ReadLetter,
     ReadLettersEnd DEF OptNext
<1> QED  BY <1>1, <1>2

\* Where no "-" stands ahead, no reading takes one for an option or ends in front of one.
LEMMA MeantIfParsed == TypeOK /\ ReadAsParsed => ReadsAsMeant
<1> SUFFICES ASSUME TypeOK, ReadAsParsed, ~DashAhead
             PROVE  /\ at = "run" /\ Parses(cmd) =>
                         \E S \in SUBSET (1..argc), end \in 1..argc :
                           /\ Meant(S, end) /\ Stops(end) /\ word = First(end)
                           /\ FlagsFrom(Uses(S)) /\ \A s \in Slot : ValueFrom(Uses(S), s)
                    /\ at = "informed" =>
                         AsksForInformation(word) /\ \E S \in SUBSET (1..argc) : Meant(S, word)
                    /\ at = "refused" /\ cmd # 0 =>
                         \A S \in SUBSET (1..argc), end \in 1..argc :
                           Meant(S, end) => ~(Stops(end) \/ AsksForInformation(end))
  BY DEF ReadsAsMeant
<1>1. argc \in Nat /\ word \in Nat \ {0}
  BY DEF TypeOK, argc
<1>2. ASSUME NEW S \in SUBSET (1..argc), NEW end \in 1..argc, Reading(S, end)
      PROVE  Meant(S, end)
  <2>1. \A k \in S : k \in 1..(argc - 1)
    BY <1>1, <1>2 DEF Reading
  <2> QED  BY <1>2, <2>1 DEF DashAhead, Meant
<1>3. at = "run" /\ Parses(cmd) =>
        \E S \in SUBSET (1..argc), end \in 1..argc :
          /\ Meant(S, end) /\ Stops(end) /\ word = First(end)
          /\ FlagsFrom(Uses(S)) /\ \A s \in Slot : ValueFrom(Uses(S), s)
  BY <1>1, <1>2 DEF ReadAsParsed, EndsThere, Stops
<1>4. ASSUME at = "informed"
      PROVE  AsksForInformation(word) /\ \E S \in SUBSET (1..argc) : Meant(S, word)
  <2>1. PICK S \in SUBSET (1..argc) : AsksForInformation(word) /\ Reading(S, word)
    BY <1>4 DEF ReadAsParsed
  <2>2. word < argc /\ word \in 1..argc
    BY <1>1, <2>1 DEF AsksForInformation
  <2> QED  BY <1>2, <2>1, <2>2
<1>5. ASSUME at = "refused", cmd # 0, NEW S \in SUBSET (1..argc), NEW end \in 1..argc, Meant(S, end)
      PROVE  ~(Stops(end) \/ AsksForInformation(end))
  <2>1. Reading(S, end) /\ ~EndsThere(end) /\ ~AsksForInformation(end)
    BY <1>5 DEF Meant, ReadAsParsed
  <2>2. end # argc /\ end \in 1..(argc - 1) /\ (Short(Arg(end)) => Options # <<>>)
    BY <1>1, <2>1 DEF EndsThere
  <2>3. ASSUME LoneDash(end) PROVE FALSE
    <3>1. Letters[Arg(end)] = <<>> /\ Short(Arg(end)) /\ DOMAIN Letters[Arg(end)] = {}
      BY <2>3 DEF LoneDash
    <3>2. NamedAt(end) = {}
      BY <3>1 DEF NamedAt
    <3>3. IsOption(end)
      <4>1. end < argc /\ Options # <<>>
        BY <1>1, <2>2, <3>1
      <4> QED  BY <3>1, <3>2, <4>1 DEF IsOption
    <3>4. ~HasText(end)
      BY <3>1, WordAssumption DEF HasText, Short
    <3>5. After(end) = end + 1
      BY <3>2, <3>4 DEF After
    <3>6. S \cup {end} \in SUBSET (1..argc) /\ Reading(S \cup {end}, end + 1)
      BY <1>1, <2>1, <3>3, <3>5, Extend
    <3>7. end + 1 \in 1..argc
      BY <1>1, <2>2
    <3> QED  BY <1>5, <2>2, <2>3, <3>6, <3>7 DEF DashAhead
  <2> QED  BY <2>1, <2>3 DEF Stops, EndsThere
<1> QED  BY <1>3, <1>4, <1>5

\* ReadsAsMeant for every table and every command line on which no "-" is taken for an
\* option: what parse_opts (line 234) hands over is what the words mean, and it refuses only
\* what means nothing.
THEOREM LineIsRead == OptSpec => []ReadsAsMeant
<1>1. ReadInv => ReadsAsMeant
  BY MeantIfParsed DEF ReadInv, Inv
<1> QED  BY <1>1, ReadInit, ReadStep, PTL DEF OptSpec

-------------------------------------------------------------------------------
(***************************************************************************)
(* Pipeline.                                                               *)
(***************************************************************************)
(***************************************************************************)
(* Sequences of whatever: nothing here depends on what is in the pipes.    *)
(***************************************************************************)
LEMMA SeqFacts ==
  ASSUME NEW s, IsSeq(s)
  PROVE  /\ Len(s) \in Nat /\ DOMAIN s = 1..Len(s) /\ s = [i \in 1..Len(s) |-> s[i]]
         /\ s = <<>> <=> Len(s) = 0
BY DEF IsSeq

LEMMA SeqOfAny == ASSUME NEW S, NEW s \in Seq(S) PROVE IsSeq(s)
<1>1. Len(s) \in Nat /\ s \in [1..Len(s) -> ToSet(s)]
  BY DEF ToSet
<1> QED  BY <1>1 DEF IsSeq

LEMMA EmptyIsSeq == IsSeq(<<>>)
BY DEF IsSeq

LEMMA OneIsSeq == ASSUME NEW e PROVE IsSeq(<<e>>) /\ Len(<<e>>) = 1 /\ <<e>>[1] = e /\ <<e>> # <<>>
<1>1. <<e>> \in Seq({e})
  OBVIOUS
<1> QED  BY <1>1, SeqOfAny

LEMMA TwoIsSeq == ASSUME NEW d, NEW e PROVE IsSeq(<<d, e>>) /\ Len(<<d, e>>) = 2
<1>1. <<d, e>> \in Seq({d, e})
  OBVIOUS
<1> QED  BY <1>1, SeqOfAny

\* Two sequences have their elements in one set.
LEMMA SameSet ==
  ASSUME NEW s, NEW t, IsSeq(s), IsSeq(t)
  PROVE  s \in Seq(ToSet(s) \cup ToSet(t)) /\ t \in Seq(ToSet(s) \cup ToSet(t))
BY DEF IsSeq

LEMMA SeqsEqual ==
  ASSUME NEW s, NEW t, IsSeq(s), IsSeq(t), Len(s) = Len(t), \A i \in 1..Len(s) : s[i] = t[i]
  PROVE  s = t
BY SameSet, SeqEqual

LEMMA JoinFacts ==
  ASSUME NEW s, NEW t, IsSeq(s), IsSeq(t)
  PROVE  /\ IsSeq(s \o t) /\ Len(s \o t) = Len(s) + Len(t)
         /\ \A i \in 1..Len(s) : (s \o t)[i] = s[i]
         /\ \A i \in 1..Len(t) : (s \o t)[Len(s) + i] = t[i]
<1>1. /\ Len(s) \in Nat /\ Len(t) \in Nat
  BY SeqFacts
<1>2. /\ s \o t \in Seq(ToSet(s) \cup ToSet(t)) /\ Len(s \o t) = Len(s) + Len(t)
      /\ \A i \in 1..Len(s) + Len(t) : (s \o t)[i] = IF i <= Len(s) THEN s[i] ELSE t[i - Len(s)]
  BY SameSet, ConcatProperties
<1>3. IsSeq(s \o t)
  BY <1>2, SeqOfAny
<1> DEFINE r == s \o t
<1> HIDE DEF r
<1>4. /\ \A i \in 1..Len(s) : r[i] = s[i]
      /\ \A i \in 1..Len(t) : r[Len(s) + i] = t[i]
  BY <1>1, <1>2 DEF r
<1> QED  BY <1>2, <1>3, <1>4 DEF r

LEMMA PartFacts ==
  ASSUME NEW s, NEW m \in Int, NEW n \in Int
  PROVE  /\ IsSeq(SubSeq(s, m, n)) /\ Len(SubSeq(s, m, n)) = IF m <= n THEN n - m + 1 ELSE 0
         /\ \A i \in 1..(n - m + 1) : SubSeq(s, m, n)[i] = s[m + i - 1]
<1>1. \A i \in m..n : s[i] \in {s[j] : j \in m..n}
  OBVIOUS
<1>2. /\ SubSeq(s, m, n) \in Seq({s[j] : j \in m..n})
      /\ Len(SubSeq(s, m, n)) = IF m <= n THEN n - m + 1 ELSE 0
      /\ \A i \in 1..(n - m + 1) : SubSeq(s, m, n)[i] = s[m + i - 1]
  BY <1>1, SubSeqProperties
<1> QED  BY <1>2, SeqOfAny

LEMMA PartIsSeq == ASSUME NEW s, NEW m \in Int, NEW n \in Int PROVE IsSeq(SubSeq(s, m, n))
BY PartFacts

LEMMA MoreFacts ==
  ASSUME NEW s, NEW e, IsSeq(s)
  PROVE  /\ IsSeq(Append(s, e)) /\ Len(Append(s, e)) = Len(s) + 1
         /\ Append(s, e)[Len(s) + 1] = e /\ \A i \in 1..Len(s) : Append(s, e)[i] = s[i]
<1>1. s \in Seq(ToSet(s) \cup {e}) /\ Len(s) \in Nat
  BY SeqFacts DEF IsSeq
<1>2. Append(s, e) \in Seq(ToSet(s) \cup {e})
  BY <1>1
<1>3. IsSeq(Append(s, e))
  BY <1>2, SeqOfAny
<1>4. /\ Len(Append(s, e)) = Len(s) + 1
      /\ Append(s, e)[Len(s) + 1] = e /\ \A i \in 1..Len(s) : Append(s, e)[i] = s[i]
  BY <1>1
<1> QED  BY <1>3, <1>4

LEMMA ReplaceFacts ==
  ASSUME NEW s, NEW i, NEW e, NEW t, IsSeq(s), i \in 1..Len(s), t = [s EXCEPT ![i] = e]
  PROVE  IsSeq(t) /\ Len(t) = Len(s) /\ t[i] = e /\ \A j \in 1..Len(s) \ {i} : t[j] = s[j]
<1>1. s \in Seq(ToSet(s) \cup {e}) /\ Len(s) \in Nat /\ DOMAIN s = 1..Len(s)
  BY SeqFacts DEF IsSeq
<1>2. t \in Seq(ToSet(s) \cup {e}) /\ Len(t) = Len(s)
  BY <1>1
<1>3. t[i] = e /\ \A j \in 1..Len(s) \ {i} : t[j] = s[j]
  BY <1>1
<1>4. IsSeq(t)
  BY <1>2, SeqOfAny
<1> QED  BY <1>2, <1>3, <1>4

LEMMA TailFacts ==
  ASSUME NEW s, IsSeq(s), s # <<>>
  PROVE  /\ Len(s) >= 1 /\ Head(s) = s[1]
         /\ IsSeq(Tail(s)) /\ Len(Tail(s)) = Len(s) - 1 /\ \A i \in 1..Len(Tail(s)) : Tail(s)[i] = s[i + 1]
<1>1. s \in Seq(ToSet(s))
  BY DEF IsSeq
<1>2. Tail(s) \in Seq(ToSet(s))
  BY <1>1
<1>3. IsSeq(Tail(s))
  BY <1>2, SeqOfAny
<1>4. Len(s) >= 1 /\ Head(s) = s[1] /\ Len(Tail(s)) = Len(s) - 1 /\ \A i \in 1..Len(Tail(s)) : Tail(s)[i] = s[i + 1]
  BY <1>1
<1> QED  BY <1>3, <1>4

\* The values that a loop goes through need not be in one set.
Digests(h, p, m, bytes) ==
  /\ h[{}] = m /\ DigestBytes(p, m, bytes) = h[1..Len(bytes)]
  /\ \A k \in 1..Len(bytes) : h[1..k] = DigestByte(p, h[1..k \ {k}], bytes[k])

LEMMA DigestFoldIs ==
  ASSUME NEW p, NEW m, NEW bytes, IsSeq(bytes)
  PROVE  \E h : Digests(h, p, m, bytes)
<1> DEFINE n == Len(bytes)
           Rec(k, g) == [s \in SUBSET (1..k) |-> IF s = {} THEN m ELSE DigestByte(p, g[s \ {Max(s)}], bytes[Max(s)])]
           T == {k \in Nat : \E g : g = Rec(k, g)}
<1>0. n \in Nat /\ DOMAIN bytes = 1..n
  BY SeqFacts
<1>1. 0 \in T
  <2> DEFINE g == [s \in SUBSET (1..0) |-> m]
  <2>1. g = Rec(0, g)
    OBVIOUS
  <2> QED  BY <2>1
<1>2. ASSUME NEW k \in Nat, k \in T PROVE k + 1 \in T
  <2>1. PICK f : f = Rec(k, f)
    BY <1>2
  <2> DEFINE g == [s \in SUBSET (1..(k + 1)) |->
                     IF k + 1 \in s THEN DigestByte(p, f[s \ {k + 1}], bytes[k + 1]) ELSE f[s]]
  <2>2. ASSUME NEW s \in SUBSET (1..(k + 1))
        PROVE  g[s] = IF s = {} THEN m ELSE DigestByte(p, g[s \ {Max(s)}], bytes[Max(s)])
    <3>1. CASE k + 1 \in s
      <4>1. Max(s) = k + 1
        BY <3>1, LastIndex
      <4>2. s \ {k + 1} \in SUBSET (1..(k + 1)) /\ k + 1 \notin s \ {k + 1}
        OBVIOUS
      <4>3. g[s \ {k + 1}] = f[s \ {k + 1}]
        BY <4>2
      <4>4. g[s] = DigestByte(p, f[s \ {k + 1}], bytes[k + 1])
        BY <3>1
      <4> HIDE DEF g
      <4> QED  BY <3>1, <4>1, <4>3, <4>4
    <3>2. CASE k + 1 \notin s /\ s # {}
      <4>0. ASSUME NEW i \in s PROVE i \in 1..k
        BY <3>2
      <4>1. s \in SUBSET (1..k) /\ s \ {Max(s)} \in SUBSET (1..k)
        BY <4>0
      <4>2. f[s] = DigestByte(p, f[s \ {Max(s)}], bytes[Max(s)])
        BY <2>1, <3>2, <4>1
      <4>3. k + 1 \notin s \ {Max(s)} /\ s \ {Max(s)} \in SUBSET (1..(k + 1))
        BY <3>2
      <4>4. g[s] = f[s] /\ g[s \ {Max(s)}] = f[s \ {Max(s)}]
        BY <3>2, <4>3
      <4> HIDE DEF g
      <4> QED  BY <3>2, <4>2, <4>4
    <3>3. CASE s = {}
      <4>1. {} \in SUBSET (1..k)
        OBVIOUS
      <4>2. f[{}] = m
        BY <2>1, <4>1
      <4> QED  BY <3>3, <4>2
    <3> QED  BY <3>1, <3>2, <3>3
  <2>3. g = Rec(k + 1, g)
    <3>1. g = [s \in SUBSET (1..(k + 1)) |-> g[s]]
      OBVIOUS
    <3> HIDE DEF g
    <3> QED  BY <2>2, <3>1
  <2> HIDE DEF g, Rec
  <2> QED  BY <2>3
<1>3. n \in T
  <2> HIDE DEF T
  <2> QED  BY <1>0, <1>1, <1>2, InductionOnSet
<1> DEFINE h == CHOOSE g : g = Rec(n, g)
<1>4. h = Rec(n, h)
  <2> HIDE DEF Rec
  <2>1. \E g : g = Rec(n, g)
    BY <1>3
  <2> QED  BY <2>1
<1>5. DigestBytes(p, m, bytes) = h[1..n]
  BY <1>0 DEF DigestBytes, FoldLeft, MapThenFoldSet
<1> HIDE DEF h, n
<1>6. h[{}] = m
  BY <1>4
<1>7. ASSUME NEW k \in 1..n PROVE h[1..k] = DigestByte(p, h[1..k \ {k}], bytes[k])
  <2>1. 1..k \in SUBSET (1..n) /\ 1..k # {} /\ k \in Nat
    <3>1. k \in Nat /\ k \in 1..k /\ \A i \in 1..k : i \in 1..n
      BY <1>0
    <3> QED  BY <3>1
  <2>2. Max(1..k) = k
    <3> DEFINE j == k - 1
    <3>1. j \in Nat /\ k = j + 1
      BY <1>0
    <3> HIDE DEF j
    <3>2. 1..(j + 1) \in SUBSET (1..(j + 1)) /\ j + 1 \in 1..(j + 1)
      BY <3>1
    <3> QED  BY <3>1, <3>2, LastIndex
  <2> QED  BY <1>4, <2>1, <2>2
<1> QED  BY <1>5, <1>6, <1>7 DEF n, Digests

\* FlattenSeq joins the parts from left to right.
Flattens(h, parts) ==
  /\ FlattenSeq(parts) = h[Len(parts)] /\ h[1] = parts[1]
  /\ \A k \in 1..(Len(parts) - 1) : h[k + 1] = h[k] \o parts[k + 1]

LEMMA FlattenFold ==
  ASSUME NEW parts, IsSeq(parts), Len(parts) # 0
  PROVE  \E h : Flattens(h, parts)
<1> DEFINE n == Len(parts)
           Rec(k, g) == [i \in 1..k |-> IF i = 1 THEN parts[i] ELSE g[i - 1] \o parts[i]]
           T == {k \in Nat : \E g : g = Rec(k, g)}
<1>0. n \in Nat /\ n # 0
  BY SeqFacts
<1>1. 0 \in T
  <2>1. <<>> = Rec(0, <<>>)
    OBVIOUS
  <2> QED  BY <2>1
<1>2. ASSUME NEW k \in Nat, k \in T PROVE k + 1 \in T
  <2>1. PICK f : f = Rec(k, f)
    BY <1>2
  <2> DEFINE last == IF k + 1 = 1 THEN parts[k + 1] ELSE f[k] \o parts[k + 1]
             g == [i \in 1..(k + 1) |-> IF i = k + 1 THEN last ELSE f[i]]
  <2>3. ASSUME NEW i \in 1..(k + 1) PROVE g[i] = IF i = 1 THEN parts[i] ELSE g[i - 1] \o parts[i]
    <3>1. CASE i = k + 1
      <4>1. CASE k = 0
        BY <3>1, <4>1
      <4>2. CASE k # 0
        <5>1. g[k] = f[k] /\ i # 1 /\ i - 1 = k
          BY <3>1, <4>2
        <5>2. g[i] = f[k] \o parts[k + 1]
          <6>1. g[i] = last
            BY <3>1
          <6>2. k + 1 # 1
            BY <4>2
          <6>3. last = f[k] \o parts[k + 1]
            BY <6>2
          <6> QED  BY <6>1, <6>3
        <5> HIDE DEF g
        <5> QED  BY <3>1, <5>1, <5>2
      <4> QED  BY <4>1, <4>2
    <3>2. CASE i # k + 1
      <4>1. i \in 1..k
        BY <3>2
      <4>2. f[i] = IF i = 1 THEN parts[i] ELSE f[i - 1] \o parts[i]
        BY <2>1, <4>1
      <4>3. g[i] = f[i] /\ (i # 1 => g[i - 1] = f[i - 1])
        BY <4>1
      <4> HIDE DEF g
      <4> QED  BY <4>2, <4>3
    <3> QED  BY <3>1, <3>2
  <2>4. g = Rec(k + 1, g)
    <3>1. g = [i \in 1..(k + 1) |-> g[i]]
      OBVIOUS
    <3> HIDE DEF g
    <3> QED  BY <2>3, <3>1
  <2> HIDE DEF g, Rec
  <2> QED  BY <2>4
<1>3. n \in T
  <2> HIDE DEF T
  <2> QED  BY <1>0, <1>1, <1>2, InductionOnSet
<1> DEFINE h == CHOOSE g : g = Rec(n, g)
<1>5. h = Rec(n, h)
  <2> HIDE DEF Rec
  <2>1. \E g : g = Rec(n, g)
    BY <1>3
  <2> QED  BY <2>1
<1>7. FlattenSeq(parts) = h[n]
  BY <1>0 DEF FlattenSeq
<1> HIDE DEF h
<1>8. h[1] = parts[1]
  BY <1>0, <1>5
<1>9. ASSUME NEW k \in 1..(n - 1) PROVE h[k + 1] = h[k] \o parts[k + 1]
  <2>1. k + 1 \in 1..n /\ k + 1 # 1 /\ (k + 1) - 1 = k
    BY <1>0
  <2>2. h[k + 1] = IF k + 1 = 1 THEN parts[k + 1] ELSE h[(k + 1) - 1] \o parts[k + 1]
    BY <1>5, <2>1
  <2> QED  BY <2>1, <2>2
<1> QED  BY <1>7, <1>8, <1>9 DEF Flattens

\* The text of many parts is a sequence, too.
LEMMA FlattenFacts ==
  ASSUME NEW parts, IsSeq(parts), \A i \in 1..Len(parts) : IsSeq(parts[i])
  PROVE  IsSeq(FlattenSeq(parts))
<1> DEFINE n == Len(parts)
<1>0. n \in Nat /\ (n = 0 => parts = <<>>)
  BY SeqFacts
<1>1. CASE n = 0
  <2>1. FlattenSeq(parts) = parts
    BY <1>1 DEF FlattenSeq
  <2> QED  BY <2>1
<1>2. CASE n # 0
  <2>1. PICK h : Flattens(h, parts)
    BY <1>2, FlattenFold
  <2> DEFINE S == {k \in Nat : k \in 1..n => IsSeq(h[k])}
  <2>2. 0 \in S
    OBVIOUS
  <2>3. ASSUME NEW k \in Nat, k \in S PROVE k + 1 \in S
    <3> SUFFICES ASSUME k + 1 \in 1..n PROVE IsSeq(h[k + 1])
      OBVIOUS
    <3>1. IsSeq(parts[k + 1])
      OBVIOUS
    <3>2. CASE k = 0
      <4>1. h[1] = parts[1]
        BY <2>1 DEF Flattens
      <4> QED  BY <3>1, <3>2, <4>1
    <3>3. CASE k # 0
      <4>1. k \in 1..n /\ k \in 1..(n - 1)
        BY <1>0, <3>3
      <4>2. h[k + 1] = h[k] \o parts[k + 1]
        BY <2>1, <4>1 DEF Flattens
      <4>3. IsSeq(h[k])
        BY <2>3, <4>1
      <4> QED  BY <3>1, <4>2, <4>3, JoinFacts
    <3> QED  BY <3>2, <3>3
  <2> HIDE DEF S
  <2>4. n \in S
    BY <1>0, <2>2, <2>3, InductionOnSet
  <2>5. IsSeq(h[n])
    BY <1>0, <1>2, <2>4 DEF S
  <2> QED  BY <2>1, <2>5 DEF Flattens
<1> QED  BY <1>1, <1>2

\* The indices in T up to k, from left to right.
Picks(r, T, k) == /\ IsSeq(r) /\ \A j \in 1..Len(r) : r[j] \in T /\ r[j] <= k
                  /\ \A i \in T : i <= k => \E j \in 1..Len(r) : r[j] = i
                  /\ \A i, j \in 1..Len(r) : i < j => r[i] < r[j]

LEMMA PickedFacts ==
  ASSUME NEW n \in Nat, NEW parts, parts = [i \in 1..n |-> parts[i]],
         NEW T \in SUBSET (1..n), \A i \in 1..n : parts[i] = IF i \in T THEN <<i>> ELSE <<>>
  PROVE  Picks(FlattenSeq(parts), T, n)
<1>1. IsSeq(parts) /\ Len(parts) = n
  <2>1. parts \in Seq({parts[i] : i \in 1..n}) /\ Len(parts) = n
    OBVIOUS
  <2> QED  BY <2>1, SeqOfAny
<1>2. CASE n = 0
  <2>1. FlattenSeq(parts) = <<>>
    BY <1>1, <1>2, SeqFacts DEF FlattenSeq
  <2> QED  BY <1>2, <2>1, EmptyIsSeq DEF Picks
<1>3. CASE n # 0
  <2>1. PICK h : Flattens(h, parts)
    BY <1>1, <1>3, FlattenFold
  <2> DEFINE S == {k \in Nat : k \in 1..n => Picks(h[k], T, k)}
  <2>2. 0 \in S
    OBVIOUS
  <2>3. ASSUME NEW k \in Nat, k \in S PROVE k + 1 \in S
    <3> SUFFICES ASSUME k + 1 \in 1..n PROVE Picks(h[k + 1], T, k + 1)
      OBVIOUS
    <3> DEFINE old == IF k = 0 THEN <<>> ELSE h[k]
    <3>1. Picks(old, T, k)
      <4>1. CASE k = 0
        <5>1. \A i \in T : ~(i <= k)
          BY <4>1
        <5> QED  BY <4>1, <5>1, EmptyIsSeq DEF Picks
      <4>2. CASE k # 0
        <5>1. k \in 1..n
          BY <4>2
        <5> QED  BY <2>3, <4>2, <5>1
      <4> QED  BY <4>1, <4>2
    <3>2. h[k + 1] = old \o parts[k + 1]
      <4>1. CASE k = 0
        <5>1. h[1] = parts[1] /\ IsSeq(parts[1])
          BY <1>3, <2>1, EmptyIsSeq, OneIsSeq DEF Flattens
        <5>2. <<>> \o parts[1] = parts[1]
          <6>1. parts[1] \in Seq(ToSet(parts[1]))
            BY <5>1 DEF IsSeq
          <6> QED  BY <6>1
        <5> QED  BY <4>1, <5>1, <5>2
      <4>2. CASE k # 0
        <5>1. k \in 1..(Len(parts) - 1)
          BY <1>1, <4>2
        <5> QED  BY <2>1, <4>2, <5>1 DEF Flattens
      <4> QED  BY <4>1, <4>2
    <3> DEFINE r == h[k + 1]
    <3>3. /\ IsSeq(old) /\ Len(old) \in Nat /\ \A j \in 1..Len(old) : old[j] \in T /\ old[j] <= k
          /\ \A i \in T : i <= k => \E j \in 1..Len(old) : old[j] = i
          /\ \A i, j \in 1..Len(old) : i < j => old[i] < old[j]
      BY <3>1, SeqFacts DEF Picks
    <3> HIDE DEF old
    <3>4. CASE k + 1 \in T
      <4>1. parts[k + 1] = <<k + 1>>
        BY <3>4
      <4>2. IsSeq(<<k + 1>>) /\ Len(<<k + 1>>) = 1 /\ <<k + 1>>[1] = k + 1
        BY OneIsSeq
      <4>3. /\ IsSeq(r) /\ Len(r) = Len(old) + 1 /\ r[Len(old) + 1] = k + 1
            /\ \A j \in 1..Len(old) : r[j] = old[j]
        <5> DEFINE one == <<k + 1>>
        <5>1. r = old \o one /\ IsSeq(one) /\ Len(one) = 1 /\ one[1] = k + 1
          BY <3>2, <4>1, <4>2
        <5>0. IsSeq(old) /\ IsSeq(one)
          BY <3>3, <5>1
        <5> HIDE DEF one, r
        <5>2. IsSeq(old \o one) /\ Len(old \o one) = Len(old) + Len(one)
          BY <5>0, JoinFacts
        <5>3. \A i \in 1..Len(old) : (old \o one)[i] = old[i]
          BY <5>0, JoinFacts
        <5>4. \A i \in 1..Len(one) : (old \o one)[Len(old) + i] = one[i]
          BY <5>0, JoinFacts
        <5> QED  BY <5>1, <5>2, <5>3, <5>4
      <4> HIDE DEF r
      <4>4. \A j \in 1..Len(r) : j \in 1..Len(old) \/ j = Len(old) + 1
        BY <3>3, <4>3
      <4>5. \A j \in 1..Len(r) : r[j] \in T /\ r[j] <= k + 1
        BY <3>3, <3>4, <4>3, <4>4
      <4>6. ASSUME NEW i \in T, i <= k + 1 PROVE \E j \in 1..Len(r) : r[j] = i
        <5>1. CASE i <= k
          <6>1. PICK j \in 1..Len(old) : old[j] = i
            BY <3>3, <5>1
          <6>2. j \in 1..Len(r) /\ r[j] = i
            BY <3>3, <4>3, <6>1
          <6> QED  BY <6>2
        <5>2. CASE i = k + 1
          <6>1. Len(old) + 1 \in 1..Len(r)
            BY <3>3, <4>3
          <6> QED  BY <4>3, <5>2, <6>1
        <5> QED  BY <4>6, <5>1, <5>2
      <4>7. ASSUME NEW i \in 1..Len(r), NEW j \in 1..Len(r), i < j PROVE r[i] < r[j]
        <5>1. i \in 1..Len(old)
          BY <3>3, <4>3, <4>7
        <5>2. CASE j \in 1..Len(old)
          BY <3>3, <4>3, <4>7, <5>1, <5>2
        <5>3. CASE j = Len(old) + 1
          BY <3>3, <4>3, <5>1, <5>3
        <5> QED  BY <4>4, <5>2, <5>3
      <4> QED  BY <4>3, <4>5, <4>6, <4>7 DEF r, Picks
    <3>5. CASE k + 1 \notin T
      <4>1. r = old
        <5>1. parts[k + 1] = <<>>
          BY <3>5
        <5>2. old \in Seq(ToSet(old))
          BY <3>3 DEF IsSeq
        <5> QED  BY <3>2, <5>1, <5>2
      <4>2. \A i \in T : i <= k + 1 => i <= k
        BY <3>5
      <4>3. \A j \in 1..Len(old) : old[j] <= k + 1
        BY <3>3
      <4> HIDE DEF r
      <4>4. Picks(r, T, k + 1)
        BY <3>3, <4>1, <4>2, <4>3 DEF Picks
      <4> QED  BY <4>4 DEF r
    <3> QED  BY <3>4, <3>5
  <2> HIDE DEF S
  <2>4. n \in S
    BY <2>2, <2>3, InductionOnSet
  <2>5. Picks(h[n], T, n)
    BY <1>3, <2>4 DEF S
  <2>6. FlattenSeq(parts) = h[n]
    BY <1>1, <2>1 DEF Flattens
  <2> QED  BY <2>5, <2>6
<1> QED  BY <1>2, <1>3

-------------------------------------------------------------------------------
(***************************************************************************)
(* The operands of dd.                                                     *)
(***************************************************************************)
LEMMA SizeFacts ==
  /\ SizeLimit \in Nat \ {0} /\ SIZE_MAX \in Nat /\ SizeLimit = SIZE_MAX + 1
  /\ \A n \in Int : Size(n) \in 0..SIZE_MAX
  /\ \A n \in 0..SIZE_MAX : Size(n) = n
<1>1. SizeLimit \in Nat \ {0}
  BY DdAssumption
<1>2. SIZE_MAX = SizeLimit - 1
  BY DEF SIZE_MAX
<1>3. SIZE_MAX \in Nat /\ SizeLimit = SIZE_MAX + 1
  BY <1>1, <1>2
<1>4. ASSUME NEW n \in Int PROVE Size(n) \in 0..SIZE_MAX
  BY <1>1, <1>2 DEF Size
<1>5. ASSUME NEW n \in 0..SIZE_MAX PROVE Size(n) = n
  BY <1>1, <1>2 DEF Size
<1> QED  BY <1>1, <1>3, <1>4, <1>5

LEMMA PowerIsNat ==
  ASSUME NEW n \in Nat, NEW base \in Nat, NEW power \in Nat
  PROVE  TimesPower(n, base, power) \in Nat
<1> DEFINE idx == [k \in 1..power |-> k]
           Rec(g) == [s \in SUBSET (1..power) |-> IF s = {} THEN Size(n) ELSE Size(g[s \ {Max(s)}] * base)]
           h == CHOOSE g : g = Rec(g)
<1>1. Size(n) \in Nat /\ \A i \in Nat : Size(i * base) \in Nat
  <2>1. \A i \in Nat : i * base \in Int
    OBVIOUS
  <2>2. \A i \in Int : Size(i) \in Nat
    BY SizeFacts
  <2> QED  BY <2>1, <2>2
<1>2. \E g : g = Rec(g)
  <2> DEFINE step == [x \in Nat \X (1..power) |-> Size(x[1] * base)]
  <2>1. step \in [Nat \X (1..power) -> Nat]
    BY <1>1
  <2>2. \A a \in Nat, i \in 1..power : step[<<a, i>>] = Size(a * base)
    OBVIOUS
  <2> HIDE DEF step
  <2>3. PICK f \in [SUBSET (1..power) -> Nat] : FoldsOver(f, power, Size(n), step)
    BY <1>1, <2>1, FoldExists
  <2>4. ASSUME NEW s \in SUBSET (1..power), s # {}
        PROVE  step[<<f[s \ {Max(s)}], Max(s)>>] = Size(f[s \ {Max(s)}] * base)
    <3>1. Max(s) \in 1..power
      BY <2>4, MaxIs
    <3>2. f[s \ {Max(s)}] \in Nat
      OBVIOUS
    <3> QED  BY <2>2, <3>1, <3>2
  <2>5. f = Rec(f)
    BY <2>3, <2>4 DEF FoldsOver
  <2> QED  BY <2>5
<1>3. h = Rec(h)
  <2> HIDE DEF Rec
  <2> QED  BY <1>2
<1>4. TimesPower(n, base, power) = h[1..power]
  <2>1. DOMAIN idx = 1..power
    OBVIOUS
  <2> QED  BY <2>1 DEF TimesPower, FoldLeft, MapThenFoldSet
<1> HIDE DEF h
<1>5. h[{}] = Size(n)
  BY <1>3
<1>6. ASSUME NEW k \in 1..power, h[1..k \ {Max(1..k)}] \in Nat PROVE h[1..k] \in Nat
  <2>1. 1..k \in SUBSET (1..power) /\ 1..k # {}
    <3>1. k \in Nat /\ k \in 1..k /\ \A i \in 1..k : i \in 1..power
      OBVIOUS
    <3> QED  BY <3>1
  <2>2. h[1..k] = Size(h[1..k \ {Max(1..k)}] * base)
    BY <1>3, <2>1
  <2> QED  BY <1>1, <1>6, <2>2
<1>7. h[{}] \in Nat
  BY <1>1, <1>5
<1>8. h[1..power] \in Nat
  BY <1>6, <1>7, FoldStays
<1> QED  BY <1>4, <1>8

LEMMA NumberIsNat ==
  ASSUME NEW v, v.digits \in Nat, IsNumber(v)
  PROVE  str2int(v) \in Nat
<1>1. JustDigits(v) \/ v.letter \in DOMAIN OneLetter \/ v.letter \in DOMAIN Power
  BY Zenon DEF IsNumber
<1>2. \A l \in DOMAIN OneLetter : OneLetter[l] \in Nat
  BY DEF OneLetter
<1>3. \A l \in DOMAIN Power : Power[l] \in Nat
  BY DEF Power
<1>4. \A i \in Int : Size(i) \in Nat
  BY SizeFacts
<1>5. CASE JustDigits(v)
  <2>1. str2int(v) = Size(v.digits)
    BY <1>5, Zenon DEF str2int
  <2> QED  BY <1>4, <2>1
<1>6. CASE ~JustDigits(v) /\ v.letter \in DOMAIN OneLetter
  <2>1. v.digits * OneLetter[v.letter] \in Int
    BY <1>2, <1>6
  <2>2. str2int(v) = Size(v.digits * OneLetter[v.letter])
    BY <1>6, Zenon DEF str2int
  <2> QED  BY <1>4, <2>1, <2>2
<1>7. CASE ~JustDigits(v) /\ v.letter \in DOMAIN Power /\ v.letter \notin DOMAIN OneLetter
  <2> DEFINE base == IF v.tail = "B" THEN 1000 ELSE 1024
  <2>1. base \in Nat /\ Power[v.letter] \in Nat
    BY <1>3, <1>7
  <2>2. str2int(v) = TimesPower(v.digits, base, Power[v.letter])
    BY <1>7, Zenon DEF str2int
  <2> HIDE DEF base
  <2> QED  BY <2>1, <2>2, PowerIsNat
<1> QED  BY <1>1, <1>5, <1>6, <1>7

DdRecords ==
  [ibs : Nat, obs : Nat, count : Nat, iseek : Nat, oseek : Nat,
   in : FileName \cup {"stdin"}, of : FileName \cup {"stdout"}, trunc : BOOLEAN, excl : BOOLEAN, bad : BOOLEAN,
   room : {0}, block : {<<>>}, content : {<<>>}, eof : {FALSE},
   total_r : {0}, total_w : {0}, out : {<<>>}, stop : {FALSE}]

LEMMA DdStartOK == DdStart \in DdRecords
<1>1. SIZE_MAX \in Nat
  BY SizeFacts
<1> QED  BY <1>1 DEF DdStart, DdRecords

LEMMA OperandKeeps ==
  ASSUME NEW s \in DdRecords, NEW op, OperandOK(op)
  PROVE  Operand(s, op) \in DdRecords
<1>1. CASE s.bad
  BY <1>1 DEF Operand
<1>2. CASE ~s.bad /\ op.name \in Numeric
  <2>1. CASE ~IsNumber(op.value)
    <3>1. Operand(s, op) = [s EXCEPT !.bad = TRUE]
      BY <1>2, <2>1 DEF Operand
    <3> QED  BY <3>1 DEF DdRecords
  <2>2. CASE IsNumber(op.value)
    <3> DEFINE n == str2int(op.value)
    <3>1. n \in Nat
      <4>1. op.value.digits \in Nat
        BY <1>2 DEF OperandOK, Numeric
      <4> QED  BY <2>2, <4>1, NumberIsNat
    <3> HIDE DEF n
    <3>2. \/ Operand(s, op) = [s EXCEPT !.ibs = n, !.obs = n]
          \/ Operand(s, op) = [s EXCEPT !.ibs = n]
          \/ Operand(s, op) = [s EXCEPT !.obs = n]
          \/ Operand(s, op) = [s EXCEPT !.count = n]
          \/ Operand(s, op) = [s EXCEPT !.oseek = n]
          \/ Operand(s, op) = [s EXCEPT !.iseek = n]
      BY <1>2, <2>2 DEF Operand, Numeric, n
    <3> QED  BY <3>1, <3>2 DEF DdRecords
  <2> QED  BY <2>1, <2>2
<1>3. CASE ~s.bad /\ op.name \notin Numeric
  <2>1. CASE op.name \in {"if", "of"}
    <3>1. op.value \in FileName
      BY <1>3, <2>1 DEF OperandOK
    <3>2. Operand(s, op) = [s EXCEPT !.in = op.value] \/ Operand(s, op) = [s EXCEPT !.of = op.value]
      BY <1>3, <2>1 DEF Operand
    <3> QED  BY <3>1, <3>2 DEF DdRecords
  <2>2. CASE op.name = "conv"
    <3>1. Operand(s, op) = [s EXCEPT !.trunc = @ /\ "notrunc" \notin op.value,
                                     !.excl  = @ \/ "excl" \in op.value,
                                     !.bad   = ~(op.value \subseteq {"notrunc", "excl"})]
      BY <1>3, <2>2 DEF Operand
    <3> QED  BY <3>1 DEF DdRecords
  <2>3. CASE op.name \notin {"if", "of", "conv"}
    <3>1. Operand(s, op) = [s EXCEPT !.bad = TRUE]
      BY <1>3, <2>3 DEF Operand
    <3> QED  BY <3>1 DEF DdRecords
  <2> QED  BY <2>1, <2>2, <2>3
<1> QED  BY <1>1, <1>2, <1>3

LEMMA OperandsOK ==
  ASSUME NEW words, IsSeq(words), \A i \in 1..Len(words) : OperandOK(words[i])
  PROVE  Operands(words) \in DdRecords
<1> DEFINE n == Len(words)
           Rec(g) == [s \in SUBSET (1..n) |-> IF s = {} THEN DdStart ELSE Operand(g[s \ {Max(s)}], words[Max(s)])]
           h == CHOOSE g : g = Rec(g)
<1>1. n \in Nat /\ DOMAIN words = 1..n
  BY SeqFacts
<1>2. \E g : g = Rec(g)
  <2> DEFINE step == [x \in DdRecords \X (1..n) |-> Operand(x[1], words[x[2]])]
  <2>1. step \in [DdRecords \X (1..n) -> DdRecords]
    <3>1. ASSUME NEW x \in DdRecords \X (1..n) PROVE Operand(x[1], words[x[2]]) \in DdRecords
      <4>1. x[1] \in DdRecords /\ OperandOK(words[x[2]])
        OBVIOUS
      <4> QED  BY <4>1, OperandKeeps
    <3> QED  BY <3>1
  <2>2. \A a \in DdRecords, i \in 1..n : step[<<a, i>>] = Operand(a, words[i])
    OBVIOUS
  <2> HIDE DEF step, n
  <2>3. PICK f \in [SUBSET (1..n) -> DdRecords] : FoldsOver(f, n, DdStart, step)
    BY <1>1, <2>1, DdStartOK, FoldExists
  <2>4. ASSUME NEW s \in SUBSET (1..n), s # {}
        PROVE  step[<<f[s \ {Max(s)}], Max(s)>>] = Operand(f[s \ {Max(s)}], words[Max(s)])
    <3>1. Max(s) \in 1..n
      BY <1>1, <2>4, MaxIs
    <3>2. f[s \ {Max(s)}] \in DdRecords
      OBVIOUS
    <3> QED  BY <2>2, <3>1, <3>2
  <2>5. f = Rec(f)
    BY <2>3, <2>4 DEF FoldsOver
  <2> QED  BY <2>5
<1>3. h = Rec(h)
  <2> HIDE DEF Rec
  <2> QED  BY <1>2
<1>4. Operands(words) = h[1..n]
  BY <1>1 DEF Operands, FoldLeft, MapThenFoldSet
<1> HIDE DEF h, n
<1>5. h[{}] \in DdRecords
  BY <1>3, DdStartOK
<1>6. ASSUME NEW k \in 1..n, h[1..k \ {Max(1..k)}] \in DdRecords PROVE h[1..k] \in DdRecords
  <2>1. 1..k \in SUBSET (1..n) /\ 1..k # {} /\ 1..k \in SUBSET (1..k) /\ k \in Nat
    <3>1. k \in Nat /\ k \in 1..k /\ \A i \in 1..k : i \in 1..n
      BY <1>1
    <3> QED  BY <3>1
  <2>2. Max(1..k) \in 1..k
    BY <2>1, MaxIs
  <2>3. h[1..k] = Operand(h[1..k \ {Max(1..k)}], words[Max(1..k)])
    BY <1>3, <2>1
  <2>4. Max(1..k) \in 1..n
    BY <1>1, <2>2
  <2>5. OperandOK(words[Max(1..k)])
    BY <2>4 DEF n
  <2> QED  BY <1>6, <2>3, <2>5, OperandKeeps
<1> QED  BY <1>1, <1>4, <1>5, <1>6, FoldStays

(***************************************************************************)
(* What the loops know.  Of what they print only that it is a sequence.    *)
(***************************************************************************)
Keeps(m, r) == DOMAIN r = DOMAIN m /\ IsSeq(r.out)
               /\ ("grid" \in DOMAIN m => r.grid = m.grid) /\ ("sums" \in DOMAIN m => r.sums = m.sums)

LEMMA DigestByteKeeps ==
  ASSUME NEW p, NEW m, NEW s, NEW byte, Cmd(p).name \in {"cat", "tr", "wc"}, Keeps(m, s), "out" \in DOMAIN m
  PROVE  Keeps(m, DigestByte(p, s, byte))
<1>0. DOMAIN s = DOMAIN m /\ IsSeq(s.out)
  BY DEF Keeps
<1>1. CASE Cmd(p).name = "cat"
  <2> DEFINE opts == Cmd(p).flags
             numbered == "number" \in opts /\ s.prev \in {-1, Newline}
             shown ==
               CASE byte = Newline -> IF "ends" \in opts THEN <<36, byte>> ELSE <<byte>>
                 [] byte = Tab     -> IF "tabs" \in opts THEN <<94, 73>> ELSE <<byte>>
                 [] OTHER          -> IF Prints(byte) THEN <<byte>> ELSE <<94, (byte + 64) % 256>>
             number == IF numbered THEN <<Number(s.line)>> ELSE <<>>
             r == [s EXCEPT !.prev = byte, !.line = IF numbered THEN @ + 1 ELSE @, !.out  = @ \o number \o shown]
  <2>1. DigestByte(p, s, byte) = r
    BY <1>1 DEF DigestByte, CatByte
  <2>2. IsSeq(number)
    BY EmptyIsSeq, OneIsSeq
  <2>3. IsSeq(shown)
    <3>1. \A a, b : IsSeq(<<a, b>>)
      BY TwoIsSeq
    <3>2. shown \in {<<36, byte>>, <<byte>>, <<94, 73>>, <<94, (byte + 64) % 256>>}
      OBVIOUS
    <3> HIDE DEF shown
    <3> QED  BY <3>1, <3>2, OneIsSeq
  <2> HIDE DEF shown, number, numbered
  <2>4. IsSeq(s.out \o number \o shown)
    <3>1. IsSeq(s.out \o number)
      BY <1>0, <2>2, JoinFacts
    <3> QED  BY <2>3, <3>1, JoinFacts
  <2>5. DOMAIN r = DOMAIN s /\ r.out = s.out \o number \o shown
        /\ ("grid" \in DOMAIN s => r.grid = s.grid) /\ ("sums" \in DOMAIN s => r.sums = s.sums)
    BY <1>0
  <2> HIDE DEF r
  <2> QED  BY <2>1, <2>4, <2>5 DEF Keeps
<1>2. CASE Cmd(p).name = "wc"
  <2> DEFINE r == [s EXCEPT !.bytes = @ + 1,
                            !.lines = IF byte = Newline THEN @ + 1 ELSE @,
                            !.words = IF is_blank(s.prev) /\ ~is_blank(byte) THEN @ + 1 ELSE @,
                            !.prev  = byte]
  <2>1. DigestByte(p, s, byte) = r
    BY <1>2 DEF DigestByte, WcByte
  <2>2. DOMAIN r = DOMAIN s /\ r.out = s.out
        /\ ("grid" \in DOMAIN s => r.grid = s.grid) /\ ("sums" \in DOMAIN s => r.sums = s.sums)
    BY <1>0
  <2> HIDE DEF r
  <2> QED  BY <1>0, <2>1, <2>2 DEF Keeps
<1>3. CASE Cmd(p).name = "tr"
  <2> DEFINE opts == Cmd(p).flags
             words == proc[p].args
             L3(found, c, again) ==
               LET deleted  == found.index > 0 /\ "delete" \in opts
                   wrong    == found = Reversed \/ (~deleted /\ again = Reversed)
                   repeated == again.index > 0 /\ c = s.last_out /\ "squeeze" \in opts
               IN  IF s.stop THEN s
                   ELSE IF wrong THEN [s EXCEPT !.stop = TRUE]
                   ELSE IF deleted \/ repeated THEN s
                   ELSE [s EXCEPT !.out = Append(@, c % 256), !.last_out = c]
             L2(found, c) == CHOOSE r \in {L3(found, c, y) : y \in {find_index(words[Len(words)], c)}} : TRUE
             L1(found) == CHOOSE r \in {L2(found, y) : y \in {IF found.index > 0 /\ Len(words) = 2
                                                              THEN for_index(words[2], found.index, found.offset)
                                                              ELSE byte}} : TRUE
  <2>5. DigestByte(p, s, byte) = CHOOSE r \in {L1(y) : y \in {find_index(words[1], byte)}} : TRUE
    BY <1>3 DEF DigestByte, TrByte, Using
  <2> HIDE DEF L3
  <2>7. \A f, c : \E a : L2(f, c) = L3(f, c, a)
    OBVIOUS
  <2> HIDE DEF L2
  <2>8. \A f : \E c : L1(f) = L2(f, c)
    OBVIOUS
  <2> HIDE DEF L1
  <2>9. \E f : DigestByte(p, s, byte) = L1(f)
    BY <2>5
  <2>1. \/ DigestByte(p, s, byte) = s
        \/ DigestByte(p, s, byte) = [s EXCEPT !.stop = TRUE]
        \/ \E c : DigestByte(p, s, byte) = [s EXCEPT !.out = Append(@, c % 256), !.last_out = c]
    <3>1. PICK found : DigestByte(p, s, byte) = L1(found)
      BY <2>9
    <3>2. PICK c : L1(found) = L2(found, c)
      BY <2>8
    <3>3. PICK again : L2(found, c) = L3(found, c, again)
      BY <2>7
    <3>4. DigestByte(p, s, byte) = L3(found, c, again)
      BY <3>1, <3>2, <3>3
    <3>5. \/ L3(found, c, again) = s \/ L3(found, c, again) = [s EXCEPT !.stop = TRUE]
          \/ L3(found, c, again) = [s EXCEPT !.out = Append(@, c % 256), !.last_out = c]
      BY DEF L3
    <3> QED  BY <3>4, <3>5
  <2>2. CASE DigestByte(p, s, byte) = s
    BY <2>2
  <2>3. CASE DigestByte(p, s, byte) = [s EXCEPT !.stop = TRUE]
    BY <1>0, <2>3 DEF Keeps
  <2>4. ASSUME NEW c, DigestByte(p, s, byte) = [s EXCEPT !.out = Append(@, c % 256), !.last_out = c]
        PROVE  Keeps(m, DigestByte(p, s, byte))
    <3>1. IsSeq(Append(s.out, c % 256))
      BY <1>0, MoreFacts
    <3> QED  BY <1>0, <2>4, <3>1 DEF Keeps
  <2> QED  BY <2>1, <2>2, <2>3, <2>4
<1> QED  BY <1>1, <1>2, <1>3

LEMMA DigestBytesKeeps ==
  ASSUME NEW p, NEW m, NEW bytes, IsSeq(bytes), Cmd(p).name \in {"cat", "tr", "wc"}, "out" \in DOMAIN m, IsSeq(m.out)
  PROVE  Keeps(m, DigestBytes(p, m, bytes))
<1>0. PICK h : Digests(h, p, m, bytes)
  BY DigestFoldIs
<1>1. /\ h[{}] = m /\ DigestBytes(p, m, bytes) = h[1..Len(bytes)]
      /\ \A k \in 1..Len(bytes) : h[1..k] = DigestByte(p, h[1..k \ {k}], bytes[k])
  BY <1>0 DEF Digests
<1> DEFINE n == Len(bytes)
           T == {k \in Nat : k <= n => Keeps(m, h[1..k])}
<1>2. n \in Nat
  BY SeqFacts
<1>3. 0 \in T
  <2>1. 1..0 = {} /\ Keeps(m, m)
    BY DEF Keeps
  <2> QED  BY <1>1, <2>1
<1>4. ASSUME NEW k \in Nat, k \in T PROVE k + 1 \in T
  <2> SUFFICES ASSUME k + 1 <= n PROVE Keeps(m, h[1..(k + 1)])
    OBVIOUS
  <2>1. Keeps(m, h[1..k])
    BY <1>2, <1>4
  <2>2. (1..(k + 1)) \ {k + 1} = 1..k
    <3>1. \A i : i \in (1..(k + 1)) \ {k + 1} <=> i \in 1..k
      OBVIOUS
    <3> QED  BY <3>1
  <2>3. k + 1 \in 1..n
    BY <1>2
  <2>4. h[1..(k + 1)] = DigestByte(p, h[1..k], bytes[k + 1])
    BY <1>1, <2>2, <2>3
  <2>5. Keeps(m, DigestByte(p, h[1..k], bytes[k + 1]))
    BY <2>1, DigestByteKeeps
  <2> QED  BY <2>4, <2>5
<1> HIDE DEF T
<1>5. n \in T
  BY <1>2, <1>3, <1>4, InductionOnSet
<1> QED  BY <1>1, <1>2, <1>5 DEF T

(***************************************************************************)
(* What a program is like, whatever the others do.                         *)
(***************************************************************************)
Place(s) == IF s.at = "write" THEN s.next ELSE s.at

Shape(s) ==
  /\ DOMAIN s = {"at", "args", "in", "buf", "mem", "obuf", "fds", "todo", "moved", "next", "ret"}
  /\ IsSeq(s.args) /\ IsSeq(s.buf) /\ IsSeq(s.obuf) /\ IsSeq(s.fds) /\ IsSeq(s.todo) /\ s.moved \in Nat

FdOK(c, fd) ==
  /\ DOMAIN fd = {"name", "off", "append"} /\ fd.off \in Nat
  /\ fd.name \in Outs(c) \cup {"failed", "stdout"} /\ (c.name # "dd" => fd.name # "stdout")

CallOK(n, call) == DOMAIN call = {"fd", "bytes", "stdio"} /\ call.fd \in 0..n /\ IsSeq(call.bytes)

Handles(c, s) ==
  /\ \A i \in 1..Len(s.fds) : FdOK(c, s.fds[i])
  /\ \A i \in 1..Len(s.todo) : CallOK(Len(s.fds), s.todo[i])
  /\ s.at = "write" => s.todo # <<>> /\ s.next # "write"
  /\ c.name = "dd" /\ s.at = "write" => Len(s.todo) = 1 /\ (s.todo[1].stdio \/ s.next = "pour")
  /\ c.name = "dd" /\ Place(s) \in {"seek", "read", "pour"} => Len(s.fds) = 1

\* The names that are left are operands.
Remains(c, s) == c.name \in {"cat", "tee", "head", "wc", "hex"} =>
                   \A i \in 1..Len(s.args) : s.args[i] \in ToSet(OrDash(c.args))

DdSame(o, m) == /\ m.ibs = o.ibs /\ m.obs = o.obs /\ m.iseek = o.iseek /\ m.oseek = o.oseek
                /\ m.in = o.in /\ m.of = o.of /\ m.trunc = o.trunc /\ m.excl = o.excl
DdKnows(c, m) ==
  /\ DOMAIN m = DOMAIN DdStart /\ DdSame(Operands(c.args), m)
  /\ m.count \in Nat /\ m.room \in Int /\ IsSeq(m.block) /\ IsSeq(m.content)
  /\ m.total_r \in Nat /\ m.total_w \in Int

\* What it knows when it is to go on at a place.
Knows(c, m, place) ==
  /\ "out" \in DOMAIN m /\ IsSeq(m.out)
  /\ c.name = "wc" => "grid" \in DOMAIN m /\ IsSeq(m.grid)
  /\ c.name = "hex" /\ place = "read" => {"total", "line"} \subseteq DOMAIN m /\ m.total \in Nat /\ IsSeq(m.line)
  /\ c.name = "head" /\ place = "read" =>
       "total" \in DOMAIN m /\ m.total \in Nat /\ ("lines" \in HeadFlags(c) => m.total < HeadLimit(c))
  /\ c.name = "dd" => DdKnows(c, m)

LocalOK(c, s) ==
  /\ Shape(s) /\ Handles(c, s) /\ Remains(c, s)
  /\ Place(s) \notin {"start", "exit"} => Knows(c, s.mem, Place(s)) /\ s.mem.out = <<>>

LEMMA EndsOK == ASSUME NEW c, NEW s, NEW ret, LocalOK(c, s)
                PROVE  LocalOK(c, Ends(s, ret)) /\ Place(Ends(s, ret)) = "exit"
<1> DEFINE t == Ends(s, ret)
<1>1. /\ DOMAIN t = DOMAIN s /\ t.at = "exit" /\ t.args = s.args /\ t.buf = s.buf /\ t.obuf = s.obuf
      /\ t.fds = s.fds /\ t.todo = s.todo /\ t.moved = s.moved
  BY DEF Ends, LocalOK, Shape
<1> HIDE DEF t
<1> QED  BY <1>1 DEF LocalOK, Shape, Handles, Remains, Place, t

LEMMA DiesOK == ASSUME NEW c, NEW s, LocalOK(c, s)
                PROVE  LocalOK(c, Dies(s)) /\ Place(Dies(s)) = "exit"
<1> DEFINE t == Dies(s)
<1>1. /\ DOMAIN t = DOMAIN s /\ t.at = "exit" /\ t.args = s.args /\ t.buf = s.buf /\ t.obuf = <<>>
      /\ t.fds = s.fds /\ t.todo = <<>> /\ t.moved = s.moved
  BY DEF Dies, LocalOK, Shape
<1>2. IsSeq(<<>>) /\ Len(<<>>) = 0
  BY EmptyIsSeq
<1> HIDE DEF t
<1> QED  BY <1>1, <1>2 DEF LocalOK, Shape, Handles, Remains, Place, t

LEMMA FlushFacts ==
  ASSUME NEW s, NEW next, Shape(s)
  PROVE  LET t == Flush(s, next) IN
         /\ Shape(t) /\ t.at = "write" /\ t.next = next /\ Place(t) = next /\ t.obuf = <<>>
         /\ t.todo = <<[fd |-> 0, bytes |-> s.obuf, stdio |-> TRUE]>>
         /\ t.args = s.args /\ t.in = s.in /\ t.buf = s.buf /\ t.mem = s.mem /\ t.fds = s.fds
         /\ t.moved = s.moved /\ t.ret = s.ret
<1> DEFINE t == Flush(s, next)
           calls == <<[fd |-> 0, bytes |-> s.obuf, stdio |-> TRUE]>>
<1>1. IsSeq(calls) /\ IsSeq(<<>>)
  BY OneIsSeq, EmptyIsSeq
<1> HIDE DEF calls
<1>2. /\ DOMAIN t = DOMAIN s /\ t.at = "write" /\ t.next = next /\ t.obuf = <<>> /\ t.todo = calls
      /\ t.args = s.args /\ t.in = s.in /\ t.buf = s.buf /\ t.mem = s.mem /\ t.fds = s.fds
      /\ t.moved = s.moved /\ t.ret = s.ret
  BY DEF Flush, Shape, calls
<1> HIDE DEF t
<1>3. Shape(t) /\ Place(t) = next
  BY <1>1, <1>2 DEF Shape, Place
<1> QED  BY <1>2, <1>3 DEF t, calls

LEMMA FlushOK ==
  ASSUME NEW c, NEW s, NEW next, LocalOK(c, s), Place(s) = next
  PROVE  LocalOK(c, Flush(s, next)) /\ Place(Flush(s, next)) = next
<1> DEFINE t == Flush(s, next)
           call == [fd |-> 0, bytes |-> s.obuf, stdio |-> TRUE]
<1>1. Shape(s)
  BY DEF LocalOK
<1>2. /\ Shape(t) /\ t.at = "write" /\ Place(t) = next
      /\ t.todo = <<call>> /\ t.args = s.args /\ t.mem = s.mem /\ t.fds = s.fds
  BY <1>1, FlushFacts
<1>3. CallOK(Len(s.fds), call)
  <2>1. Len(s.fds) \in Nat /\ IsSeq(s.obuf)
    BY <1>1, SeqFacts DEF Shape
  <2>2. DOMAIN call = {"fd", "bytes", "stdio"} /\ call.fd = 0 /\ call.bytes = s.obuf
    OBVIOUS
  <2> HIDE DEF call
  <2> QED  BY <2>1, <2>2 DEF CallOK
<1> HIDE DEF t, call
<1>4. Len(t.todo) = 1 /\ t.todo[1] = call /\ t.todo # <<>>
  BY <1>2, OneIsSeq
<1>5. Handles(c, t)
  <2>1. next # "write"
    BY DEF LocalOK, Handles, Place
  <2>2. t.todo[1].stdio
    BY <1>4 DEF call
  <2>3. \A i \in 1..Len(t.fds) : FdOK(c, t.fds[i])
    BY <1>2 DEF LocalOK, Handles
  <2>4. \A i \in 1..Len(t.todo) : CallOK(Len(t.fds), t.todo[i])
    BY <1>2, <1>3, <1>4
  <2>5. Place(s) = Place(t)
    BY <1>2
  <2>6. t.next = next
    BY <1>2 DEF Place
  <2>7. c.name = "dd" /\ Place(t) \in {"seek", "read", "pour"} => Len(t.fds) = 1
    BY <1>2, <2>5 DEF LocalOK, Handles
  <2> QED  BY <1>2, <1>4, <2>1, <2>2, <2>3, <2>4, <2>6, <2>7 DEF Handles
<1> QED  BY <1>2, <1>5 DEF LocalOK, Remains, t

LEMMA PrintedFacts ==
  ASSUME NEW s, NEW m, NEW next, Shape(s), "out" \in DOMAIN m, IsSeq(m.out), next # "write"
  PROVE  LET t == Printed(s, m, next)
             all == s.obuf \o m.out
         IN  /\ Shape(t) /\ t.mem = [m EXCEPT !.out = <<>>] /\ t.buf = <<>> /\ Place(t) = next
             /\ t.args = s.args /\ t.in = s.in /\ t.fds = s.fds /\ t.moved = s.moved /\ t.ret = s.ret
             /\ IF Len(all) >= StdioSize
                THEN t.obuf = <<>> /\ t.at = "write" /\ t.todo = <<[fd |-> 0, bytes |-> all, stdio |-> TRUE]>>
                ELSE t.obuf = all /\ t.at = next /\ t.todo = s.todo
<1> DEFINE all == s.obuf \o m.out
           u == [s EXCEPT !.mem = [m EXCEPT !.out = <<>>], !.obuf = @ \o m.out, !.buf = <<>>]
           t == Printed(s, m, next)
           v == [u EXCEPT !.at = next]
<1>1. IsSeq(all) /\ IsSeq(<<>>)
  BY JoinFacts, EmptyIsSeq DEF Shape
<1> HIDE DEF all
<1>2. /\ DOMAIN u = DOMAIN s /\ u.mem = [m EXCEPT !.out = <<>>] /\ u.obuf = all /\ u.buf = <<>>
      /\ u.args = s.args /\ u.in = s.in /\ u.fds = s.fds /\ u.moved = s.moved /\ u.ret = s.ret /\ u.todo = s.todo
  BY DEF Shape, all
<1>3. t = IF Len(u.obuf) >= StdioSize THEN Flush(u, next) ELSE v
  BY DEF Printed
<1> HIDE DEF u, t
<1>4. Shape(u)
  BY <1>1, <1>2 DEF Shape
<1>5. CASE Len(all) >= StdioSize
  <2>1. t = Flush(u, next)
    BY <1>2, <1>3, <1>5
  <2>2. /\ Shape(t) /\ t.at = "write" /\ t.next = next /\ Place(t) = next /\ t.obuf = <<>>
        /\ t.todo = <<[fd |-> 0, bytes |-> u.obuf, stdio |-> TRUE]>>
        /\ t.args = u.args /\ t.in = u.in /\ t.buf = u.buf /\ t.mem = u.mem /\ t.fds = u.fds
        /\ t.moved = u.moved /\ t.ret = u.ret
    BY <1>4, <2>1, FlushFacts
  <2> QED  BY <1>2, <1>5, <2>2 DEF t, all
<1>6. CASE ~(Len(all) >= StdioSize)
  <2>1. /\ DOMAIN v = DOMAIN u /\ v.at = next /\ v.obuf = u.obuf /\ v.todo = u.todo
        /\ v.args = u.args /\ v.in = u.in /\ v.buf = u.buf /\ v.mem = u.mem /\ v.fds = u.fds
        /\ v.moved = u.moved /\ v.ret = u.ret
    BY <1>4 DEF Shape
  <2>2. t = v
    BY <1>2, <1>3, <1>6
  <2> HIDE DEF v
  <2>3. Shape(v) /\ Place(v) = next
    BY <1>4, <2>1 DEF Shape, Place
  <2> QED  BY <1>2, <1>6, <2>1, <2>2, <2>3 DEF t, all
<1> QED  BY <1>5, <1>6

LEMMA SilencedKnows ==
  ASSUME NEW c, NEW m, NEW place, Knows(c, m, place)
  PROVE  Knows(c, [m EXCEPT !.out = <<>>], place) /\ [m EXCEPT !.out = <<>>].out = <<>>
<1> DEFINE r == [m EXCEPT !.out = <<>>]
<1>1. DOMAIN r = DOMAIN m /\ r.out = <<>> /\ \A f \in DOMAIN m \ {"out"} : r[f] = m[f]
  BY DEF Knows
<1>2. IsSeq(<<>>)
  BY EmptyIsSeq
<1> HIDE DEF r
<1>3. c.name = "wc" => "grid" \in DOMAIN r /\ IsSeq(r.grid)
  BY <1>1 DEF Knows
<1>4. c.name = "hex" /\ place = "read" => {"total", "line"} \subseteq DOMAIN r /\ r.total \in Nat /\ IsSeq(r.line)
  BY <1>1 DEF Knows
<1>5. c.name = "head" /\ place = "read" =>
       "total" \in DOMAIN r /\ r.total \in Nat /\ ("lines" \in HeadFlags(c) => r.total < HeadLimit(c))
  BY <1>1 DEF Knows
<1>6. c.name = "dd" => DdKnows(c, r)
  <2>1. DOMAIN DdStart = {"ibs", "obs", "count", "iseek", "oseek", "in", "of", "trunc", "excl", "bad",
                          "room", "block", "content", "eof", "total_r", "total_w", "out", "stop"}
    BY DEF DdStart
  <2> QED  BY <1>1, <2>1 DEF Knows, DdKnows, DdSame
<1> QED  BY <1>1, <1>2, <1>3, <1>4, <1>5, <1>6 DEF Knows, r

LEMMA PrintedOK ==
  ASSUME NEW c, NEW s, NEW m, NEW next, LocalOK(c, s), "out" \in DOMAIN m, IsSeq(m.out), next # "write", c.name # "dd",
         next \notin {"start", "exit"} => Knows(c, m, next)
  PROVE  LocalOK(c, Printed(s, m, next)) /\ Place(Printed(s, m, next)) = next
<1> DEFINE t == Printed(s, m, next)
           all == s.obuf \o m.out
           call == [fd |-> 0, bytes |-> all, stdio |-> TRUE]
<1>1. Shape(s)
  BY DEF LocalOK
<1>2. /\ Shape(t) /\ t.mem = [m EXCEPT !.out = <<>>] /\ Place(t) = next /\ t.args = s.args /\ t.fds = s.fds
      /\ (t.at = "write" /\ t.next = next /\ t.todo = <<call>>) \/ (t.at = next /\ t.todo = s.todo)
  BY <1>1, PrintedFacts DEF Place
<1>3. CallOK(Len(s.fds), call)
  <2>1. Len(s.fds) \in Nat /\ IsSeq(s.obuf)
    BY <1>1, SeqFacts DEF Shape
  <2>2. IsSeq(all)
    BY <2>1, JoinFacts
  <2>3. DOMAIN call = {"fd", "bytes", "stdio"} /\ call.fd = 0 /\ call.bytes = all
    OBVIOUS
  <2> HIDE DEF call, all
  <2> QED  BY <2>1, <2>2, <2>3 DEF CallOK
<1> HIDE DEF t, call, all
<1>4. Len(<<call>>) = 1 /\ <<call>>[1] = call /\ <<call>> # <<>>
  BY OneIsSeq
<1>5. Handles(c, t)
  <2>1. \A i \in 1..Len(t.fds) : FdOK(c, t.fds[i])
    BY <1>2 DEF LocalOK, Handles
  <2>2. \A i \in 1..Len(t.todo) : CallOK(Len(t.fds), t.todo[i])
    BY <1>2, <1>3, <1>4 DEF LocalOK, Handles
  <2>3. t.at = "write" => t.todo # <<>> /\ t.next # "write"
    BY <1>2, <1>4
  <2> QED  BY <2>1, <2>2, <2>3 DEF Handles
<1>6. next \notin {"start", "exit"} => Knows(c, t.mem, next) /\ t.mem.out = <<>>
  BY <1>2, SilencedKnows
<1> QED  BY <1>2, <1>5, <1>6 DEF LocalOK, Remains, t

LEMMA WritesOK ==
  ASSUME NEW c, NEW s, NEW calls, NEW next, LocalOK(c, s), IsSeq(calls), calls # <<>>,
         \A i \in 1..Len(calls) : CallOK(Len(s.fds), calls[i]),
         next \in {"read", "pour"}, s.at = next, c.name = "dd" => Len(calls) = 1 /\ next = "pour"
  PROVE  LocalOK(c, Writes(s, calls, next)) /\ Place(Writes(s, calls, next)) = next
<1> DEFINE t == Writes(s, calls, next)
<1>1. Shape(s) /\ Place(s) = next
  BY DEF LocalOK, Place
<1>2. /\ DOMAIN t = DOMAIN s /\ t.at = "write" /\ t.next = next /\ t.todo = calls
      /\ t.args = s.args /\ t.in = s.in /\ t.buf = s.buf /\ t.mem = s.mem /\ t.fds = s.fds /\ t.obuf = s.obuf
      /\ t.moved = s.moved /\ t.ret = s.ret
  BY <1>1 DEF Writes, Shape
<1> HIDE DEF t
<1>3. Shape(t) /\ Place(t) = next
  BY <1>1, <1>2 DEF Shape, Place
<1>4. Handles(c, t)
  BY <1>1, <1>2, <1>3 DEF Handles, LocalOK
<1> QED  BY <1>1, <1>2, <1>3, <1>4 DEF LocalOK, Remains, t

\* One call is done.
Shifted(s) == [s EXCEPT !.todo = Tail(@), !.moved = 0, !.at = IF Len(s.todo) = 1 THEN s.next ELSE @]

LEMMA ShiftedFacts ==
  ASSUME NEW s, Shape(s), s.todo # <<>>
  PROVE  LET t == Shifted(s) IN
         /\ DOMAIN t = DOMAIN s /\ t.todo = Tail(s.todo) /\ t.moved = 0
         /\ t.at = IF Len(s.todo) = 1 THEN s.next ELSE s.at
         /\ t.next = s.next /\ t.args = s.args /\ t.in = s.in /\ t.buf = s.buf /\ t.mem = s.mem
         /\ t.fds = s.fds /\ t.obuf = s.obuf /\ t.ret = s.ret
         /\ Shape(t)
<1> DEFINE t == Shifted(s)
<1>1. /\ DOMAIN t = DOMAIN s /\ t.todo = Tail(s.todo) /\ t.moved = 0
      /\ t.at = IF Len(s.todo) = 1 THEN s.next ELSE s.at
      /\ t.next = s.next /\ t.args = s.args /\ t.in = s.in /\ t.buf = s.buf /\ t.mem = s.mem
      /\ t.fds = s.fds /\ t.obuf = s.obuf /\ t.ret = s.ret
  BY DEF Shifted, Shape
<1> HIDE DEF t
<1>2. IsSeq(Tail(s.todo))
  BY TailFacts DEF Shape
<1>3. Shape(t)
  BY <1>1, <1>2 DEF Shape
<1> QED  BY <1>1, <1>3 DEF t

LEMMA ShiftedOK ==
  ASSUME NEW c, NEW s, LocalOK(c, s), s.at = "write"
  PROVE  LocalOK(c, Shifted(s)) /\ Place(Shifted(s)) = s.next /\ (c.name = "dd" => Shifted(s).at # "write")
<1> DEFINE t == Shifted(s)
<1>1. Shape(s) /\ s.todo # <<>> /\ s.next # "write"
  BY DEF LocalOK, Handles
<1>2. /\ t.todo = Tail(s.todo) /\ t.moved = 0 /\ t.at = (IF Len(s.todo) = 1 THEN s.next ELSE s.at)
      /\ t.next = s.next /\ t.args = s.args /\ t.mem = s.mem /\ t.fds = s.fds /\ Shape(t)
  BY <1>1, ShiftedFacts
<1>3. /\ Len(s.todo) >= 1 /\ IsSeq(Tail(s.todo)) /\ Len(Tail(s.todo)) = Len(s.todo) - 1
      /\ \A i \in 1..Len(Tail(s.todo)) : Tail(s.todo)[i] = s.todo[i + 1]
  BY <1>1, TailFacts DEF Shape
<1>4. Len(s.todo) \in Nat /\ Len(t.todo) \in Nat
  BY <1>1, <1>2, SeqFacts DEF Shape
<1> HIDE DEF t
<1>5. Place(t) = s.next /\ (c.name = "dd" => t.at # "write")
  BY <1>1, <1>2 DEF Place, LocalOK, Handles
<1>6. Handles(c, t)
  <2>1. \A i \in 1..Len(t.fds) : FdOK(c, t.fds[i])
    BY <1>2 DEF LocalOK, Handles
  <2>2. ASSUME NEW i \in 1..Len(t.todo) PROVE CallOK(Len(t.fds), t.todo[i])
    <3>1. t.todo[i] = s.todo[i + 1] /\ i + 1 \in 1..Len(s.todo)
      BY <1>2, <1>3, <1>4
    <3> QED  BY <1>2, <3>1 DEF LocalOK, Handles
  <2>3. t.at = "write" => t.todo # <<>> /\ t.next # "write"
    <3>1. t.todo = <<>> => Len(t.todo) = 0
      OBVIOUS
    <3>2. Len(t.todo) = Len(s.todo) - 1
      BY <1>2, <1>3
    <3> QED  BY <1>1, <1>2, <1>4, <3>1, <3>2
  <2>4. c.name = "dd" /\ Place(t) \in {"seek", "read", "pour"} => Len(t.fds) = 1
    BY <1>2, <1>5 DEF LocalOK, Handles, Place
  <2> QED  BY <1>5, <2>1, <2>2, <2>3, <2>4 DEF Handles
<1>7. Place(s) = s.next
  BY DEF Place
<1> QED  BY <1>2, <1>5, <1>6, <1>7 DEF LocalOK, Remains, t

LEMMA AdvancedFacts ==
  ASSUME NEW c, NEW s, NEW k \in Nat, LocalOK(c, s), s.at = "write"
  PROVE  LET t == Advanced(s, k)
             call == s.todo[1]
         IN  /\ Shape(t) /\ t.moved = s.moved + k /\ Len(t.fds) = Len(s.fds)
             /\ CallOK(Len(s.fds), call) /\ Head(s.todo) = call /\ s.todo # <<>>
             /\ \A i \in 1..Len(s.fds) \ {call.fd} : t.fds[i] = s.fds[i]
             /\ call.fd # 0 => /\ call.fd \in 1..Len(s.fds)
                               /\ t.fds[call.fd] = [s.fds[call.fd] EXCEPT !.off = @ + k]
             /\ t.at = s.at /\ t.args = s.args /\ t.in = s.in /\ t.buf = s.buf /\ t.mem = s.mem
             /\ t.obuf = s.obuf /\ t.todo = s.todo /\ t.next = s.next /\ t.ret = s.ret
<1> DEFINE t == Advanced(s, k)
           call == s.todo[1]
           fds == Forward(s.fds, call.fd, k)
<1>1. Shape(s) /\ s.todo # <<>> /\ Len(s.todo) \in Nat /\ Len(s.fds) \in Nat /\ Head(s.todo) = call
  BY SeqFacts, TailFacts DEF LocalOK, Handles, Shape
<1>2. CallOK(Len(s.fds), call)
  <2>1. Len(s.todo) # 0
    BY <1>1, SeqFacts DEF Shape
  <2> QED  BY <1>1, <2>1 DEF LocalOK, Handles
<1>3. call.fd \in 0..Len(s.fds)
  BY <1>2 DEF CallOK
<1> HIDE DEF call
<1>4. /\ DOMAIN t = DOMAIN s /\ t.moved = s.moved + k /\ t.fds = fds
      /\ t.at = s.at /\ t.args = s.args /\ t.in = s.in /\ t.buf = s.buf /\ t.mem = s.mem
      /\ t.obuf = s.obuf /\ t.todo = s.todo /\ t.next = s.next /\ t.ret = s.ret
  <2> HIDE DEF fds
  <2>1. t = [s EXCEPT !.moved = @ + k, !.fds = fds]
    BY <1>1 DEF Advanced, fds
  <2> HIDE DEF t
  <2> QED  BY <1>1, <2>1 DEF Shape
<1>5. /\ IsSeq(fds) /\ Len(fds) = Len(s.fds)
      /\ \A i \in 1..Len(s.fds) \ {call.fd} : fds[i] = s.fds[i]
      /\ call.fd # 0 => fds[call.fd] = [s.fds[call.fd] EXCEPT !.off = @ + k]
  <2>1. CASE call.fd = 0
    BY <1>1, <2>1 DEF Shape, Forward
  <2>2. CASE call.fd # 0
    <3> DEFINE e == [s.fds[call.fd] EXCEPT !.off = @ + k]
    <3>1. call.fd \in 1..Len(s.fds) /\ IsSeq(s.fds)
      BY <1>1, <1>3, <2>2 DEF Shape
    <3>2. fds = [s.fds EXCEPT ![call.fd] = e]
      BY <2>2 DEF Forward
    <3> HIDE DEF e, fds
    <3>3. IsSeq(fds) /\ Len(fds) = Len(s.fds) /\ fds[call.fd] = e /\ \A j \in 1..Len(s.fds) \ {call.fd} : fds[j] = s.fds[j]
      BY <3>1, <3>2, ReplaceFacts
    <3> QED  BY <3>3 DEF e
  <2> QED  BY <2>1, <2>2
<1> HIDE DEF t, fds
<1>6. Shape(t)
  BY <1>1, <1>4, <1>5 DEF Shape
<1> QED  BY <1>1, <1>2, <1>3, <1>4, <1>5, <1>6 DEF t, call

LEMMA AdvancedOK ==
  ASSUME NEW c, NEW s, NEW k \in Nat, LocalOK(c, s), s.at = "write"
  PROVE  LocalOK(c, Advanced(s, k)) /\ Place(Advanced(s, k)) = Place(s)
<1> DEFINE t == Advanced(s, k)
           call == s.todo[1]
<1>1. /\ Shape(t) /\ t.moved = s.moved + k /\ Len(t.fds) = Len(s.fds)
      /\ \A i \in 1..Len(s.fds) \ {call.fd} : t.fds[i] = s.fds[i]
      /\ call.fd # 0 => call.fd \in 1..Len(s.fds) /\ t.fds[call.fd] = [s.fds[call.fd] EXCEPT !.off = @ + k]
      /\ t.at = s.at /\ t.args = s.args /\ t.mem = s.mem /\ t.todo = s.todo /\ t.next = s.next
  BY AdvancedFacts
<1> HIDE DEF t, call
<1>2. Place(t) = Place(s)
  BY <1>1 DEF Place
<1>3. ASSUME NEW i \in 1..Len(t.fds) PROVE FdOK(c, t.fds[i])
  <2>1. FdOK(c, s.fds[i])
    BY <1>1 DEF LocalOK, Handles
  <2>2. CASE i # call.fd
    BY <1>1, <2>1, <2>2
  <2>3. CASE i = call.fd
    <3>1. t.fds[i] = [s.fds[i] EXCEPT !.off = @ + k]
      <4>1. Len(s.fds) \in Nat
        BY SeqFacts DEF LocalOK, Shape
      <4>2. call.fd # 0
        BY <1>1, <2>3, <4>1
      <4> QED  BY <1>1, <2>3, <4>2
    <3> QED  BY <2>1, <3>1 DEF FdOK
  <2> QED  BY <2>2, <2>3
<1>4. Handles(c, t)
  BY <1>1, <1>2, <1>3 DEF LocalOK, Handles
<1> QED  BY <1>1, <1>2, <1>4 DEF LocalOK, Remains, t

LEMMA ReturnedOK ==
  ASSUME NEW p, NEW s, NEW w \in Int, LocalOK(Cmd(p), s), s.at = "write"
  PROVE  LocalOK(Cmd(p), Returned(p, s, w)) /\ Place(Returned(p, s, w)) \in {s.next, "report", "exit"}
<1> DEFINE c == Cmd(p)
           r == Returned(p, s, w)
           call == s.todo[1]
           t == Shifted(s)
<1>1. Shape(s) /\ s.todo # <<>> /\ Len(s.todo) \in Nat /\ Len(s.fds) \in Nat /\ Head(s.todo) = call /\ s.next # "write"
  BY SeqFacts, TailFacts DEF LocalOK, Handles, Shape
<1>2. 1 \in 1..Len(s.todo) /\ CallOK(Len(s.fds), call)
  <2>1. Len(s.todo) # 0
    BY <1>1, SeqFacts DEF Shape
  <2> QED  BY <1>1, <2>1 DEF LocalOK, Handles
<1>3. LocalOK(c, t) /\ Place(t) = s.next /\ (c.name = "dd" => t.at # "write")
  BY ShiftedOK
<1>4. /\ DOMAIN t = DOMAIN s /\ t.todo = Tail(s.todo) /\ t.next = s.next /\ t.args = s.args
      /\ t.mem = s.mem /\ t.fds = s.fds /\ t.obuf = s.obuf /\ t.buf = s.buf /\ t.moved = 0 /\ Shape(t)
      /\ t.at = IF Len(s.todo) = 1 THEN s.next ELSE s.at
  BY <1>1, ShiftedFacts
<1>5. CASE call.stdio /\ w \in 0..(Len(call.bytes) - 1)
  <2> DEFINE rest == [call EXCEPT !.bytes = SubSeq(@, w + 1, Len(@))]
             todo == [s.todo EXCEPT ![1] = rest]
             u == [s EXCEPT !.moved = 0, !.todo = todo]
  <2>1. r = u
    BY <1>1, <1>5 DEF Returned
  <2>2. IsSeq(todo) /\ Len(todo) = Len(s.todo) /\ todo[1] = rest /\ \A j \in 1..Len(s.todo) \ {1} : todo[j] = s.todo[j]
    <3>1. todo = [s.todo EXCEPT ![1] = rest] /\ IsSeq(s.todo)
      BY <1>1 DEF Shape
    <3> HIDE DEF rest, call, todo, t, u, r, c
    <3>2. IsSeq(todo)
      <4>1. s.todo \in Seq(ToSet(s.todo) \cup {rest})
        BY <3>1 DEF IsSeq
      <4>2. todo \in Seq(ToSet(s.todo) \cup {rest})
        BY <1>2, <3>1, <4>1
      <4> QED  BY <4>2, SeqOfAny
    <3>5. Len(todo) = Len(s.todo)
      BY <1>2, <3>1, ReplaceFacts
    <3>3. todo[1] = rest
      BY <1>2, <3>1, ReplaceFacts
    <3>4. \A j \in 1..Len(s.todo) \ {1} : todo[j] = s.todo[j]
      BY <1>2, <3>1, ReplaceFacts
    <3> QED  BY <3>2, <3>3, <3>4, <3>5
  <2>3. CallOK(Len(s.fds), rest) /\ rest.stdio = call.stdio
    <3>1. DOMAIN call = {"fd", "bytes", "stdio"} /\ call.fd \in 0..Len(s.fds) /\ IsSeq(call.bytes)
      BY <1>2 DEF CallOK
    <3> HIDE DEF call
    <3>2. Len(call.bytes) \in Int /\ w + 1 \in Int
      BY <3>1, SeqFacts
    <3>3. IsSeq(SubSeq(call.bytes, w + 1, Len(call.bytes)))
      BY <3>2, PartFacts
    <3>4. /\ DOMAIN rest = DOMAIN call /\ rest.fd = call.fd /\ rest.bytes = SubSeq(call.bytes, w + 1, Len(call.bytes))
          /\ rest.stdio = call.stdio
      BY <3>1
    <3> QED  BY <3>1, <3>3, <3>4 DEF CallOK
  <2> HIDE DEF todo, rest
  <2>4. /\ DOMAIN u = DOMAIN s /\ u.todo = todo /\ u.at = s.at /\ u.next = s.next /\ u.args = s.args /\ u.moved = 0
        /\ u.mem = s.mem /\ u.fds = s.fds /\ u.obuf = s.obuf /\ u.buf = s.buf
    BY <1>1 DEF Shape
  <2> HIDE DEF u, r, call
  <2>5. Shape(u) /\ Place(u) = Place(s) /\ Place(s) = s.next
    BY <1>1, <2>2, <2>4 DEF Shape, Place
  <2>6. \A i \in 1..Len(u.todo) : CallOK(Len(u.fds), u.todo[i])
    BY <2>2, <2>3, <2>4 DEF LocalOK, Handles
  <2>7. u.todo # <<>>
    BY <1>1, <1>2, <2>2, <2>4, SeqFacts
  <2>8. c.name = "dd" /\ u.at = "write" => Len(u.todo) = 1 /\ (u.todo[1].stdio \/ u.next = "pour")
    BY <2>2, <2>3, <2>4 DEF LocalOK, Handles, call
  <2>9. Handles(c, u)
    BY <1>1, <2>4, <2>5, <2>6, <2>7, <2>8 DEF LocalOK, Handles
  <2> QED  BY <2>1, <2>4, <2>5, <2>9 DEF LocalOK, Remains, r
<1>6. CASE ~call.stdio /\ c.name = "dd"
  <2>1. Place(s) = "pour" /\ s.next = "pour"
    BY <1>6 DEF LocalOK, Handles, Place
  <2>2. DdKnows(c, t.mem)
    BY <1>4, <1>6, <2>1 DEF LocalOK, Knows
  <2>3. CASE w = -1
    <3> DEFINE u == [t EXCEPT !.ret = 1, !.at = "report"]
    <3>1. r = u
      BY <1>1, <1>6, <2>3 DEF Returned, Shifted
    <3>2. /\ DOMAIN u = DOMAIN t /\ u.at = "report" /\ u.todo = t.todo /\ u.next = t.next /\ u.args = t.args
          /\ u.mem = t.mem /\ u.fds = t.fds /\ u.obuf = t.obuf /\ u.buf = t.buf /\ u.moved = t.moved
      BY <1>4 DEF Shape
    <3> HIDE DEF u, r, t, call
    <3>3. Shape(u) /\ Place(u) = "report"
      BY <1>4, <3>2 DEF Shape, Place
    <3>4. Handles(c, u)
      BY <1>3, <3>2, <3>3 DEF LocalOK, Handles
    <3>5. Knows(c, u.mem, "report") /\ u.mem.out = <<>>
      BY <1>3, <1>6, <2>1, <3>2 DEF LocalOK, Knows
    <3> QED  BY <1>3, <3>1, <3>2, <3>3, <3>4, <3>5 DEF LocalOK, Remains, r
  <2>4. CASE w # -1
    <3> DEFINE m == Written(t.mem, w)
               u == [t EXCEPT !.mem = m]
    <3>1. r = u
      BY <1>1, <1>4, <1>6, <2>4 DEF Returned, Shifted, Shape
    <3>2. DdKnows(c, m) /\ m.out = <<>>
      <4>1. DOMAIN DdStart = {"ibs", "obs", "count", "iseek", "oseek", "in", "of", "trunc", "excl", "bad",
                              "room", "block", "content", "eof", "total_r", "total_w", "out", "stop"}
        BY DEF DdStart
      <4>2. /\ DOMAIN m = DOMAIN t.mem /\ m.total_w = t.mem.total_w + w
            /\ m.content = SubSeq(t.mem.content, w + 1, Len(t.mem.content))
            /\ m.count = t.mem.count /\ m.room = t.mem.room /\ m.block = t.mem.block
            /\ m.total_r = t.mem.total_r /\ m.out = t.mem.out /\ DdSame(t.mem, m)
        BY <2>2, <4>1 DEF DdKnows, Written, DdSame
      <4>3. Len(t.mem.content) \in Int /\ w + 1 \in Int
        BY <2>2, SeqFacts DEF DdKnows
      <4>4. IsSeq(m.content)
        BY <4>2, <4>3, PartFacts
      <4>5. t.mem.out = <<>>
        BY <1>4, <2>1 DEF LocalOK
      <4> HIDE DEF m, t
      <4> QED  BY <2>2, <4>1, <4>2, <4>4, <4>5 DEF DdKnows, DdSame
    <3> HIDE DEF m
    <3>3. /\ DOMAIN u = DOMAIN t /\ u.at = t.at /\ u.todo = t.todo /\ u.next = t.next /\ u.args = t.args
          /\ u.mem = m /\ u.fds = t.fds /\ u.obuf = t.obuf /\ u.buf = t.buf /\ u.moved = t.moved
      BY <1>4 DEF Shape
    <3> HIDE DEF u, r, t, call
    <3>4. Shape(u) /\ Place(u) = Place(t)
      BY <1>4, <3>3 DEF Shape, Place
    <3>5. Handles(c, u)
      BY <1>3, <3>3, <3>4 DEF LocalOK, Handles
    <3>6. Knows(c, u.mem, "pour") /\ u.mem.out = <<>>
      <4>1. "out" \in DOMAIN m
        BY <3>2 DEF DdKnows, DdStart
      <4>2. IsSeq(<<>>)
        BY EmptyIsSeq
      <4> QED  BY <1>6, <3>2, <3>3, <4>1, <4>2 DEF Knows
    <3> QED  BY <1>3, <2>1, <3>1, <3>3, <3>4, <3>5, <3>6 DEF LocalOK, Remains, r
  <2> QED  BY <2>3, <2>4
<1>7. CASE c.name = "tee" /\ w = -1
  <2>1. CASE call.fd = 0
    <3> DEFINE u == Ends([t EXCEPT !.todo = <<>>], 1)
    <3>1. r = u
      BY <1>1, <1>7, <2>1 DEF Returned, Shifted
    <3>2. /\ DOMAIN u = DOMAIN t /\ u.at = "exit" /\ u.todo = <<>> /\ u.args = t.args
          /\ u.mem = t.mem /\ u.fds = t.fds /\ u.obuf = t.obuf /\ u.buf = t.buf /\ u.moved = t.moved
      BY <1>4 DEF Shape, Ends
    <3>3. IsSeq(<<>>) /\ Len(<<>>) = 0
      BY EmptyIsSeq
    <3> HIDE DEF u, r, t, call
    <3>4. Shape(u) /\ Place(u) = "exit"
      BY <1>4, <3>2, <3>3 DEF Shape, Place
    <3>5. Handles(c, u)
      BY <1>3, <1>7, <3>2, <3>3, <3>4 DEF LocalOK, Handles
    <3> QED  BY <1>3, <3>1, <3>2, <3>4, <3>5 DEF LocalOK, Remains, r
  <2>2. CASE call.fd # 0
    <3> DEFINE fd == [t.fds[call.fd] EXCEPT !.name = "failed"]
               fds == [t.fds EXCEPT ![call.fd] = fd]
               u == [t EXCEPT !.ret = 1, !.fds = fds]
    <3>1. r = u
      BY <1>1, <1>7, <2>2 DEF Returned, Shifted
    <3>2. call.fd \in 1..Len(s.fds)
      BY <1>1, <1>2, <2>2 DEF CallOK
    <3>3. IsSeq(fds) /\ Len(fds) = Len(t.fds) /\ fds[call.fd] = fd /\ \A j \in 1..Len(t.fds) \ {call.fd} : fds[j] = t.fds[j]
      <4>0. fds = [t.fds EXCEPT ![call.fd] = fd]
        OBVIOUS
      <4> HIDE DEF fd, call, t, fds
      <4>1. IsSeq(t.fds) /\ call.fd \in 1..Len(t.fds)
        BY <1>4, <3>2 DEF Shape
      <4> QED  BY <4>0, <4>1, ReplaceFacts
    <3>4. FdOK(c, fd)
      <4>1. FdOK(c, t.fds[call.fd])
        BY <1>3, <1>4, <3>2 DEF LocalOK, Handles
      <4> HIDE DEF c, t, call
      <4> QED  BY <4>1 DEF FdOK
    <3> HIDE DEF fds, fd
    <3>5. /\ DOMAIN u = DOMAIN t /\ u.at = t.at /\ u.todo = t.todo /\ u.next = t.next /\ u.args = t.args
          /\ u.mem = t.mem /\ u.fds = fds /\ u.obuf = t.obuf /\ u.buf = t.buf /\ u.moved = t.moved
      BY <1>4 DEF Shape
    <3> HIDE DEF u, r, t, call
    <3>6. Shape(u) /\ Place(u) = Place(t)
      BY <1>4, <3>3, <3>5 DEF Shape, Place
    <3>7. \A i \in 1..Len(u.fds) : FdOK(c, u.fds[i])
      BY <1>3, <3>3, <3>4, <3>5 DEF LocalOK, Handles
    <3>8. Handles(c, u)
      BY <1>3, <1>7, <3>3, <3>5, <3>6, <3>7 DEF LocalOK, Handles
    <3> QED  BY <1>3, <3>1, <3>5, <3>6, <3>8 DEF LocalOK, Remains, r
  <2> QED  BY <2>1, <2>2
<1>8. CASE ~(call.stdio /\ w \in 0..(Len(call.bytes) - 1)) /\ ~(~call.stdio /\ c.name = "dd") /\ ~(c.name = "tee" /\ w = -1)
  <2>1. r = t
    BY <1>1, <1>8 DEF Returned, Shifted
  <2> QED  BY <1>3, <2>1
<1> QED  BY <1>5, <1>6, <1>7, <1>8

-------------------------------------------------------------------------------
(***************************************************************************)
(* The loops, one buffer at a time.                                        *)
(***************************************************************************)
LEMMA FunIsSeq ==
  ASSUME NEW n \in Nat, NEW f, DOMAIN f = 1..n, f = [i \in 1..n |-> f[i]]
  PROVE  IsSeq(f) /\ Len(f) = n
<1>1. f \in Seq({f[i] : i \in 1..n}) /\ Len(f) = n
  OBVIOUS
<1> QED  BY <1>1, SeqOfAny

\* The k-th element of a set of numbers.
LEMMA KthExists ==
  ASSUME NEW n \in Nat, NEW L \in SUBSET (1..n), NEW k \in 1..Cardinality(L)
  PROVE  \E i \in L : Cardinality({j \in L : j <= i}) = k
<1> DEFINE T == {m \in Nat : \A M \in SUBSET (1..m) : \A l \in 1..Cardinality(M) :
                               \E i \in M : Cardinality({j \in M : j <= i}) = l}
<1>1. 0 \in T
  <2>1. \A M \in SUBSET (1..0) : M = {}
    OBVIOUS
  <2>2. Cardinality({}) = 0
    BY FS_EmptySet
  <2>3. \A M \in SUBSET (1..0) : \A l : ~(l \in 1..Cardinality(M))
    BY <2>1, <2>2
  <2> QED  BY <2>3
<1>2. ASSUME NEW m \in Nat, m \in T PROVE m + 1 \in T
  <2> SUFFICES ASSUME NEW M \in SUBSET (1..(m + 1)), NEW l \in 1..Cardinality(M)
               PROVE  \E i \in M : Cardinality({j \in M : j <= i}) = l
    OBVIOUS
  <2>1. CASE m + 1 \notin M
    <3>1. M \in SUBSET (1..m)
      BY <2>1
    <3> QED  BY <1>2, <3>1
  <2>2. CASE m + 1 \in M
    <3> DEFINE K == M \ {m + 1}
    <3>1. K \in SUBSET (1..m) /\ IsFiniteSet(M) /\ IsFiniteSet(K)
      <4>1. IsFiniteSet(1..(m + 1)) /\ IsFiniteSet(1..m)
        BY FS_Interval
      <4>2. K \subseteq 1..m
        OBVIOUS
      <4> QED  BY <4>1, <4>2, FS_Subset
    <3>2. Cardinality(M) = Cardinality(K) + 1 /\ Cardinality(K) \in Nat
      <4>1. M = K \cup {m + 1} /\ m + 1 \notin K
        BY <2>2
      <4>2. Cardinality(K) \in Nat
        BY <3>1, FS_CardinalityType
      <4> HIDE DEF K
      <4> QED  BY <3>1, <4>1, <4>2, FS_AddElement
    <3>3. CASE l \in 1..Cardinality(K)
      <4>1. PICK i \in K : Cardinality({j \in K : j <= i}) = l
        BY <1>2, <3>1, <3>3
      <4>2. {j \in M : j <= i} = {j \in K : j <= i}
        BY <3>1
      <4> QED  BY <4>1, <4>2
    <3>4. CASE l = Cardinality(M)
      <4>0. \A j \in M : j <= m + 1
        OBVIOUS
      <4>1. {j \in M : j <= m + 1} = M
        BY <4>0
      <4> QED  BY <2>2, <3>4, <4>1
    <3>5. l \in 1..Cardinality(K) \/ l = Cardinality(M)
      <4> HIDE DEF K
      <4> QED  BY <3>2
    <3> QED  BY <3>3, <3>4, <3>5
  <2> QED  BY <2>1, <2>2
<1> HIDE DEF T
<1>3. n \in T
  BY <1>1, <1>2, InductionOnSet
<1> QED  BY <1>3 DEF T

LEMMA AfterLineIs ==
  ASSUME NEW buf, IsSeq(buf), NEW k \in 1..Cardinality(LinesIn(buf))
  PROVE  AfterLine(buf, k) \in 1..Len(buf)
<1> DEFINE L == LinesIn(buf)
<1>1. L \in SUBSET (1..Len(buf)) /\ Len(buf) \in Nat
  BY SeqFacts DEF LinesIn
<1> HIDE DEF L
<1>2. \E i \in L : Cardinality({j \in L : j <= i}) = k
  <2>1. k \in 1..Cardinality(L)
    BY DEF L
  <2> QED  BY <1>1, <2>1, KthExists
<1>3. AfterLine(buf, k) = CHOOSE i \in L : Cardinality({j \in L : j <= i}) = k
  BY DEF AfterLine, L
<1>4. AfterLine(buf, k) \in L
  BY <1>2, <1>3
<1> QED  BY <1>1, <1>4

LEMMA RowsIsSeq == ASSUME NEW bytes, IsSeq(bytes) PROVE IsSeq(Rows(bytes))
<1> DEFINE n == (Len(bytes) + Col - 1) \div Col
           row(i) == SubSeq(bytes, (i - 1) * Col + 1, Less(i * Col, Len(bytes)))
           parts == [i \in 1..n |-> Append(row(i), Newline)]
<1>1. Len(bytes) \in Nat /\ Col \in Nat \ {0}
  BY SeqFacts, PipelineAssumption
<1>2. n \in Nat
  BY <1>1
<1>3. ASSUME NEW i \in 1..n PROVE IsSeq(parts[i])
  <2>1. (i - 1) * Col + 1 \in Int /\ Less(i * Col, Len(bytes)) \in Int
    BY <1>1 DEF Less
  <2>2. IsSeq(row(i))
    BY <2>1, PartFacts
  <2> HIDE DEF row
  <2>3. IsSeq(Append(row(i), Newline))
    BY <2>2, MoreFacts
  <2> QED  BY <2>3
<1>4. Rows(bytes) = FlattenSeq(parts)
  BY DEF Rows
<1>5. parts = [i \in 1..n |-> parts[i]] /\ DOMAIN parts = 1..n
  OBVIOUS
<1> HIDE DEF parts, n
<1>6. IsSeq(parts) /\ Len(parts) = n
  BY <1>2, <1>5, FunIsSeq
<1> QED  BY <1>3, <1>4, <1>6, FlattenFacts

LEMMA StatIsSeq == ASSUME NEW opts, NEW s PROVE IsSeq(add_stat(opts, s))
<1> DEFINE asked(f, n) == IF opts = {} \/ f \in opts THEN <<Number(n)>> ELSE <<>>
           a == asked("lines", s.lines)
           b == asked("words", s.words)
           d == asked("bytes", s.bytes)
<1>1. \A f, n : IsSeq(asked(f, n))
  BY EmptyIsSeq, OneIsSeq
<1>2. add_stat(opts, s) = a \o b \o d
  BY DEF add_stat
<1>3. IsSeq(a) /\ IsSeq(b) /\ IsSeq(d)
  <2> HIDE DEF asked
  <2> QED  BY <1>1
<1> HIDE DEF a, b, d
<1>4. IsSeq(a \o b)
  BY <1>3, JoinFacts
<1>5. IsSeq(a \o b \o d)
  BY <1>3, <1>4, JoinFacts
<1> QED  BY <1>2, <1>5


\* What a loop knows after a buffer; what it may be left with.
Leaves(c, m) == Knows(c, m, "open") /\ (c.name = "hex" => "line" \in DOMAIN m /\ IsSeq(m.line))

LEMMA DigestOK ==
  ASSUME NEW p, NEW m, NEW bytes, IsSeq(bytes), Knows(Cmd(p), m, "read"), CommandOK(Cmd(p)),
         Cmd(p).name \in {"cat", "tr", "wc", "head", "hex"}
  PROVE  Leaves(Cmd(p), Digest(p, m, bytes)) /\ (~Digest(p, m, bytes).stop => Knows(Cmd(p), Digest(p, m, bytes), "read"))
<1> DEFINE c == Cmd(p)
           all == DigestBytes(p, m, bytes)
           r == Digest(p, m, bytes)
<1>0. "out" \in DOMAIN m /\ IsSeq(m.out)
  BY DEF Knows
<1>1. CASE c.name \in {"cat", "tr"}
  <2>1. r = all
    BY <1>1 DEF Digest
  <2>2. Keeps(m, all)
    BY <1>0, <1>1, DigestBytesKeeps
  <2> HIDE DEF r, all
  <2> QED  BY <1>0, <1>1, <2>1, <2>2 DEF Keeps, Knows, Leaves, r
<1>2. CASE c.name = "wc"
  <2>1. r = [all EXCEPT !.stop = Len(bytes) < BufSize]
    BY <1>2 DEF Digest
  <2>2. Keeps(m, all)
    BY <1>0, <1>2, DigestBytesKeeps
  <2>3. "grid" \in DOMAIN m /\ IsSeq(m.grid)
    BY <1>2 DEF Knows
  <2> HIDE DEF all
  <2>4. DOMAIN all = DOMAIN m /\ IsSeq(all.out) /\ all.grid = m.grid
    BY <2>2, <2>3 DEF Keeps
  <2>5. DOMAIN r = DOMAIN m /\ r.out = all.out /\ r.grid = all.grid
    BY <1>0, <2>1, <2>3, <2>4
  <2> HIDE DEF r
  <2> QED  BY <1>0, <1>2, <2>3, <2>4, <2>5 DEF Knows, Leaves, r
<1>3. CASE c.name = "head"
  <2> DEFINE opts == HeadFlags(c)
             n == HeadLimit(c)
             wanted == n - m.total
             found == Cardinality(LinesIn(bytes))
  <2>1. r = HeadBuffer(opts, n, m, bytes)
    BY <1>3 DEF Digest
  <2>2. "total" \in DOMAIN m /\ m.total \in Nat /\ ("lines" \in opts => m.total < n) /\ n \in Nat /\ Len(bytes) \in Nat
    BY <1>3, SeqFacts DEF Knows, HeadLimit, CommandOK
  <2>3. found \in Nat
    <3>1. LinesIn(bytes) \subseteq 1..Len(bytes)
      BY SeqFacts DEF LinesIn
    <3>2. IsFiniteSet(1..Len(bytes))
      BY <2>2, FS_Interval
    <3> QED  BY <3>1, <3>2, FS_Subset, FS_CardinalityType
  <2> HIDE DEF opts, n
  <2>4. CASE "lines" \in opts /\ found >= wanted
    <3> DEFINE part == SubSeq(bytes, 1, AfterLine(bytes, wanted))
    <3>1. r = [m EXCEPT !.out = part, !.stop = TRUE]
      BY <2>1, <2>4 DEF HeadBuffer
    <3>2. wanted \in 1..found
      BY <2>2, <2>3, <2>4
    <3>3. AfterLine(bytes, wanted) \in 1..Len(bytes)
      BY <3>2, AfterLineIs
    <3>4. AfterLine(bytes, wanted) \in Int
      BY <2>2, <3>3
    <3>5. IsSeq(part)
      BY <3>4, PartFacts
    <3> HIDE DEF part, r
    <3>6. DOMAIN r = DOMAIN m /\ r.out = part /\ ("stop" \in DOMAIN m => r.stop)
      BY <1>0, <3>1
    <3>7. r.total = m.total
      BY <2>2, <3>1
    <3>8. Leaves(c, r)
      BY <1>0, <1>3, <3>5, <3>6 DEF Knows, Leaves
    <3>9. Knows(c, r, "read")
      BY <1>0, <1>3, <2>2, <3>5, <3>6, <3>7 DEF Knows, opts, n
    <3> QED  BY <3>8, <3>9 DEF r
  <2>5. CASE "lines" \in opts /\ ~(found >= wanted)
    <3>1. r = [m EXCEPT !.out = bytes, !.total = @ + found]
      BY <2>1, <2>5 DEF HeadBuffer
    <3> HIDE DEF found
    <3>2. DOMAIN r = DOMAIN m /\ r.out = bytes /\ r.total = m.total + found
      BY <1>0, <2>2, <3>1
    <3> HIDE DEF r
    <3>3. r.total \in Nat /\ r.total < n
      BY <2>2, <2>3, <2>5, <3>2
    <3> QED  BY <1>0, <1>3, <3>2, <3>3 DEF Knows, Leaves, n, r
  <2>6. CASE "lines" \notin opts
    <3> DEFINE part == SubSeq(bytes, 1, wanted)
    <3>1. \/ r = [m EXCEPT !.out = part, !.stop = TRUE]
          \/ r = [m EXCEPT !.out = bytes, !.total = @ + Len(bytes)]
      BY <2>1, <2>6 DEF HeadBuffer
    <3>2. IsSeq(part)
      <4>1. wanted \in Int
        BY <2>2
      <4> QED  BY <4>1, PartFacts
    <3> HIDE DEF part
    <3>4. CASE r = [m EXCEPT !.out = part, !.stop = TRUE]
      <4> HIDE DEF r
      <4>1. DOMAIN r = DOMAIN m /\ r.out = part /\ r.total = m.total
        BY <1>0, <2>2, <3>4
      <4> QED  BY <1>0, <1>3, <2>2, <2>6, <3>2, <4>1 DEF Knows, Leaves, opts, r
    <3>5. CASE r = [m EXCEPT !.out = bytes, !.total = @ + Len(bytes)]
      <4> HIDE DEF r
      <4>1. DOMAIN r = DOMAIN m /\ r.out = bytes /\ r.total = m.total + Len(bytes)
        BY <1>0, <2>2, <3>5
      <4> QED  BY <1>0, <1>3, <2>2, <2>6, <4>1 DEF Knows, Leaves, opts, r
    <3> QED  BY <3>1, <3>4, <3>5
  <2> QED  BY <2>4, <2>5, <2>6
<1>4. CASE c.name = "hex"
  <2> DEFINE limit == "length" \in c.flags
             some == IF limit /\ Len(bytes) > c.n - m.total THEN SubSeq(bytes, 1, c.n - m.total) ELSE bytes
             row == m.line \o some
             full == Len(row) - (Len(row) % Col)
             left == SubSeq(row, full + 1, Len(row))
             rows == Rows(SubSeq(row, 1, full))
             s == [m EXCEPT !.total = @ + Len(some), !.line = left, !.out = rows]
  <2>1. r = IF limit /\ m.total >= c.n THEN [m EXCEPT !.stop = TRUE] ELSE s
    BY <1>4 DEF Digest, HexBuffer
  <2>2. {"total", "line"} \subseteq DOMAIN m /\ m.total \in Nat /\ IsSeq(m.line) /\ c.n \in Nat /\ Col \in Nat \ {0}
    BY <1>4, PipelineAssumption DEF Knows, CommandOK
  <2>3. IsSeq(some) /\ Len(some) \in Nat
    <3>1. c.n - m.total \in Int
      BY <2>2
    <3>2. IsSeq(some)
      BY <3>1, PartFacts
    <3> HIDE DEF some
    <3> QED  BY <3>2, SeqFacts
  <2> HIDE DEF some
  <2>4. IsSeq(row) /\ Len(row) \in Nat
    <3>1. IsSeq(row)
      BY <2>2, <2>3, JoinFacts
    <3> HIDE DEF row
    <3> QED  BY <3>1, SeqFacts
  <2> HIDE DEF row
  <2>5. full \in Int /\ full + 1 \in Int
    BY <2>2, <2>4
  <2> HIDE DEF full
  <2>6. IsSeq(left) /\ IsSeq(rows)
    <3>1. IsSeq(left) /\ IsSeq(SubSeq(row, 1, full))
      BY <2>4, <2>5, PartFacts
    <3> QED  BY <3>1, RowsIsSeq
  <2> HIDE DEF left, rows
  <2>7. DOMAIN s = DOMAIN m /\ s.total = m.total + Len(some) /\ s.line = left /\ s.out = rows
    BY <1>0, <2>2
  <2>8. DOMAIN r = DOMAIN m /\ r.total \in Nat /\ IsSeq(r.line) /\ IsSeq(r.out)
    <3>1. CASE limit /\ m.total >= c.n
      <4>1. r = [m EXCEPT !.stop = TRUE]
        BY <2>1, <3>1
      <4> HIDE DEF r
      <4>2. DOMAIN r = DOMAIN m /\ r.total = m.total /\ r.line = m.line /\ r.out = m.out
        BY <1>0, <2>2, <4>1
      <4> QED  BY <1>0, <2>2, <4>2
    <3>2. CASE ~(limit /\ m.total >= c.n)
      <4>1. r = s
        BY <2>1, <3>2
      <4> HIDE DEF r, s
      <4> QED  BY <2>2, <2>3, <2>6, <2>7, <4>1
    <3> QED  BY <3>1, <3>2
  <2> HIDE DEF r
  <2> QED  BY <1>0, <1>4, <2>2, <2>8 DEF Knows, Leaves, r
<1> QED  BY <1>1, <1>2, <1>3, <1>4

LEMMA RetOK ==
  ASSUME NEW c, NEW s, NEW ret, LocalOK(c, s)
  PROVE  /\ LocalOK(c, [s EXCEPT !.ret = ret]) /\ Place([s EXCEPT !.ret = ret]) = Place(s)
         /\ [s EXCEPT !.ret = ret].ret = ret
<1> DEFINE t == [s EXCEPT !.ret = ret]
<1>1. /\ DOMAIN t = DOMAIN s /\ t.at = s.at /\ t.args = s.args /\ t.buf = s.buf /\ t.obuf = s.obuf /\ t.mem = s.mem
      /\ t.fds = s.fds /\ t.todo = s.todo /\ t.moved = s.moved /\ t.next = s.next /\ t.ret = ret
  BY DEF LocalOK, Shape
<1> HIDE DEF t
<1> QED  BY <1>1 DEF LocalOK, Shape, Handles, Remains, Place, t

\* Left changes ret and prints what is left to print.
LEMMA LeftFacts ==
  ASSUME NEW p, NEW s, NEW m, NEW error \in BOOLEAN, Leaves(Cmd(p), m),
         Cmd(p).name \in {"cat", "tr", "wc", "head", "hex"}
  PROVE  \E n : /\ Left(p, s, m, error) = Printed([s EXCEPT !.ret = IF error THEN 1 ELSE @], n,
                                                  IF Cmd(p).name = "tr" THEN "exit" ELSE "open")
                /\ Knows(Cmd(p), n, "open") /\ (Cmd(p).name = "cat" => n = m)
<1> DEFINE c == Cmd(p)
           name == IF c.args = <<>> THEN <<Newline>> ELSE <<AName, Newline>>
           t == [s EXCEPT !.ret = IF error THEN 1 ELSE @]
           l == Left(p, s, m, error)
<1>0. "out" \in DOMAIN m /\ IsSeq(m.out) /\ Knows(c, m, "open")
  BY DEF Leaves, Knows
<1>1. CASE c.name \in {"cat", "head"}
  <2>1. l = Printed(t, m, "open")
    BY <1>1 DEF Left
  <2> QED  BY <1>0, <1>1, <2>1
<1>2. CASE c.name = "tr"
  <2>1. l = Printed(t, m, "exit")
    BY <1>2 DEF Left
  <2> QED  BY <1>0, <1>2, <2>1
<1>3. CASE c.name = "hex"
  <2> DEFINE all == m.out \o Rows(m.line)
             n == [m EXCEPT !.out = all]
  <2>1. l = Printed(t, n, "open")
    BY <1>3 DEF Left
  <2>2. IsSeq(all)
    <3>1. IsSeq(m.line)
      BY <1>3 DEF Leaves
    <3> QED  BY <1>0, <3>1, RowsIsSeq, JoinFacts
  <2> HIDE DEF all
  <2>3. DOMAIN n = DOMAIN m /\ n.out = all
    BY <1>0
  <2>4. Knows(c, n, "open")
    <3> HIDE DEF n
    <3> QED  BY <1>0, <1>3, <2>2, <2>3 DEF Knows
  <2> QED  BY <1>3, <2>1, <2>4
<1>4. CASE c.name = "wc"
  <2> DEFINE grid == m.grid \o add_stat(c.flags, m) \o name
             n == [m EXCEPT !.grid = grid, !.sums = Added(@, m)]
  <2>1. l = Printed(t, n, "open")
    BY <1>4 DEF Left
  <2>2. IsSeq(grid)
    <3> DEFINE stat == add_stat(c.flags, m)
    <3>1. IsSeq(m.grid) /\ IsSeq(stat) /\ IsSeq(name)
      BY <1>4, StatIsSeq, OneIsSeq, TwoIsSeq DEF Leaves, Knows
    <3> HIDE DEF stat, name
    <3>2. IsSeq(m.grid \o stat)
      BY <3>1, JoinFacts
    <3>3. IsSeq(m.grid \o stat \o name)
      BY <3>1, <3>2, JoinFacts
    <3> QED  BY <3>3 DEF stat
  <2> HIDE DEF grid
  <2>3. DOMAIN n = DOMAIN m /\ n.out = m.out /\ n.grid = grid
    BY <1>0, <1>4 DEF Knows
  <2>4. Knows(c, n, "open")
    <3> HIDE DEF n
    <3> QED  BY <1>0, <1>4, <2>2, <2>3 DEF Knows
  <2> QED  BY <1>4, <2>1, <2>4
<1> QED  BY <1>1, <1>2, <1>3, <1>4

LEMMA LeftOK ==
  ASSUME NEW p, NEW s, NEW m, NEW error \in BOOLEAN, Leaves(Cmd(p), m), LocalOK(Cmd(p), s),
         Cmd(p).name \in {"cat", "tr", "wc", "head", "hex"}
  PROVE  LocalOK(Cmd(p), Left(p, s, m, error)) /\ Place(Left(p, s, m, error)) \in {"open", "exit"}
<1> DEFINE c == Cmd(p)
           ret == IF error THEN 1 ELSE s.ret
           t == [s EXCEPT !.ret = ret]
           next == IF c.name = "tr" THEN "exit" ELSE "open"
<1>1. PICK n : Left(p, s, m, error) = Printed(t, n, next) /\ Knows(c, n, "open")
  BY LeftFacts
<1>2. LocalOK(c, t)
  BY RetOK
<1>3. "out" \in DOMAIN n /\ IsSeq(n.out)
  BY <1>1 DEF Knows
<1>4. next # "write" /\ (next \notin {"start", "exit"} => next = "open") /\ next \in {"open", "exit"}
  OBVIOUS
<1> HIDE DEF next, t
<1>5. LocalOK(c, Printed(t, n, next)) /\ Place(Printed(t, n, next)) = next
  BY <1>1, <1>2, <1>3, <1>4, PrintedOK
<1> QED  BY <1>1, <1>4, <1>5


\* The calls of a copying program that stand behind each other: stdout is the last.
CopyCalls(fds, todo, bytes) ==
  /\ IsSeq(todo) /\ Len(todo) >= 1 /\ todo[Len(todo)].fd = 0
  /\ \A i \in 1..Len(todo) : CallOK(Len(fds), todo[i]) /\ todo[i].bytes = bytes /\ ~todo[i].stdio
  /\ \A i \in 1..(Len(todo) - 1) : todo[i].fd # 0 /\ fds[todo[i].fd].name # "failed"
  /\ \A i, j \in 1..(Len(todo) - 1) : i < j => todo[i].fd < todo[j].fd

LEMMA OutputsFacts ==
  ASSUME NEW s, IsSeq(s.fds)
  PROVE  \E r : Outputs(s) = Append(r, 0) /\ Picks(r, {i \in 1..Len(s.fds) : s.fds[i].name # "failed"}, Len(s.fds))
<1> DEFINE n == Len(s.fds)
           T == {i \in 1..n : s.fds[i].name # "failed"}
           parts == [i \in DOMAIN s.fds |-> IF s.fds[i].name = "failed" THEN <<>> ELSE <<i>>]
<1>1. n \in Nat /\ DOMAIN s.fds = 1..n
  BY SeqFacts
<1>2. parts = [i \in 1..n |-> parts[i]] /\ T \in SUBSET (1..n)
  BY <1>1
<1>3. \A i \in 1..n : parts[i] = IF i \in T THEN <<i>> ELSE <<>>
  BY <1>1
<1>4. Outputs(s) = Append(FlattenSeq(parts), 0)
  BY DEF Outputs
<1> HIDE DEF parts, T, n
<1>5. Picks(FlattenSeq(parts), T, n)
  BY <1>1, <1>2, <1>3, PickedFacts
<1> QED  BY <1>4, <1>5 DEF T, n

LEMMA CallsFacts ==
  ASSUME NEW s, NEW bytes, IsSeq(s.fds), IsSeq(bytes)
  PROVE  LET calls == [i \in DOMAIN Outputs(s) |-> Call(Outputs(s)[i], bytes)] IN
         /\ CopyCalls(s.fds, calls, bytes)
         /\ \A k \in 1..Len(s.fds) : s.fds[k].name # "failed" => \E i \in 1..(Len(calls) - 1) : calls[i].fd = k
<1> DEFINE o == Outputs(s)
           calls == [i \in DOMAIN o |-> Call(o[i], bytes)]
           T == {i \in 1..Len(s.fds) : s.fds[i].name # "failed"}
<1>1. PICK r : o = Append(r, 0) /\ Picks(r, T, Len(s.fds))
  BY OutputsFacts
<1> DEFINE n == Len(r)
<1> HIDE DEF o
<1>2. /\ IsSeq(r) /\ n \in Nat /\ \A j \in 1..n : r[j] \in T
      /\ \A i \in T : i <= Len(s.fds) => \E j \in 1..n : r[j] = i
      /\ \A i, j \in 1..n : i < j => r[i] < r[j]
  BY <1>1, SeqFacts DEF Picks
<1>3. Len(s.fds) \in Nat
  BY SeqFacts
<1>4. IsSeq(o) /\ Len(o) = n + 1 /\ o[n + 1] = 0
  BY <1>1, <1>2, MoreFacts
<1>5. \A i \in 1..n : o[i] = r[i]
  BY <1>1, <1>2, MoreFacts
<1>6. DOMAIN o = 1..(n + 1)
  BY <1>4, SeqFacts
<1>7. /\ DOMAIN calls = 1..(n + 1) /\ calls = [i \in 1..(n + 1) |-> calls[i]]
      /\ \A i \in 1..(n + 1) : calls[i] = Call(o[i], bytes)
  BY <1>6
<1> HIDE DEF calls, n
<1>8. IsSeq(calls) /\ Len(calls) = n + 1
  <2>1. n + 1 \in Nat
    BY <1>2
  <2> QED  BY <1>7, <2>1, FunIsSeq
<1>9. ASSUME NEW i \in 1..(n + 1)
      PROVE  CallOK(Len(s.fds), calls[i]) /\ calls[i].bytes = bytes /\ ~calls[i].stdio /\ calls[i].fd = o[i]
  <2>1. o[i] \in 0..Len(s.fds)
    <3>1. CASE i = n + 1
      BY <1>3, <1>4, <3>1
    <3>2. CASE i \in 1..n
      BY <1>2, <1>3, <1>5, <3>2
    <3>3. i = n + 1 \/ i \in 1..n
      BY <1>2
    <3> QED  BY <3>1, <3>2, <3>3
  <2>2. calls[i] = [fd |-> o[i], bytes |-> bytes, stdio |-> FALSE]
    BY <1>7 DEF Call
  <2> QED  BY <2>1, <2>2 DEF CallOK
<1>10. \A i \in 1..n : i \in 1..(n + 1)
  BY <1>2
<1>11. ASSUME NEW i \in 1..n
       PROVE  calls[i].fd = r[i] /\ calls[i].fd # 0 /\ s.fds[calls[i].fd].name # "failed"
  <2>1. calls[i].fd = r[i] /\ r[i] \in T
    BY <1>2, <1>5, <1>9, <1>10
  <2> QED  BY <1>3, <2>1
<1>12. Len(calls) - 1 = n /\ calls[n + 1].fd = 0 /\ n + 1 >= 1
  BY <1>2, <1>4, <1>8, <1>9
<1>13. CopyCalls(s.fds, calls, bytes)
  BY <1>2, <1>8, <1>9, <1>11, <1>12 DEF CopyCalls
<1>14. ASSUME NEW k \in 1..Len(s.fds), s.fds[k].name # "failed" PROVE \E i \in 1..n : calls[i].fd = k
  <2>1. k \in T /\ k <= Len(s.fds)
    BY <1>3, <1>14
  <2>2. PICK j \in 1..n : r[j] = k
    BY <1>2, <2>1
  <2> QED  BY <1>11, <2>2
<1> QED  BY <1>12, <1>13, <1>14 DEF calls, o

LEMMA CallsCopy ==
  ASSUME NEW s, NEW bytes, IsSeq(s.fds), IsSeq(bytes),
         NEW calls, calls = [i \in DOMAIN Outputs(s) |-> Call(Outputs(s)[i], bytes)]
  PROVE  CopyCalls(s.fds, calls, bytes)
BY CallsFacts

Reaches(fds, calls) ==
  \A i \in 1..Len(fds) : fds[i].name # "failed" => \E j \in 1..(Len(calls) - 1) : calls[j].fd = i

LEMMA CallsReach ==
  ASSUME NEW s, NEW bytes, IsSeq(s.fds), IsSeq(bytes),
         NEW calls, calls = [i \in DOMAIN Outputs(s) |-> Call(Outputs(s)[i], bytes)]
  PROVE  Reaches(s.fds, calls)
BY CallsFacts DEF Reaches

LEMMA ConsumedCopies ==
  ASSUME NEW p, NEW s, NEW bytes, Copies(p), LocalOK(Cmd(p), s), s.at = "read", IsSeq(bytes), Cmd(p).name # "dd"
  PROVE  LET calls == [i \in DOMAIN Outputs(s) |-> Call(Outputs(s)[i], bytes)]
         IN  /\ Consumed(p, s, bytes) = Writes(s, calls, "read")
             /\ LocalOK(Cmd(p), Consumed(p, s, bytes)) /\ Place(Consumed(p, s, bytes)) = "read"
<1> DEFINE calls == [i \in DOMAIN Outputs(s) |-> Call(Outputs(s)[i], bytes)]
<1>1. Consumed(p, s, bytes) = Writes(s, calls, "read")
  BY DEF Consumed
<1>2. IsSeq(s.fds)
  BY DEF LocalOK, Shape
<1>3. CopyCalls(s.fds, calls, bytes)
  BY <1>2, CallsFacts
<1> HIDE DEF calls
<1>4. IsSeq(calls) /\ calls # <<>> /\ \A i \in 1..Len(calls) : CallOK(Len(s.fds), calls[i])
  <2>1. IsSeq(calls) /\ Len(calls) >= 1 /\ \A i \in 1..Len(calls) : CallOK(Len(s.fds), calls[i])
    BY <1>3 DEF CopyCalls
  <2>2. Len(calls) # 0
    BY <2>1
  <2> QED  BY <2>1, <2>2, SeqFacts
<1>5. LocalOK(Cmd(p), Writes(s, calls, "read")) /\ Place(Writes(s, calls, "read")) = "read"
  BY <1>4, WritesOK
<1> QED  BY <1>1, <1>5 DEF calls

LEMMA ConsumedOK ==
  ASSUME NEW p, NEW s, NEW bytes, LocalOK(Cmd(p), s), s.at = "read", IsSeq(bytes), CommandOK(Cmd(p)),
         Cmd(p).name \in {"cat", "tee", "tr", "wc", "head", "hex"}
  PROVE  LocalOK(Cmd(p), Consumed(p, s, bytes)) /\ Place(Consumed(p, s, bytes)) \in {"read", "open", "exit"}
<1> DEFINE c == Cmd(p)
<1>1. CASE Copies(p)
  BY <1>1, ConsumedCopies
<1>2. CASE ~Copies(p)
  <2> DEFINE m == Digest(p, s.mem, bytes)
             ret == IF c.name = "tr" THEN 1 ELSE s.ret
             t == [s EXCEPT !.ret = ret]
  <2>1. Consumed(p, s, bytes) = IF m.stop THEN Left(p, t, m, FALSE) ELSE Printed(s, m, "read")
    <3> HIDE DEF m
    <3> DEFINE f(y) == IF y.stop THEN Left(p, t, y, FALSE) ELSE Printed(s, y, "read")
    <3>1. Consumed(p, s, bytes) = CHOOSE r \in {f(y) : y \in {m}} : TRUE
      BY <1>2 DEF Consumed, Using, m
    <3> HIDE DEF f
    <3>2. Consumed(p, s, bytes) = f(m)
      BY <3>1
    <3> QED  BY <3>2 DEF f
  <2>2. c.name \in {"cat", "tr", "wc", "head", "hex"}
    BY <1>2 DEF Copies
  <2>3. Place(s) = "read"
    BY DEF Place
  <2>4. Knows(c, s.mem, "read")
    BY <2>3 DEF LocalOK
  <2>5. Leaves(c, m) /\ (~m.stop => Knows(c, m, "read"))
    BY <2>2, <2>4, DigestOK
  <2>6. LocalOK(c, t)
    BY RetOK
  <2> HIDE DEF m, t
  <2>7. CASE m.stop
    <3>1. LocalOK(c, Left(p, t, m, FALSE)) /\ Place(Left(p, t, m, FALSE)) \in {"open", "exit"}
      BY <2>2, <2>5, <2>6, LeftOK
    <3> QED  BY <2>1, <2>7, <3>1
  <2>8. CASE ~m.stop
    <3>1. "out" \in DOMAIN m /\ IsSeq(m.out)
      BY <2>5 DEF Leaves, Knows
    <3>2. LocalOK(c, Printed(s, m, "read")) /\ Place(Printed(s, m, "read")) = "read"
      BY <2>2, <2>5, <2>8, <3>1, PrintedOK
    <3> QED  BY <2>1, <2>8, <3>2
  <2> QED  BY <2>7, <2>8
<1> QED  BY <1>1, <1>2

\* A buffer that fread fills, and a block.
LEMMA BufOK ==
  ASSUME NEW c, NEW s, NEW buf, LocalOK(c, s), IsSeq(buf)
  PROVE  LocalOK(c, [s EXCEPT !.buf = buf]) /\ Place([s EXCEPT !.buf = buf]) = Place(s)
<1> DEFINE t == [s EXCEPT !.buf = buf]
<1>1. /\ DOMAIN t = DOMAIN s /\ t.at = s.at /\ t.args = s.args /\ t.buf = buf /\ t.obuf = s.obuf /\ t.mem = s.mem
      /\ t.fds = s.fds /\ t.todo = s.todo /\ t.moved = s.moved /\ t.next = s.next
  BY DEF LocalOK, Shape
<1> HIDE DEF t
<1> QED  BY <1>1 DEF LocalOK, Shape, Handles, Remains, Place, t

\* dd goes on at `place` and knows m.
LEMMA DdGoesOn ==
  ASSUME NEW c, NEW s, NEW m, NEW place, LocalOK(c, s), c.name = "dd", DdKnows(c, m), m.out = <<>>,
         Place(s) \in {"read", "pour", "seek"}, s.at # "write", place \in {"read", "pour", "report"}
  PROVE  LocalOK(c, [s EXCEPT !.mem = m, !.at = place]) /\ Place([s EXCEPT !.mem = m, !.at = place]) = place
<1> DEFINE t == [s EXCEPT !.mem = m, !.at = place]
<1>1. /\ DOMAIN t = DOMAIN s /\ t.at = place /\ t.args = s.args /\ t.buf = s.buf /\ t.obuf = s.obuf /\ t.mem = m
      /\ t.fds = s.fds /\ t.todo = s.todo /\ t.moved = s.moved /\ t.next = s.next
  BY DEF LocalOK, Shape
<1>3. "out" \in DOMAIN m /\ IsSeq(m.out)
  BY EmptyIsSeq DEF DdKnows, DdStart
<1> HIDE DEF t
<1>4. Place(t) = place
  BY <1>1 DEF Place
<1>5. LocalOK(c, t)
  BY <1>1, <1>3, <1>4 DEF LocalOK, Shape, Handles, Remains, Knows
<1> QED  BY <1>4, <1>5 DEF t

LEMMA DdStays ==
  ASSUME NEW c, NEW s, NEW m, LocalOK(c, s), c.name = "dd", DdKnows(c, m), m.out = <<>>, s.at \in {"read", "pour"}
  PROVE  LocalOK(c, [s EXCEPT !.mem = m]) /\ Place([s EXCEPT !.mem = m]) = s.at
<1> DEFINE t == [s EXCEPT !.mem = m]
<1>1. /\ DOMAIN t = DOMAIN s /\ t.at = s.at /\ t.args = s.args /\ t.buf = s.buf /\ t.obuf = s.obuf /\ t.mem = m
      /\ t.fds = s.fds /\ t.todo = s.todo /\ t.moved = s.moved /\ t.next = s.next
  BY DEF LocalOK, Shape
<1>2. "out" \in DOMAIN m /\ IsSeq(m.out)
  BY EmptyIsSeq DEF DdKnows, DdStart
<1> HIDE DEF t
<1>3. Place(t) = s.at /\ Place(s) = s.at
  BY <1>1 DEF Place
<1>4. LocalOK(c, t)
  BY <1>1, <1>2, <1>3 DEF LocalOK, Shape, Handles, Remains, Knows
<1> QED  BY <1>3, <1>4 DEF t

LEMMA DdFields ==
  /\ DOMAIN DdStart = {"ibs", "obs", "count", "iseek", "oseek", "in", "of", "trunc", "excl", "bad",
                       "room", "block", "content", "eof", "total_r", "total_w", "out", "stop"}
BY DEF DdStart

\* DdKnows says nothing of what is not among these fields.
LEMMA DdKnowsStays ==
  ASSUME NEW c, NEW m, NEW r, DdKnows(c, m), DOMAIN r = DOMAIN m, DdSame(m, r),
         r.count \in Nat, r.room \in Int, IsSeq(r.block), IsSeq(r.content), r.total_r \in Nat, r.total_w \in Int
  PROVE  DdKnows(c, r)
BY DEF DdKnows, DdSame

LEMMA BlockDoneOK ==
  ASSUME NEW c, NEW m, NEW block, DdKnows(c, m), IsSeq(block)
  PROVE  DdKnows(c, BlockDone(m, block)) /\ BlockDone(m, block).out = m.out
<1> DEFINE all == m.content \o block
           room == IF Len(block) < m.ibs THEN 0 ELSE m.room - Len(block)
           r == BlockDone(m, block)
<1>1. IsSeq(all) /\ room \in Int /\ IsSeq(<<>>)
  <2>1. IsSeq(m.content) /\ m.room \in Int /\ Len(block) \in Nat
    BY SeqFacts DEF DdKnows
  <2>2. IsSeq(all)
    BY <2>1, JoinFacts
  <2>3. room \in Int
    BY <2>1
  <2> QED  BY <2>2, <2>3, EmptyIsSeq
<1>2. r = [m EXCEPT !.content = all, !.room = room, !.block = <<>>]
  BY DEF BlockDone
<1> HIDE DEF all, room, r
<1>3. /\ DOMAIN r = DOMAIN m /\ r.content = all /\ r.room = room /\ r.block = <<>> /\ DdSame(m, r) /\ r.count = m.count
      /\ r.total_r = m.total_r /\ r.total_w = m.total_w /\ r.out = m.out
  BY <1>2, DdFields DEF DdKnows, DdSame
<1>4. DdKnows(c, r)
  <2>1. m.count \in Nat /\ m.total_r \in Nat /\ m.total_w \in Int
    BY DEF DdKnows
  <2> QED  BY <1>1, <1>3, <2>1, DdKnowsStays
<1> QED  BY <1>3, <1>4 DEF r

LEMMA SizesAreNat ==
  ASSUME NEW c, NEW m, DdKnows(c, m), CommandOK(c), c.name = "dd"
  PROVE  /\ m.ibs \in Nat /\ m.obs \in Nat /\ m.iseek \in Nat /\ m.oseek \in Nat /\ Bs(m) \in Nat
         /\ m.in \in FileName \cup {"stdin"} /\ m.of \in FileName \cup {"stdout"}
         /\ Size(m.ibs * m.count) \in Nat /\ Size(m.ibs * m.iseek) \in Nat /\ Size(m.obs * m.oseek) \in Nat
<1> DEFINE o == Operands(c.args)
<1>1. o \in DdRecords
  <2>1. IsSeq(c.args) /\ \A i \in 1..Len(c.args) : OperandOK(c.args[i])
    BY SeqFacts DEF CommandOK
  <2> QED  BY <2>1, OperandsOK
<1>2. DdSame(o, m) /\ m.count \in Nat
  BY DEF DdKnows
<1> HIDE DEF o
<1>3. /\ m.ibs \in Nat /\ m.obs \in Nat /\ m.iseek \in Nat /\ m.oseek \in Nat
      /\ m.in \in FileName \cup {"stdin"} /\ m.of \in FileName \cup {"stdout"}
  BY <1>1, <1>2 DEF DdSame, DdRecords
<1>4. Bs(m) \in Nat
  BY <1>3 DEF Bs
<1>5. m.ibs * m.count \in Int /\ m.ibs * m.iseek \in Int /\ m.obs * m.oseek \in Int
  BY <1>2, <1>3
<1>6. \A n \in Int : Size(n) \in Nat
  BY SizeFacts
<1>7. Size(m.ibs * m.count) \in Nat /\ Size(m.ibs * m.iseek) \in Nat /\ Size(m.obs * m.oseek) \in Nat
  BY <1>5, <1>6
<1> QED  BY <1>3, <1>4, <1>7

LEMMA NewRoundOK ==
  ASSUME NEW c, NEW m, DdKnows(c, m), CommandOK(c), c.name = "dd"
  PROVE  DdKnows(c, NewRound(m)) /\ NewRound(m).out = m.out
<1> DEFINE room == Less(Bs(m), Size(m.ibs * m.count))
           r == NewRound(m)
<1>1. room \in Int /\ IsSeq(<<>>)
  BY SizesAreNat, EmptyIsSeq DEF Less
<1>2. r = [m EXCEPT !.room = room, !.block = <<>>, !.content = <<>>]
  BY DEF NewRound
<1> HIDE DEF room, r
<1>3. /\ DOMAIN r = DOMAIN m /\ r.content = <<>> /\ r.room = room /\ r.block = <<>> /\ DdSame(m, r) /\ r.count = m.count
      /\ r.total_r = m.total_r /\ r.total_w = m.total_w /\ r.out = m.out
  BY <1>2, DdFields DEF DdKnows, DdSame
<1>4. DdKnows(c, r)
  <2>1. m.count \in Nat /\ m.total_r \in Nat /\ m.total_w \in Int
    BY DEF DdKnows
  <2> QED  BY <1>1, <1>3, <2>1, DdKnowsStays
<1> QED  BY <1>3, <1>4 DEF r

LEMMA AllReadOK ==
  ASSUME NEW c, NEW m, DdKnows(c, m)
  PROVE  DdKnows(c, AllRead(m)) /\ AllRead(m).out = m.out
<1> DEFINE r == AllRead(m)
<1>1. /\ DOMAIN r = DOMAIN m /\ r.content = m.content /\ r.room = m.room /\ r.block = m.block /\ DdSame(m, r)
      /\ r.count = m.count /\ r.total_r = m.total_r + Len(m.content) /\ r.total_w = m.total_w /\ r.out = m.out
  BY DdFields DEF DdKnows, DdSame, AllRead
<1> HIDE DEF r
<1>2. DdKnows(c, r)
  <2>1. m.count \in Nat /\ m.total_r \in Nat /\ m.total_w \in Int /\ Len(m.content) \in Nat
        /\ IsSeq(m.content) /\ IsSeq(m.block) /\ m.room \in Int
    BY SeqFacts DEF DdKnows
  <2>2. r.total_r \in Nat
    BY <1>1, <2>1
  <2> QED  BY <1>1, <2>1, <2>2, DdKnowsStays
<1> QED  BY <1>1, <1>2 DEF r

LEMMA CountedOK ==
  ASSUME NEW c, NEW m, DdKnows(c, m), CommandOK(c), c.name = "dd", m.ibs # 0
  PROVE  DdKnows(c, Counted(m)) /\ Counted(m).out = m.out
<1> DEFINE r == Counted(m)
           count == Size(m.count - Bs(m) \div m.ibs)
<1>1. count \in Nat
  <2>1. m.count \in Nat /\ Bs(m) \in Nat /\ m.ibs \in Nat
    BY SizesAreNat DEF DdKnows
  <2>2. m.count - Bs(m) \div m.ibs \in Int
    BY <2>1
  <2>3. \A n \in Int : Size(n) \in Nat
    BY SizeFacts
  <2> QED  BY <2>2, <2>3
<1>2. r = [m EXCEPT !.count = count]
  BY DEF Counted
<1> HIDE DEF r, count
<1>3. /\ DOMAIN r = DOMAIN m /\ r.content = m.content /\ r.room = m.room /\ r.block = m.block /\ DdSame(m, r)
      /\ r.count = count /\ r.total_r = m.total_r /\ r.total_w = m.total_w /\ r.out = m.out
  BY <1>2, DdFields DEF DdKnows, DdSame
<1>4. DdKnows(c, r)
  <2>1. IsSeq(m.content) /\ IsSeq(m.block) /\ m.room \in Int /\ m.total_r \in Nat /\ m.total_w \in Int
    BY DEF DdKnows
  <2> QED  BY <1>1, <1>3, <2>1, DdKnowsStays
<1> QED  BY <1>3, <1>4 DEF r

LEMMA GotOK ==
  ASSUME NEW p, NEW s, NEW bytes, LocalOK(Cmd(p), s), s.at = "read", IsSeq(bytes), CommandOK(Cmd(p)),
         Cmd(p).name # "yes"
  PROVE  LocalOK(Cmd(p), Got(p, s, bytes)) /\ Place(Got(p, s, bytes)) \in {"read", "open", "exit"}
<1> DEFINE c == Cmd(p)
<1>1. IsSeq(s.buf) /\ Place(s) = "read" /\ Knows(c, s.mem, "read") /\ s.mem.out = <<>>
  BY DEF LocalOK, Shape, Place
<1>2. CASE c.name = "dd"
  <2> DEFINE block == s.mem.block \o bytes
             n == [s.mem EXCEPT !.block = block]
             m == IF Len(bytes) = Asks(s.mem) THEN BlockDone(s.mem, block) ELSE n
             t == [s EXCEPT !.mem = m]
  <2>1. Got(p, s, bytes) = t
    BY <1>2 DEF Got, Freads
  <2>2. DdKnows(c, s.mem)
    BY <1>1, <1>2 DEF Knows
  <2>3. IsSeq(block)
    BY <2>2, JoinFacts DEF DdKnows
  <2>4. DdKnows(c, n) /\ n.out = s.mem.out
    <3> HIDE DEF block
    <3>1. /\ DOMAIN n = DOMAIN s.mem /\ n.content = s.mem.content /\ n.room = s.mem.room /\ n.block = block
          /\ DdSame(s.mem, n) /\ n.out = s.mem.out
          /\ n.count = s.mem.count /\ n.total_r = s.mem.total_r /\ n.total_w = s.mem.total_w
      BY <2>2, DdFields DEF DdKnows, DdSame
    <3> HIDE DEF n
    <3>2. /\ IsSeq(s.mem.content) /\ s.mem.room \in Int /\ s.mem.total_r \in Nat /\ s.mem.total_w \in Int
          /\ s.mem.count \in Nat
      BY <2>2 DEF DdKnows
    <3> QED  BY <2>2, <2>3, <3>1, <3>2, DdKnowsStays
  <2>5. DdKnows(c, BlockDone(s.mem, block)) /\ BlockDone(s.mem, block).out = s.mem.out
    BY <2>2, <2>3, BlockDoneOK
  <2> HIDE DEF n, block
  <2>6. DdKnows(c, m) /\ m.out = <<>>
    BY <1>1, <2>4, <2>5
  <2> HIDE DEF m
  <2>7. LocalOK(c, t) /\ Place(t) = s.at
    BY <1>2, <2>6, DdStays
  <2> HIDE DEF t
  <2> QED  BY <2>1, <2>7
<1>3. CASE c.name # "dd"
  <2> DEFINE buf == s.buf \o bytes
  <2>1. IsSeq(buf)
    BY <1>1, JoinFacts
  <2>2. c.name \in {"cat", "tee", "tr", "wc", "head", "hex"}
    BY <1>3 DEF CommandOK, Programs
  <2>3. Got(p, s, bytes) = [s EXCEPT !.buf = buf] \/ Got(p, s, bytes) = Consumed(p, s, buf)
    BY <1>3 DEF Got
  <2> HIDE DEF buf
  <2>4. LocalOK(c, Consumed(p, s, buf)) /\ Place(Consumed(p, s, buf)) \in {"read", "open", "exit"}
    BY <2>1, <2>2, ConsumedOK
  <2>5. LocalOK(c, [s EXCEPT !.buf = buf]) /\ Place([s EXCEPT !.buf = buf]) = "read"
    BY <1>1, <2>1, BufOK
  <2> QED  BY <2>3, <2>4, <2>5
<1> QED  BY <1>2, <1>3

-------------------------------------------------------------------------------
(***************************************************************************)
(* The streams, and what a step of a program may do with them.             *)
(***************************************************************************)
StreamsOK ==
  /\ IsSeq(heard) /\ DOMAIN pipe = 1..(N + 1) /\ DOMAIN pos = Proc /\ ended \subseteq Proc
  /\ \A q \in 1..(N + 1) : IsSeq(pipe[q])
  /\ \A q \in 1..N : heard[q] \in 0..Len(pipe[q]) /\ pos[q] \in Nat
  /\ \A f \in DOMAIN file : IsSeq(file[f])

FilesOK ==
  /\ DOMAIN setting.files \subseteq DOMAIN file
  /\ \A f \in DOMAIN file : f \in DOMAIN setting.files \/ \E q \in Proc : f \in Outs(Cmd(q))

\* A program reads what waits, writes, opens or ends.
Moves(q) ==
  \/ UNCHANGED streams
  \/ \E in, k : (in = "stdin" \/ in \in DOMAIN file) /\ k \in 1..Len(Waiting(q, in)) /\ Take(q, in, k)
  \/ \E fd, bytes : /\ IsSeq(bytes) /\ fd.off \in Nat /\ fd.name \in Outs(Cmd(q)) \cup {"failed", "stdout"}
                    /\ Put(q, fd, bytes)
  \/ \E f, trunc : f \in Outs(Cmd(q)) /\ Create(f, trunc)
  \/ \E off \in Nat : Rewind(q, off)
  \/ Quits(q)

\* What the others see of it.
Elsewhere(q) ==
  /\ DOMAIN heard' = DOMAIN heard /\ Len(heard') = Len(heard)
  /\ \A p \in Proc \ {q} : heard'[p] = heard[p] /\ pos'[p] = pos[p]
  /\ \A p \in 1..(N + 1) : p # q + 1 => pipe'[p] = pipe[p]
  /\ \E x : IsSeq(x) /\ pipe'[q + 1] = pipe[q + 1] \o x
  /\ DOMAIN file \subseteq DOMAIN file' /\ DOMAIN file' \subseteq DOMAIN file \cup Outs(Cmd(q))
  /\ \A f \in DOMAIN file : f \notin Outs(Cmd(q)) \cup {"failed"} => file'[f] = file[f]
  /\ ended \subseteq ended' /\ ended' \subseteq ended \cup {q}

LEMMA ProcIs == ASSUME StreamsOK PROVE Proc = 1..N /\ N \in Nat /\ \A q \in Proc : q \in 1..(N + 1) /\ q + 1 \in 1..(N + 1)
<1>1. Proc = 1..N /\ N \in Nat
  BY SeqFacts DEF StreamsOK, Proc, N
<1> QED  BY <1>1

LEMMA PatchedFacts ==
  ASSUME NEW old, NEW off \in Nat, NEW bytes, IsSeq(old), IsSeq(bytes)
  PROVE  LET r == Patched(old, off, bytes) IN
         /\ IsSeq(r) /\ Len(r) = IF Len(old) > off + Len(bytes) THEN Len(old) ELSE off + Len(bytes)
         /\ \A i \in 1..Len(r) : r[i] = IF i > off /\ i <= off + Len(bytes) THEN bytes[i - off]
                                        ELSE IF i > Len(old) THEN 0 ELSE old[i]
<1> DEFINE n == IF Len(old) > off + Len(bytes) THEN Len(old) ELSE off + Len(bytes)
           r == Patched(old, off, bytes)
<1>1. n \in Nat /\ Len(old) \in Nat /\ Len(bytes) \in Nat
  BY SeqFacts
<1>2. r = [i \in 1..n |-> CASE i > off /\ i <= off + Len(bytes) -> bytes[i - off]
                            [] i <= off /\ i > Len(old)         -> 0
                            [] OTHER                            -> old[i]]
  BY DEF Patched
<1>3. DOMAIN r = 1..n /\ r = [i \in 1..n |-> r[i]]
  BY <1>2
<1>4. ASSUME NEW i \in 1..n
      PROVE  r[i] = IF i > off /\ i <= off + Len(bytes) THEN bytes[i - off] ELSE IF i > Len(old) THEN 0 ELSE old[i]
  <2>1. i \in Nat
    BY <1>1
  <2>2. CASE i > off /\ i <= off + Len(bytes)
    BY <1>2, <2>2
  <2>3. CASE i <= off /\ i > Len(old)
    BY <1>1, <1>2, <2>1, <2>3
  <2>4. CASE i <= Len(old) /\ ~(i > off /\ i <= off + Len(bytes))
    BY <1>1, <1>2, <2>1, <2>4
  <2>5. i <= off \/ i <= off + Len(bytes) \/ i <= Len(old)
    BY <1>1, <2>1
  <2> HIDE DEF n, r
  <2> QED  BY <1>1, <2>1, <2>2, <2>3, <2>4, <2>5
<1>5. IsSeq(r) /\ Len(r) = n
  <2> HIDE DEF n, r
  <2> QED  BY <1>1, <1>3, FunIsSeq
<1> QED  BY <1>4, <1>5

\* A part of what has grown is the part of what was.
LEMMA PrefixStays ==
  ASSUME NEW s, NEW x, IsSeq(s), IsSeq(x), NEW n \in 0..Len(s)
  PROVE  SubSeq(s \o x, 1, n) = SubSeq(s, 1, n)
<1>1. Len(s) \in Nat /\ n \in Nat /\ n \in Int
  BY SeqFacts
<1> DEFINE a == SubSeq(s \o x, 1, n)
           b == SubSeq(s, 1, n)
<1>2. IsSeq(a) /\ IsSeq(b) /\ Len(a) = n /\ Len(b) = n
  BY <1>1, PartFacts
<1>3. ASSUME NEW i \in 1..n PROVE a[i] = b[i]
  <2>1. i \in 1..Len(s) /\ i \in 1..(n - 1 + 1) /\ 1 + i - 1 = i
    BY <1>1
  <2>2. a[i] = (s \o x)[1 + i - 1] /\ b[i] = s[1 + i - 1]
    BY <1>1, <2>1, PartFacts
  <2>3. (s \o x)[i] = s[i]
    BY <2>1, JoinFacts
  <2> QED  BY <2>1, <2>2, <2>3
<1> HIDE DEF a, b
<1>4. a = b
  BY <1>1, <1>2, <1>3, SeqsEqual
<1> QED  BY <1>4 DEF a, b

LEMMA NothingJoins == ASSUME NEW s, IsSeq(s) PROVE s \o <<>> = s /\ <<>> \o s = s
<1>1. s \in Seq(ToSet(s))
  BY DEF IsSeq
<1> QED  BY <1>1

\* What waits is what has not been read.
LEMMA WaitingFacts ==
  ASSUME StreamsOK, NEW q \in Proc, NEW in, in = "stdin" \/ in \in DOMAIN file
  PROVE  /\ IsSeq(Waiting(q, in)) /\ Len(Waiting(q, in)) \in Nat
         /\ in = "stdin" => /\ Len(Waiting(q, in)) = Len(pipe[q]) - heard[q]
                            /\ \A i \in 1..Len(Waiting(q, in)) : Waiting(q, in)[i] = pipe[q][heard[q] + i]
<1> DEFINE w == Waiting(q, in)
<1>1. Proc = 1..N /\ N \in Nat /\ q \in 1..N /\ q \in 1..(N + 1)
  BY ProcIs
<1>2. heard[q] \in Nat /\ Len(pipe[q]) \in Nat /\ pos[q] \in Nat /\ heard[q] <= Len(pipe[q])
  <2>1. IsSeq(pipe[q]) /\ heard[q] \in 0..Len(pipe[q]) /\ pos[q] \in Nat
    BY <1>1 DEF StreamsOK
  <2>2. Len(pipe[q]) \in Nat
    BY <2>1, SeqFacts
  <2> QED  BY <2>1, <2>2
<1>3. CASE in = "stdin"
  <2> DEFINE m == heard[q] + 1
             n == Len(pipe[q])
             d == pipe[q]
  <2>1. w = SubSeq(d, m, n) /\ m \in Int /\ n \in Int
    BY <1>2, <1>3 DEF Waiting
  <2> HIDE DEF d, m, n
  <2>2. IsSeq(w)
    BY <2>1, PartFacts
  <2>3. Len(w) = IF m <= n THEN n - m + 1 ELSE 0
    BY <2>1, PartFacts
  <2>4. \A i \in 1..(n - m + 1) : w[i] = d[m + i - 1]
    BY <2>1, PartFacts
  <2>5. Len(w) = n - heard[q] /\ n - m + 1 = n - heard[q] /\ Len(w) \in Nat
    BY <1>2, <2>3 DEF m, n
  <2>6. \A i \in 1..Len(w) : w[i] = d[heard[q] + i]
    <3>1. \A i \in 1..Len(w) : m + i - 1 = heard[q] + i
      BY <1>2, <2>5 DEF m
    <3> HIDE DEF w
    <3> QED  BY <2>4, <2>5, <3>1
  <2> QED  BY <2>2, <2>5, <2>6 DEF d, n
<1>4. CASE in # "stdin"
  <2>1. IsSeq(file[in]) /\ Len(file[in]) \in Nat
    BY <1>4, SeqFacts DEF StreamsOK
  <2>2. pos[q] + 1 \in Int /\ Len(file[in]) \in Int
    BY <1>2, <2>1
  <2>3. w = SubSeq(file[in], pos[q] + 1, Len(file[in]))
    BY <1>4 DEF Waiting
  <2>4. IsSeq(w)
    BY <2>2, <2>3, PartFacts
  <2> HIDE DEF w
  <2> QED  BY <1>4, <2>4, SeqFacts DEF w
<1> QED  BY <1>3, <1>4

LEMMA TakeOK ==
  ASSUME StreamsOK, NEW q \in Proc, NEW in, in = "stdin" \/ in \in DOMAIN file,
         NEW k \in 1..Len(Waiting(q, in)), Take(q, in, k)
  PROVE  /\ StreamsOK' /\ Elsewhere(q) /\ UNCHANGED <<pipe, file, ended>>
         /\ in = "stdin" => heard'[q] = heard[q] + k
<1>1. Proc = 1..N /\ N \in Nat /\ q \in 1..N /\ q \in 1..(N + 1) /\ q + 1 \in 1..(N + 1)
  BY ProcIs
<1>2. UNCHANGED <<pipe, file, ended>> /\ k \in Nat
  <2>1. Len(Waiting(q, in)) \in Nat
    BY WaitingFacts
  <2> QED  BY <2>1 DEF Take
<1>3. IsSeq(pipe[q + 1]) /\ IsSeq(pipe[q]) /\ pipe[q + 1] \o <<>> = pipe[q + 1] /\ IsSeq(<<>>)
  BY <1>1, NothingJoins, EmptyIsSeq DEF StreamsOK
<1>4. CASE in = "stdin"
  <2> DEFINE e == heard[q] + k
  <2>1. heard' = [heard EXCEPT ![q] = e] /\ pos' = pos
    BY <1>4 DEF Take
  <2>2. IsSeq(heard) /\ q \in 1..Len(heard)
    BY <1>1 DEF StreamsOK, N
  <2> HIDE DEF e
  <2>3. IsSeq(heard') /\ Len(heard') = Len(heard) /\ heard'[q] = e /\ \A j \in 1..Len(heard) \ {q} : heard'[j] = heard[j]
    <3> DEFINE s == heard
               t == heard'
    <3>1. t = [s EXCEPT ![q] = e] /\ IsSeq(s) /\ q \in 1..Len(s)
      BY <2>1, <2>2
    <3> HIDE DEF s, t
    <3>2. IsSeq(t)
      BY <3>1, ReplaceFacts
    <3>4. Len(t) = Len(s)
      BY <3>1, ReplaceFacts
    <3>5. t[q] = e
      BY <3>1, ReplaceFacts
    <3>3. \A j \in 1..Len(s) \ {q} : t[j] = s[j]
      BY <3>1, ReplaceFacts
    <3> QED  BY <3>2, <3>3, <3>4, <3>5 DEF s, t
  <2>4. DOMAIN heard' = DOMAIN heard
    BY <2>1
  <2>5. e \in 0..Len(pipe[q])
    <3>1. Len(pipe[q]) \in Nat /\ heard[q] \in 0..Len(pipe[q])
      BY <1>1, <1>3, SeqFacts DEF StreamsOK
    <3>2. k <= Len(pipe[q]) - heard[q] /\ k >= 1
      <4>1. Len(Waiting(q, in)) = Len(pipe[q]) - heard[q]
        BY <1>4, WaitingFacts
      <4> QED  BY <3>1, <4>1
    <3> QED  BY <1>2, <3>1, <3>2 DEF e
  <2>6. StreamsOK'
    BY <1>1, <1>2, <2>1, <2>3, <2>4, <2>5 DEF StreamsOK, N, Proc
  <2>7. Elsewhere(q)
    BY <1>1, <1>2, <1>3, <2>1, <2>3, <2>4 DEF Elsewhere, N, Proc
  <2> QED  BY <1>2, <2>3, <2>6, <2>7 DEF e
<1>5. CASE in # "stdin"
  <2>1. pos' = [pos EXCEPT ![q] = @ + k] /\ heard' = heard
    BY <1>5 DEF Take
  <2>2. DOMAIN pos' = DOMAIN pos /\ pos'[q] = pos[q] + k /\ \A j \in Proc \ {q} : pos'[j] = pos[j]
    BY <1>1, <2>1 DEF StreamsOK
  <2>3. pos'[q] \in Nat
    BY <1>1, <1>2, <2>2 DEF StreamsOK
  <2>4. StreamsOK'
    BY <1>1, <1>2, <2>1, <2>2, <2>3 DEF StreamsOK, N, Proc
  <2>5. Elsewhere(q)
    BY <1>1, <1>2, <1>3, <2>1, <2>2 DEF Elsewhere, N, Proc
  <2> QED  BY <1>2, <1>5, <2>4, <2>5
<1> QED  BY <1>4, <1>5


LEMMA PutOK ==
  ASSUME StreamsOK, NEW q \in Proc, NEW fd, NEW bytes, IsSeq(bytes), fd.off \in Nat,
         fd.name \in Outs(Cmd(q)) \cup {"failed", "stdout"}, Put(q, fd, bytes)
  PROVE  StreamsOK' /\ Elsewhere(q) /\ UNCHANGED <<heard, pos, ended>>
<1>1. Proc = 1..N /\ N \in Nat /\ q \in 1..N /\ q \in 1..(N + 1) /\ q + 1 \in 1..(N + 1) /\ q # q + 1
  BY ProcIs
<1>2. UNCHANGED <<heard, pos, ended>>
  BY DEF Put
<1>3. IsSeq(pipe[q + 1]) /\ pipe[q + 1] \o <<>> = pipe[q + 1] /\ IsSeq(<<>>)
  BY <1>1, NothingJoins, EmptyIsSeq DEF StreamsOK
<1>4. CASE fd.name = "stdout"
  <2> DEFINE d == pipe[q + 1]
             e == d \o bytes
  <2>1. pipe' = [pipe EXCEPT ![q + 1] = e] /\ file' = file
    BY <1>4 DEF Put
  <2>2. IsSeq(e) /\ Len(e) = Len(d) + Len(bytes)
    BY <1>3, JoinFacts
  <2>3. DOMAIN pipe' = DOMAIN pipe /\ pipe'[q + 1] = e /\ \A j \in 1..(N + 1) : j # q + 1 => pipe'[j] = pipe[j]
    BY <1>1, <2>1 DEF StreamsOK
  <2>4. Len(d) \in Nat /\ Len(bytes) \in Nat
    BY <1>3, SeqFacts
  <2>5. \A j \in 1..N : heard[j] \in 0..Len(pipe'[j])
    <3> SUFFICES ASSUME NEW j \in 1..N PROVE heard[j] \in 0..Len(pipe'[j])
      OBVIOUS
    <3>1. heard[j] \in 0..Len(pipe[j]) /\ j \in 1..(N + 1)
      BY <1>1 DEF StreamsOK
    <3>2. CASE j # q + 1
      BY <2>3, <3>1, <3>2
    <3>3. CASE j = q + 1
      <4>1. Len(pipe'[j]) = Len(d) + Len(bytes)
        BY <2>2, <2>3, <3>3
      <4>2. heard[j] \in 0..Len(d)
        BY <3>1, <3>3
      <4> HIDE DEF d
      <4> QED  BY <2>4, <4>1, <4>2
    <3> QED  BY <3>2, <3>3
  <2>6. \A j \in 1..(N + 1) : IsSeq(pipe'[j])
    BY <2>2, <2>3 DEF StreamsOK
  <2>7. StreamsOK'
    BY <1>1, <1>2, <2>1, <2>3, <2>5, <2>6 DEF StreamsOK, N, Proc
  <2>8. Elsewhere(q)
    BY <1>1, <1>2, <2>1, <2>3 DEF Elsewhere, N, Proc
  <2> QED  BY <1>2, <2>7, <2>8
<1>5. CASE fd.name # "stdout"
  <2> DEFINE old == file[fd.name]
             new == Patched(old, IF fd.append THEN Len(old) ELSE fd.off, bytes)
  <2>1. file' = [file EXCEPT ![fd.name] = new] /\ pipe' = pipe
    BY <1>5 DEF Put
  <2>2. DOMAIN file' = DOMAIN file /\ \A f \in DOMAIN file : f # fd.name => file'[f] = file[f]
    BY <2>1
  <2>3. ASSUME fd.name \in DOMAIN file PROVE file'[fd.name] = new /\ IsSeq(new)
    <3>1. IsSeq(old) /\ Len(old) \in Nat
      BY <2>3, SeqFacts DEF StreamsOK
    <3> DEFINE off == IF fd.append THEN Len(old) ELSE fd.off
    <3>2. off \in Nat
      BY <3>1
    <3> HIDE DEF off, old
    <3>3. IsSeq(Patched(old, off, bytes))
      BY <3>1, <3>2, PatchedFacts
    <3> QED  BY <2>1, <2>3, <3>3 DEF off
  <2>4. \A f \in DOMAIN file : IsSeq(file'[f])
    <3> HIDE DEF new
    <3> QED  BY <2>2, <2>3 DEF StreamsOK
  <2>5. StreamsOK'
    BY <1>1, <1>2, <2>1, <2>2, <2>4 DEF StreamsOK, N, Proc
  <2>6. Elsewhere(q)
    BY <1>1, <1>2, <1>3, <1>5, <2>1, <2>2 DEF Elsewhere, N, Proc
  <2> QED  BY <1>2, <2>5, <2>6
<1> QED  BY <1>4, <1>5

LEMMA StillOK ==
  ASSUME StreamsOK, NEW q \in Proc, UNCHANGED streams
  PROVE  StreamsOK' /\ Elsewhere(q)
<1>1. Proc = 1..N /\ N \in Nat /\ q \in 1..N /\ q \in 1..(N + 1) /\ q + 1 \in 1..(N + 1)
  BY ProcIs
<1>2. IsSeq(pipe[q + 1]) /\ pipe[q + 1] \o <<>> = pipe[q + 1] /\ IsSeq(<<>>)
  BY <1>1, NothingJoins, EmptyIsSeq DEF StreamsOK
<1>3. pipe' = pipe /\ heard' = heard /\ pos' = pos /\ file' = file /\ ended' = ended
  BY DEF streams
<1> QED  BY <1>1, <1>2, <1>3 DEF StreamsOK, Elsewhere, N, Proc

LEMMA CreateOK ==
  ASSUME StreamsOK, NEW q \in Proc, NEW f, NEW trunc, f \in Outs(Cmd(q)), Create(f, trunc)
  PROVE  /\ StreamsOK' /\ Elsewhere(q) /\ UNCHANGED <<pipe, heard, pos, ended>> /\ f \in DOMAIN file'
         /\ file'[f] = IF trunc \/ f \notin DOMAIN file THEN <<>> ELSE file[f]
<1>1. Proc = 1..N /\ N \in Nat /\ q \in 1..N /\ q \in 1..(N + 1) /\ q + 1 \in 1..(N + 1)
  BY ProcIs
<1>2. IsSeq(pipe[q + 1]) /\ pipe[q + 1] \o <<>> = pipe[q + 1] /\ IsSeq(<<>>)
  BY <1>1, NothingJoins, EmptyIsSeq DEF StreamsOK
<1>3. UNCHANGED <<pipe, heard, pos, ended>>
  BY DEF Create
<1>4. /\ DOMAIN file' = DOMAIN file \cup {f}
      /\ \A g \in DOMAIN file : g # f => file'[g] = file[g]
      /\ file'[f] = IF trunc \/ f \notin DOMAIN file THEN <<>> ELSE file[f]
  BY DEF Create
<1>5. \A g \in DOMAIN file' : IsSeq(file'[g])
  BY <1>2, <1>4 DEF StreamsOK
<1>6. StreamsOK'
  BY <1>1, <1>3, <1>5 DEF StreamsOK, N, Proc
<1>7. Elsewhere(q)
  BY <1>1, <1>2, <1>3, <1>4 DEF Elsewhere, N, Proc
<1> QED  BY <1>3, <1>4, <1>6, <1>7

LEMMA RewindOK ==
  ASSUME StreamsOK, NEW q \in Proc, NEW off \in Nat, Rewind(q, off)
  PROVE  StreamsOK' /\ Elsewhere(q) /\ UNCHANGED <<pipe, heard, file, ended>>
<1>1. Proc = 1..N /\ N \in Nat /\ q \in 1..N /\ q \in 1..(N + 1) /\ q + 1 \in 1..(N + 1)
  BY ProcIs
<1>2. IsSeq(pipe[q + 1]) /\ pipe[q + 1] \o <<>> = pipe[q + 1] /\ IsSeq(<<>>)
  BY <1>1, NothingJoins, EmptyIsSeq DEF StreamsOK
<1>3. UNCHANGED <<pipe, heard, file, ended>> /\ pos' = [pos EXCEPT ![q] = off]
  BY DEF Rewind
<1>4. DOMAIN pos' = DOMAIN pos /\ pos'[q] = off /\ \A j \in Proc \ {q} : pos'[j] = pos[j]
  BY <1>1, <1>3 DEF StreamsOK
<1>5. StreamsOK'
  BY <1>1, <1>3, <1>4 DEF StreamsOK, N, Proc
<1>6. Elsewhere(q)
  BY <1>1, <1>2, <1>3, <1>4 DEF Elsewhere, N, Proc
<1> QED  BY <1>3, <1>5, <1>6

LEMMA QuitsOK ==
  ASSUME StreamsOK, NEW q \in Proc, Quits(q)
  PROVE  StreamsOK' /\ Elsewhere(q) /\ UNCHANGED <<pipe, heard, file, pos>> /\ ended' = ended \cup {q}
<1>1. Proc = 1..N /\ N \in Nat /\ q \in 1..N /\ q \in 1..(N + 1) /\ q + 1 \in 1..(N + 1)
  BY ProcIs
<1>2. IsSeq(pipe[q + 1]) /\ pipe[q + 1] \o <<>> = pipe[q + 1] /\ IsSeq(<<>>)
  BY <1>1, NothingJoins, EmptyIsSeq DEF StreamsOK
<1>3. UNCHANGED <<pipe, heard, file, pos>> /\ ended' = ended \cup {q}
  BY DEF Quits
<1>5. StreamsOK'
  BY <1>1, <1>3 DEF StreamsOK, N, Proc
<1>6. Elsewhere(q)
  BY <1>1, <1>2, <1>3 DEF Elsewhere, N, Proc
<1> QED  BY <1>3, <1>5, <1>6

LEMMA MovesOK ==
  ASSUME StreamsOK, FilesOK, NEW q \in Proc, Moves(q), UNCHANGED setting
  PROVE  StreamsOK' /\ FilesOK' /\ Elsewhere(q)
<1>1. StreamsOK' /\ Elsewhere(q)
  <2>1. CASE UNCHANGED streams
    BY <2>1, StillOK
  <2>2. CASE \E in, k : (in = "stdin" \/ in \in DOMAIN file) /\ k \in 1..Len(Waiting(q, in)) /\ Take(q, in, k)
    BY <2>2, TakeOK
  <2>3. CASE \E fd, bytes : /\ IsSeq(bytes) /\ fd.off \in Nat /\ fd.name \in Outs(Cmd(q)) \cup {"failed", "stdout"}
                            /\ Put(q, fd, bytes)
    BY <2>3, PutOK
  <2>4. CASE \E f, trunc : f \in Outs(Cmd(q)) /\ Create(f, trunc)
    BY <2>4, CreateOK
  <2>5. CASE \E off \in Nat : Rewind(q, off)
    BY <2>5, RewindOK
  <2>6. CASE Quits(q)
    BY <2>6, QuitsOK
  <2> QED  BY <2>1, <2>2, <2>3, <2>4, <2>5, <2>6 DEF Moves
<1>2. FilesOK'
  <2>1. DOMAIN file \subseteq DOMAIN file' /\ DOMAIN file' \subseteq DOMAIN file \cup Outs(Cmd(q)) /\ DOMAIN heard' = DOMAIN heard
    BY <1>1 DEF Elsewhere
  <2>2. \A p : Outs(Cmd(p))' = Outs(Cmd(p))
    BY DEF Cmd, Outs
  <2>3. \A f \in DOMAIN file' : f \in DOMAIN setting.files \/ \E p \in Proc : f \in Outs(Cmd(p))
    BY <2>1 DEF FilesOK
  <2>4. Proc' = Proc
    BY <2>1 DEF Proc
  <2> QED  BY <2>1, <2>2, <2>3, <2>4 DEF FilesOK
<1> QED  BY <1>1, <1>2

-------------------------------------------------------------------------------
(***************************************************************************)
(* What a step of the loops leaves alone.                                  *)
(***************************************************************************)
\* t goes on where s was, with the same input, operands and outputs.
GoesFrom(s, t) == t.in = s.in /\ t.args = s.args /\ t.fds = s.fds

LEMMA EndsRest == ASSUME NEW s, NEW ret, Shape(s)
                  PROVE  GoesFrom(s, Ends(s, ret)) /\ Ends(s, ret).ret = ret /\ Ends(s, ret).obuf = s.obuf
BY DEF Ends, Shape, GoesFrom

LEMMA DiesRest == ASSUME NEW s, Shape(s)
                  PROVE  /\ GoesFrom(s, Dies(s)) /\ Dies(s).ret = Killed /\ Dies(s).obuf = <<>> /\ Dies(s).at = "exit"
BY DEF Dies, Shape, GoesFrom

LEMMA PrintedRest ==
  ASSUME NEW s, NEW m, NEW next, Shape(s), "out" \in DOMAIN m, IsSeq(m.out), next # "write"
  PROVE  GoesFrom(s, Printed(s, m, next)) /\ Printed(s, m, next).ret = s.ret /\ Place(Printed(s, m, next)) = next
<1> DEFINE t == Printed(s, m, next)
           all == s.obuf \o m.out
<1>1. /\ Shape(t) /\ t.mem = [m EXCEPT !.out = <<>>] /\ t.buf = <<>> /\ Place(t) = next
      /\ t.args = s.args /\ t.in = s.in /\ t.fds = s.fds /\ t.moved = s.moved /\ t.ret = s.ret
      /\ IF Len(all) >= StdioSize
         THEN t.obuf = <<>> /\ t.at = "write" /\ t.todo = <<[fd |-> 0, bytes |-> all, stdio |-> TRUE]>>
         ELSE t.obuf = all /\ t.at = next /\ t.todo = s.todo
  BY PrintedFacts
<1> HIDE DEF t
<1> QED  BY <1>1 DEF GoesFrom, t

LEMMA LeftRest ==
  ASSUME NEW p, NEW s, NEW m, NEW error \in BOOLEAN, Leaves(Cmd(p), m), Shape(s),
         Cmd(p).name \in {"cat", "tr", "wc", "head", "hex"}
  PROVE  LET t == Left(p, s, m, error) IN
         GoesFrom(s, t) /\ t.ret = (IF error THEN 1 ELSE s.ret) /\ (Place(t) = "exit" => Cmd(p).name = "tr")
<1> DEFINE c == Cmd(p)
           ret == IF error THEN 1 ELSE s.ret
           t == [s EXCEPT !.ret = ret]
           next == IF c.name = "tr" THEN "exit" ELSE "open"
<1>1. PICK n : Left(p, s, m, error) = Printed(t, n, next) /\ Knows(c, n, "open")
  BY LeftFacts
<1>2. /\ DOMAIN t = DOMAIN s /\ t.args = s.args /\ t.buf = s.buf /\ t.obuf = s.obuf /\ t.in = s.in
      /\ t.fds = s.fds /\ t.todo = s.todo /\ t.moved = s.moved /\ t.ret = ret
  BY DEF Shape
<1> HIDE DEF t, ret
<1>3. Shape(t)
  BY <1>2 DEF Shape
<1>4. "out" \in DOMAIN n /\ IsSeq(n.out) /\ next # "write"
  BY <1>1 DEF Knows
<1>6. next = "exit" => c.name = "tr"
  OBVIOUS
<1> HIDE DEF next
<1>5. GoesFrom(t, Printed(t, n, next)) /\ Printed(t, n, next).ret = t.ret /\ Place(Printed(t, n, next)) = next
  BY <1>3, <1>4, PrintedRest
<1> QED  BY <1>1, <1>2, <1>5, <1>6 DEF GoesFrom, ret

LEMMA ConsumedRest ==
  ASSUME NEW p, NEW s, NEW bytes, LocalOK(Cmd(p), s), s.at = "read", IsSeq(bytes), CommandOK(Cmd(p)),
         Cmd(p).name \in {"cat", "tee", "tr", "wc", "head", "hex"}
  PROVE  LET t == Consumed(p, s, bytes) IN
         GoesFrom(s, t) /\ (t.ret = s.ret \/ (Cmd(p).name = "tr" /\ t.ret = 1)) /\ (Place(t) = "exit" => Cmd(p).name = "tr")
<1> DEFINE c == Cmd(p)
<1>0. Shape(s) /\ Place(s) = "read"
  BY DEF LocalOK, Place
<1>1. CASE Copies(p)
  <2> DEFINE calls == [i \in DOMAIN Outputs(s) |-> Call(Outputs(s)[i], bytes)]
             t == Writes(s, calls, "read")
  <2>1. Consumed(p, s, bytes) = t
    BY <1>1 DEF Consumed
  <2> HIDE DEF calls
  <2>2. t.in = s.in /\ t.args = s.args /\ t.fds = s.fds /\ t.ret = s.ret /\ Place(t) = "read"
    BY <1>0 DEF Writes, Shape, Place
  <2> QED  BY <2>1, <2>2 DEF GoesFrom
<1>2. CASE ~Copies(p)
  <2> DEFINE m == Digest(p, s.mem, bytes)
             ret == IF c.name = "tr" THEN 1 ELSE s.ret
             t == [s EXCEPT !.ret = ret]
  <2>1. Consumed(p, s, bytes) = IF m.stop THEN Left(p, t, m, FALSE) ELSE Printed(s, m, "read")
    <3> HIDE DEF m
    <3> DEFINE f(y) == IF y.stop THEN Left(p, t, y, FALSE) ELSE Printed(s, y, "read")
    <3>1. Consumed(p, s, bytes) = CHOOSE r \in {f(y) : y \in {m}} : TRUE
      BY <1>2 DEF Consumed, Using, m
    <3> HIDE DEF f
    <3>2. Consumed(p, s, bytes) = f(m)
      BY <3>1
    <3> QED  BY <3>2 DEF f
  <2>2. c.name \in {"cat", "tr", "wc", "head", "hex"}
    BY <1>2 DEF Copies
  <2>4. Knows(c, s.mem, "read")
    BY <1>0 DEF LocalOK
  <2>5. Leaves(c, m) /\ (~m.stop => Knows(c, m, "read"))
    BY <2>2, <2>4, DigestOK
  <2>6. /\ DOMAIN t = DOMAIN s /\ t.args = s.args /\ t.buf = s.buf /\ t.obuf = s.obuf /\ t.in = s.in
        /\ t.fds = s.fds /\ t.todo = s.todo /\ t.moved = s.moved /\ t.ret = ret
    BY <1>0 DEF Shape
  <2> HIDE DEF m, t
  <2>7. CASE m.stop
    <3>1. Shape(t)
      BY <1>0, <2>6 DEF Shape
    <3>2. /\ GoesFrom(t, Left(p, t, m, FALSE)) /\ Left(p, t, m, FALSE).ret = t.ret
          /\ Place(Left(p, t, m, FALSE)) = "exit" => c.name = "tr"
      <4>1. /\ GoesFrom(t, Left(p, t, m, FALSE)) /\ Left(p, t, m, FALSE).ret = (IF FALSE THEN 1 ELSE t.ret)
            /\ Place(Left(p, t, m, FALSE)) = "exit" => c.name = "tr"
        BY <2>2, <2>5, <3>1, LeftRest
      <4> QED  BY <4>1
    <3> QED  BY <2>1, <2>6, <2>7, <3>2 DEF GoesFrom
  <2>8. CASE ~m.stop
    <3>1. "out" \in DOMAIN m /\ IsSeq(m.out)
      BY <2>5 DEF Leaves, Knows
    <3>2. GoesFrom(s, Printed(s, m, "read")) /\ Printed(s, m, "read").ret = s.ret /\ Place(Printed(s, m, "read")) = "read"
      BY <1>0, <3>1, PrintedRest
    <3> QED  BY <2>1, <2>8, <3>2 DEF GoesFrom
  <2> QED  BY <2>7, <2>8
<1> QED  BY <1>1, <1>2

LEMMA GotRest ==
  ASSUME NEW p, NEW s, NEW bytes, LocalOK(Cmd(p), s), s.at = "read", IsSeq(bytes), CommandOK(Cmd(p)), Cmd(p).name # "yes"
  PROVE  LET t == Got(p, s, bytes) IN
         /\ GoesFrom(s, t) /\ (t.ret = s.ret \/ (Cmd(p).name = "tr" /\ t.ret = 1))
         /\ Cmd(p).name = "dd" => Place(t) = "read"
         /\ Place(t) = "exit" => Cmd(p).name = "tr"
<1> DEFINE c == Cmd(p)
<1>1. IsSeq(s.buf) /\ Place(s) = "read" /\ Shape(s)
  BY DEF LocalOK, Shape, Place
<1>2. CASE c.name = "dd"
  <2>1. \E m : Got(p, s, bytes) = [s EXCEPT !.mem = m]
    BY <1>2 DEF Got, Freads
  <2>2. \A m : GoesFrom(s, [s EXCEPT !.mem = m]) /\ [s EXCEPT !.mem = m].ret = s.ret /\ [s EXCEPT !.mem = m].at = s.at
    BY <1>1 DEF Shape, GoesFrom
  <2> QED  BY <2>1, <2>2 DEF Place
<1>3. CASE c.name # "dd"
  <2> DEFINE buf == s.buf \o bytes
  <2>1. IsSeq(buf)
    BY <1>1, JoinFacts
  <2>2. c.name \in {"cat", "tee", "tr", "wc", "head", "hex"}
    BY <1>3 DEF CommandOK, Programs
  <2>3. Got(p, s, bytes) = [s EXCEPT !.buf = buf] \/ Got(p, s, bytes) = Consumed(p, s, buf)
    BY <1>3 DEF Got
  <2> HIDE DEF buf
  <2>4. LET t == Consumed(p, s, buf) IN
        GoesFrom(s, t) /\ (t.ret = s.ret \/ (c.name = "tr" /\ t.ret = 1)) /\ (Place(t) = "exit" => c.name = "tr")
    BY <2>1, <2>2, ConsumedRest
  <2>5. GoesFrom(s, [s EXCEPT !.buf = buf]) /\ [s EXCEPT !.buf = buf].ret = s.ret /\ Place([s EXCEPT !.buf = buf]) = "read"
    BY <1>1 DEF Shape, GoesFrom, Place
  <2> QED  BY <1>3, <2>3, <2>4, <2>5
<1> QED  BY <1>2, <1>3

LEMMA ReturnedRest ==
  ASSUME NEW p, NEW s, NEW w \in Int, LocalOK(Cmd(p), s), s.at = "write"
  PROVE  LET t == Returned(p, s, w) IN
         /\ t.in = s.in /\ t.args = s.args /\ t.ret \in {s.ret, 1} /\ (t.ret # s.ret => w = -1 /\ Cmd(p).name \in {"dd", "tee"})
         /\ Place(t) = "report" /\ s.next # "report" => Cmd(p).name = "dd" /\ s.next = "pour"
         /\ Place(t) = "exit" /\ s.next # "exit" => Cmd(p).name = "tee"
<1> DEFINE t == Returned(p, s, w)
           u == [s EXCEPT !.todo = Tail(@), !.moved = 0, !.at = IF Len(s.todo) = 1 THEN s.next ELSE @]
           call == Head(s.todo)
<1>1. Shape(s) /\ s.next # "write" /\ (~call.stdio /\ Cmd(p).name = "dd" => s.next = "pour")
  <2>1. Shape(s) /\ s.todo # <<>> /\ s.next # "write"
    BY DEF LocalOK, Handles
  <2>2. call = s.todo[1]
    BY <2>1, TailFacts DEF Shape
  <2> HIDE DEF call
  <2> QED  BY <2>1, <2>2 DEF LocalOK, Handles
<1>2. /\ DOMAIN u = DOMAIN s /\ u.in = s.in /\ u.args = s.args /\ u.ret = s.ret /\ u.next = s.next
      /\ Place(u) = s.next
  BY <1>1 DEF Shape, Place
<1> HIDE DEF u
<1>3. CASE call.stdio /\ w \in 0..(Len(call.bytes) - 1)
  <2>1. t = [s EXCEPT !.moved = 0, !.todo[1].bytes = SubSeq(@, w + 1, Len(@))]
    BY <1>3 DEF Returned
  <2> HIDE DEF t
  <2>2. t.in = s.in /\ t.args = s.args /\ t.ret = s.ret /\ t.at = s.at /\ t.next = s.next
    BY <1>1, <2>1 DEF Shape
  <2>3. Place(t) = s.next
    BY <2>2 DEF Place
  <2> QED  BY <2>2, <2>3 DEF t
<1>4. CASE ~call.stdio /\ Cmd(p).name = "dd"
  <2>1. t = IF w = -1 THEN [u EXCEPT !.ret = 1, !.at = "report"] ELSE [u EXCEPT !.mem = Written(@, w)]
    BY <1>4 DEF Returned, u
  <2> HIDE DEF t
  <2>2. /\ t.in = u.in /\ t.args = u.args /\ t.ret = (IF w = -1 THEN 1 ELSE u.ret)
        /\ IF w = -1 THEN t.at = "report" ELSE t.at = u.at /\ t.next = u.next
    BY <1>1, <1>2, <2>1 DEF Shape
  <2>3. Place(t) \in {"report", s.next}
    BY <1>2, <2>2 DEF Place
  <2> QED  BY <1>1, <1>2, <1>4, <2>2, <2>3 DEF t
<1>5. CASE Cmd(p).name = "tee" /\ w = -1
  <2>1. t = IF call.fd = 0 THEN Ends([u EXCEPT !.todo = <<>>], 1)
            ELSE [u EXCEPT !.ret = 1, !.fds[call.fd].name = "failed"]
    BY <1>5 DEF Returned, u
  <2> HIDE DEF t, call
  <2>2. t.in = u.in /\ t.args = u.args /\ t.ret = 1 /\ (t.at = "exit" \/ (t.at = u.at /\ t.next = u.next))
    BY <1>1, <1>2, <2>1 DEF Shape, Ends
  <2>3. Place(t) \in {"exit", s.next}
    BY <1>2, <2>2 DEF Place
  <2> QED  BY <1>2, <1>5, <2>2, <2>3 DEF t
<1>6. CASE ~(call.stdio /\ w \in 0..(Len(call.bytes) - 1)) /\ ~(~call.stdio /\ Cmd(p).name = "dd")
           /\ ~(Cmd(p).name = "tee" /\ w = -1)
  <2>1. t = u
    BY <1>6 DEF Returned, u
  <2> HIDE DEF t
  <2> QED  BY <1>2, <2>1 DEF t
<1> QED  BY <1>3, <1>4, <1>5, <1>6


-------------------------------------------------------------------------------
(***************************************************************************)
(* Each action: what the program knows is of its type, and what it does to *)
(* the streams is one of the moves.                                        *)
(***************************************************************************)
\* Where a program reads, in a system whose files are D, and what its status may be.
Where(c, s, D) ==
  /\ Place(s) \in {"seek", "read", "pour"} => s.in \in D \cup {"stdin"}
  /\ c.name = "dd" /\ Place(s) \notin {"start", "exit"} => s.in = Operands(c.args).in
  /\ c.name \in {"tee", "tr", "yes"} \/ (c.name = "cat" /\ c.args = <<>>) => s.in = "stdin"
  /\ Place(s) \in {"seek", "pour", "report"} => c.name = "dd"
  /\ s.ret \in {0, 1} \/ (s.ret = Killed /\ s.at = "exit" /\ s.obuf = <<>>)

Typed ==
  /\ StreamsOK /\ FilesOK /\ setting \in Settings /\ Len(setting.cmds) = N /\ DOMAIN proc = Proc
  /\ \A p \in Proc : LocalOK(Cmd(p), proc[p]) /\ Where(Cmd(p), proc[p], DOMAIN file)
  /\ \A p \in ended : proc[p].at = "exit" /\ proc[p].obuf = <<>>

Steps(p) ==
  \E s : /\ DOMAIN proc' = Proc /\ \A q \in Proc : proc'[q] = IF q = p THEN s ELSE proc[q]
         /\ UNCHANGED <<setting, meant>>
         /\ LocalOK(Cmd(p), s) /\ Where(Cmd(p), s, DOMAIN file)
         /\ Moves(p) /\ (p \in ended' => s.at = "exit" /\ s.obuf = <<>>)

LEMMA SettingFacts ==
  ASSUME Typed, NEW p \in Proc
  PROVE  CommandOK(Cmd(p)) /\ IsSeq(Cmd(p).args) /\ Setting(setting)
<1>1. Setting(setting)
  BY PipelineAssumption DEF Typed
<1>2. IsSeq(setting.cmds) /\ p \in 1..Len(setting.cmds)
  BY <1>1, ProcIs DEF Typed, Setting
<1>3. CommandOK(setting.cmds[p])
  BY <1>1, <1>2, SeqFacts DEF Setting
<1> QED  BY <1>1, <1>3 DEF Cmd, CommandOK

LEMMA MoveSteps ==
  ASSUME Typed, NEW p \in Proc, p \notin ended, NEW s, Becomes(p, s), LocalOK(Cmd(p), s),
         Where(Cmd(p), s, DOMAIN file), Moves(p), ended' = ended
  PROVE  Steps(p)
<1>1. DOMAIN proc' = Proc /\ \A q \in Proc : proc'[q] = IF q = p THEN s ELSE proc[q]
  BY DEF Typed, Becomes
<1> QED  BY <1>1 DEF Steps, Becomes

\* A step of the program alone.
LEMMA SilentSteps ==
  ASSUME Typed, NEW p \in Proc, p \notin ended, NEW s, Silent(p, s), LocalOK(Cmd(p), s), Where(Cmd(p), s, DOMAIN file)
  PROVE  Steps(p)
<1>1. UNCHANGED streams /\ ended' = ended
  BY DEF Silent, streams
<1>2. Moves(p)
  BY <1>1 DEF Moves
<1> QED  BY <1>1, <1>2, MoveSteps DEF Silent

\* What keeps the input and the status to go on somewhere else.
LEMMA WhereStays ==
  ASSUME NEW c, NEW s, NEW t, NEW D, Where(c, s, D), t.in = s.in, t.ret \in {0, 1},
         Place(t) \in {"seek", "read", "pour"} => Place(s) \in {"seek", "read", "pour"},
         Place(t) \in {"seek", "pour", "report"} => c.name = "dd",
         c.name = "dd" /\ Place(t) \notin {"start", "exit"} => Place(s) \notin {"start", "exit"}
  PROVE  Where(c, t, D)
BY DEF Where

LEMMA EndsSteps ==
  ASSUME Typed, NEW p \in Proc, p \notin ended, NEW ret \in {0, 1}, Silent(p, Ends(proc[p], ret))
  PROVE  Steps(p)
<1> DEFINE c == Cmd(p)
           s == proc[p]
           t == Ends(s, ret)
<1>1. LocalOK(c, s) /\ Where(c, s, DOMAIN file)
  BY DEF Typed
<1>2. LocalOK(c, t) /\ Place(t) = "exit" /\ t.in = s.in /\ t.ret = ret
  BY <1>1, EndsOK, EndsRest DEF LocalOK, GoesFrom
<1> HIDE DEF c, t, s
<1>3. Where(c, t, DOMAIN file)
  BY <1>1, <1>2, WhereStays
<1> QED  BY <1>2, <1>3, SilentSteps DEF c, t, s

LEMMA DiesSteps ==
  ASSUME Typed, NEW p \in Proc, p \notin ended, Silent(p, Dies(proc[p]))
  PROVE  Steps(p)
<1> DEFINE c == Cmd(p)
           s == proc[p]
           t == Dies(s)
<1>1. LocalOK(c, s) /\ Where(c, s, DOMAIN file)
  BY DEF Typed
<1>2. LocalOK(c, t) /\ Place(t) = "exit" /\ t.in = s.in /\ t.ret = Killed /\ t.obuf = <<>> /\ t.at = "exit"
  BY <1>1, DiesOK, DiesRest DEF LocalOK, GoesFrom
<1> HIDE DEF c, t, s
<1>3. Where(c, t, DOMAIN file)
  BY <1>1, <1>2 DEF Where
<1> QED  BY <1>2, <1>3, SilentSteps DEF c, t, s

\* The status of who has not ended by a signal.
LEMMA RetIs ==
  ASSUME Typed, NEW p \in Proc
  PROVE  proc[p].at # "exit" => proc[p].ret \in {0, 1}
BY DEF Typed, Where

LEMMA BeginSteps == ASSUME Typed, NEW p \in Proc, Begin(p) PROVE Steps(p)
<1> DEFINE c == Cmd(p)
           s == proc[p]
           D == DOMAIN file
<1>1. /\ LocalOK(c, s) /\ Where(c, s, D) /\ CommandOK(c) /\ IsSeq(c.args) /\ p \notin ended /\ s.at = "start"
      /\ s.ret \in {0, 1} /\ Place(s) = "start" /\ Shape(s)
  BY SettingFacts, RetIs DEF Typed, Begin, At, Place, LocalOK
<1>2. \A t : Silent(p, t) /\ LocalOK(c, t) /\ Where(c, t, D) => Steps(p)
  BY <1>1, SilentSteps
<1>3. \A ret \in {0, 1} : Silent(p, Ends(s, ret)) => Steps(p)
  BY <1>1, EndsSteps
\* What all of them have in common.
<1>4. ASSUME NEW place \in {"open", "read"}, NEW words, NEW m, NEW t,
             DOMAIN t = DOMAIN s, t.at = place, t.args = words, t.mem = m, t.buf = s.buf, t.obuf = s.obuf, t.fds = s.fds,
             t.todo = s.todo, t.moved = s.moved, t.ret = s.ret,
             IsSeq(words), Knows(c, m, place), m.out = <<>>, place = "read" => c.name \in {"tr", "yes"},
             c.name \in {"cat", "tee", "head", "wc", "hex"} => words = OrDash(c.args),
             IF c.name = "dd" THEN t.in = Operands(c.args).in ELSE t.in = s.in
      PROVE  LocalOK(c, t) /\ Where(c, t, D)
  <2>1. Place(t) = place /\ Shape(t)
    BY <1>1, <1>4 DEF Shape, Place
  <2>2. Handles(c, t)
    BY <1>1, <1>4, <2>1 DEF LocalOK, Handles
  <2>3. Remains(c, t)
    <3> SUFFICES ASSUME c.name \in {"cat", "tee", "head", "wc", "hex"}, NEW i \in 1..Len(t.args)
                 PROVE  t.args[i] \in ToSet(OrDash(c.args))
      BY DEF Remains
    <3>1. t.args = OrDash(c.args) /\ IsSeq(t.args)
      BY <1>4
    <3>2. t.args[i] \in ToSet(t.args)
      BY <3>1, SeqFacts DEF ToSet
    <3> QED  BY <3>1, <3>2
  <2>4. LocalOK(c, t)
    BY <1>4, <2>1, <2>2, <2>3 DEF LocalOK
  <2>5. Where(c, t, D)
    BY <1>1, <1>4, <2>1 DEF Where
  <2> QED  BY <2>4, <2>5
<1>5. IsSeq(OrDash(c.args))
  BY <1>1, OneIsSeq DEF OrDash
<1>6. CASE c.name = "tr"
  <2>1. CASE TrArgsOK(c.flags, c.args)
    <3> DEFINE words == Sets(p)
               t == [s EXCEPT !.at = "read", !.args = words, !.mem = TrStart]
    <3>1. Silent(p, t)
      BY <1>6, <2>1 DEF Begin
    <3>2. IsSeq(words)
      <4>1. DOMAIN c.args = 1..Len(c.args) /\ Len(c.args) \in Nat
        BY <1>1, SeqFacts
      <4>2. DOMAIN words = 1..Len(c.args) /\ words = [i \in 1..Len(c.args) |-> words[i]]
        BY <4>1 DEF Sets
      <4> HIDE DEF words
      <4> QED  BY <4>1, <4>2, FunIsSeq
    <3> HIDE DEF words
    <3>3. Knows(c, TrStart, "read") /\ TrStart.out = <<>>
      BY <1>6, EmptyIsSeq DEF Knows, TrStart
    <3>4. /\ DOMAIN t = DOMAIN s /\ t.at = "read" /\ t.args = words /\ t.mem = TrStart /\ t.buf = s.buf /\ t.obuf = s.obuf
          /\ t.fds = s.fds /\ t.todo = s.todo /\ t.moved = s.moved /\ t.ret = s.ret /\ t.in = s.in
      BY <1>1 DEF Shape
    <3> HIDE DEF t, s, c
    <3>5. LocalOK(c, t) /\ Where(c, t, D)
      BY <1>4, <1>6, <3>2, <3>3, <3>4
    <3> QED  BY <1>2, <3>1, <3>5
  <2>2. CASE ~TrArgsOK(c.flags, c.args)
    <3>1. Silent(p, Ends(s, 1))
      BY <1>6, <2>2 DEF Begin
    <3> QED  BY <1>3, <3>1
  <2> QED  BY <2>1, <2>2
<1>7. CASE c.name = "dd"
  <2> DEFINE m == Operands(c.args)
             t == [s EXCEPT !.at = "open", !.mem = m, !.in = m.in]
  <2>1. CASE m.bad
    <3>1. Silent(p, Ends(s, 1))
      BY <1>7, <2>1 DEF Begin
    <3> QED  BY <1>3, <3>1
  <2>2. CASE ~m.bad
    <3>1. Silent(p, t)
      BY <1>7, <2>2 DEF Begin
    <3>2. m \in DdRecords
      <4>1. \A i \in 1..Len(c.args) : OperandOK(c.args[i])
        BY <1>1, <1>7, SeqFacts DEF CommandOK
      <4> QED  BY <1>1, <4>1, OperandsOK
    <3>3. Knows(c, m, "open") /\ m.out = <<>>
      <4>1. DOMAIN m = DOMAIN DdStart /\ "out" \in DOMAIN m
        BY <3>2, DdFields DEF DdRecords
      <4>2. /\ m.count \in Nat /\ m.room = 0 /\ m.block = <<>> /\ m.content = <<>> /\ m.out = <<>>
            /\ m.total_r = 0 /\ m.total_w = 0
        BY <3>2 DEF DdRecords
      <4>3. DdKnows(c, m)
        BY <4>1, <4>2, EmptyIsSeq DEF DdKnows, DdSame
      <4> QED  BY <1>7, <4>1, <4>2, <4>3, EmptyIsSeq DEF Knows
    <3> HIDE DEF m
    <3>4. /\ DOMAIN t = DOMAIN s /\ t.at = "open" /\ t.args = s.args /\ t.mem = m /\ t.buf = s.buf /\ t.obuf = s.obuf
          /\ t.fds = s.fds /\ t.todo = s.todo /\ t.moved = s.moved /\ t.ret = s.ret /\ t.in = m.in
      BY <1>1 DEF Shape
    <3>5. IsSeq(s.args)
      BY <1>1 DEF Shape
    <3>6. IF c.name = "dd" THEN t.in = Operands(c.args).in ELSE t.in = s.in
      BY <1>7, <3>4 DEF m
    <3> HIDE DEF t, s, c
    <3>7. LocalOK(c, t) /\ Where(c, t, D)
      BY <1>4, <1>7, <3>3, <3>4, <3>5, <3>6
    <3> QED  BY <1>2, <3>1, <3>7
  <2> QED  BY <2>1, <2>2
<1>8. CASE c.name = "yes"
  <2> DEFINE t == [s EXCEPT !.at = "read", !.mem = NothingYet]
  <2>1. Silent(p, t)
    BY <1>8 DEF Begin
  <2>2. Knows(c, NothingYet, "read") /\ NothingYet.out = <<>>
    BY <1>8, EmptyIsSeq DEF Knows, NothingYet
  <2>3. /\ DOMAIN t = DOMAIN s /\ t.at = "read" /\ t.args = s.args /\ t.mem = NothingYet /\ t.buf = s.buf /\ t.obuf = s.obuf
        /\ t.fds = s.fds /\ t.todo = s.todo /\ t.moved = s.moved /\ t.ret = s.ret /\ t.in = s.in
    BY <1>1 DEF Shape
  <2>4. IsSeq(s.args)
    BY <1>1 DEF Shape
  <2> HIDE DEF t, s, c
  <2>5. LocalOK(c, t) /\ Where(c, t, D)
    BY <1>4, <1>8, <2>2, <2>3, <2>4
  <2> QED  BY <1>2, <2>1, <2>5
<1>9. CASE c.name \notin {"tr", "dd", "yes"}
  <2> DEFINE m == IF c.name = "wc" THEN WcStart ELSE NothingYet
             words == OrDash(c.args)
             t == [s EXCEPT !.at = "open", !.args = words, !.mem = m]
  <2>1. Silent(p, t)
    BY <1>9 DEF Begin
  <2>2. Knows(c, m, "open") /\ m.out = <<>>
    BY <1>9, EmptyIsSeq DEF Knows, NothingYet, WcStart
  <2> HIDE DEF m, words
  <2>3. /\ DOMAIN t = DOMAIN s /\ t.at = "open" /\ t.args = words /\ t.mem = m /\ t.buf = s.buf /\ t.obuf = s.obuf
        /\ t.fds = s.fds /\ t.todo = s.todo /\ t.moved = s.moved /\ t.ret = s.ret /\ t.in = s.in
    BY <1>1 DEF Shape
  <2> HIDE DEF t, s, c
  <2>5. LocalOK(c, t) /\ Where(c, t, D)
    BY <1>4, <1>5, <1>9, <2>2, <2>3 DEF words
  <2> QED  BY <1>2, <2>1, <2>5
<1> QED  BY <1>6, <1>7, <1>8, <1>9

LEMMA TailArgs ==
  ASSUME NEW c, NEW s, LocalOK(c, s), s.args # <<>>, NEW t, t = [s EXCEPT !.args = Tail(@)]
  PROVE  /\ LocalOK(c, t) /\ Place(t) = Place(s) /\ t.args = Tail(s.args)
         /\ t.in = s.in /\ t.ret = s.ret /\ t.fds = s.fds /\ t.mem = s.mem /\ t.at = s.at
         /\ c.name \in {"cat", "tee", "head", "wc", "hex"} => Head(s.args) \in ToSet(OrDash(c.args))
<1> DEFINE words == Tail(s.args)
<1>1. /\ Len(s.args) >= 1 /\ Head(s.args) = s.args[1]
      /\ IsSeq(words) /\ Len(words) = Len(s.args) - 1 /\ \A i \in 1..Len(words) : words[i] = s.args[i + 1]
  BY TailFacts DEF LocalOK, Shape
<1>2. Len(s.args) \in Nat
  BY SeqFacts DEF LocalOK, Shape
<1> HIDE DEF words
<1>3. /\ DOMAIN t = DOMAIN s /\ t.at = s.at /\ t.args = words /\ t.buf = s.buf /\ t.obuf = s.obuf /\ t.mem = s.mem
      /\ t.fds = s.fds /\ t.todo = s.todo /\ t.moved = s.moved /\ t.next = s.next /\ t.in = s.in /\ t.ret = s.ret
  BY DEF LocalOK, Shape, words
<1>4. \A i \in 1..Len(words) : i + 1 \in 1..Len(s.args)
  BY <1>1, <1>2
<1>5. Remains(c, t)
  BY <1>1, <1>3, <1>4 DEF LocalOK, Remains
<1>6. LocalOK(c, t) /\ Place(t) = Place(s)
  BY <1>1, <1>3, <1>5 DEF LocalOK, Shape, Handles, Place
<1>7. c.name \in {"cat", "tee", "head", "wc", "hex"} => Head(s.args) \in ToSet(OrDash(c.args))
  <2>1. 1 \in 1..Len(s.args)
    BY <1>1, <1>2
  <2> QED  BY <1>1, <2>1 DEF LocalOK, Remains
<1> QED  BY <1>3, <1>6, <1>7 DEF words

LEMMA InOK ==
  ASSUME NEW c, NEW s, NEW in, LocalOK(c, s), NEW t, t = [s EXCEPT !.in = in]
  PROVE  /\ LocalOK(c, t) /\ Place(t) = Place(s) /\ t.in = in /\ t.at = s.at
         /\ t.args = s.args /\ t.ret = s.ret /\ t.fds = s.fds /\ t.mem = s.mem
<1>1. /\ DOMAIN t = DOMAIN s /\ t.at = s.at /\ t.args = s.args /\ t.buf = s.buf /\ t.obuf = s.obuf /\ t.mem = s.mem
      /\ t.fds = s.fds /\ t.todo = s.todo /\ t.moved = s.moved /\ t.next = s.next /\ t.in = in /\ t.ret = s.ret
  BY DEF LocalOK, Shape
<1>2. LocalOK(c, t) /\ Place(t) = Place(s)
  BY <1>1 DEF LocalOK, Shape, Handles, Place, Remains
<1> QED  BY <1>1, <1>2

LEMMA FreshOK ==
  ASSUME NEW p, NEW m, CommandOK(Cmd(p)), Cmd(p).name \in {"cat", "head", "wc", "hex"}, Knows(Cmd(p), m, "open"),
         NEW next, next = IF Cmd(p).name = "head" /\ "lines" \in HeadFlags(Cmd(p)) /\ HeadLimit(Cmd(p)) = 0
                          THEN "open" ELSE "read"
  PROVE  Knows(Cmd(p), Fresh(p, m), next)
<1> DEFINE c == Cmd(p)
           r == Fresh(p, m)
<1>1. CASE c.name = "cat"
  BY <1>1, EmptyIsSeq DEF Fresh, CatStart, Knows
<1>2. CASE c.name = "hex"
  <2>1. r = HexStart
    BY <1>2 DEF Fresh
  <2> QED  BY <1>2, <2>1, EmptyIsSeq DEF HexStart, Knows
<1>3. CASE c.name = "wc"
  <2> DEFINE grid == m.grid
             sums == m.sums
  <2>1. r = [WcStart EXCEPT !.grid = grid, !.sums = sums]
    BY <1>3 DEF Fresh
  <2>2. IsSeq(grid)
    BY <1>3 DEF Knows
  <2> HIDE DEF grid, sums, r
  <2>3. r.out = <<>> /\ "out" \in DOMAIN r /\ "grid" \in DOMAIN r /\ r.grid = grid
    BY <2>1 DEF WcStart
  <2> QED  BY <1>3, <2>2, <2>3, EmptyIsSeq DEF Knows, r
<1>4. CASE c.name = "head"
  <2>1. r = [HeadStart EXCEPT !.out = Heading(p)]
    BY <1>4 DEF Fresh
  <2>2. IsSeq(Heading(p))
    BY EmptyIsSeq, TwoIsSeq DEF Heading
  <2>3. r.out = Heading(p) /\ "out" \in DOMAIN r /\ "total" \in DOMAIN r /\ r.total = 0
    BY <2>1 DEF HeadStart
  <2>4. HeadLimit(c) \in Nat
    BY DEF HeadLimit, CommandOK
  <2> HIDE DEF r
  <2> QED  BY <1>4, <2>2, <2>3, <2>4 DEF Knows, r
<1> QED  BY <1>1, <1>2, <1>3, <1>4

LEMMA OpenInputSteps == ASSUME Typed, NEW p \in Proc, OpenInput(p) PROVE Steps(p)
<1> DEFINE c == Cmd(p)
           o == proc[p]
           D == DOMAIN file
           name == Head(o.args)
           s == [o EXCEPT !.args = Tail(@)]
           in == IF name = "-" THEN "stdin" ELSE name
           next == IF c.name = "head" /\ "lines" \in HeadFlags(c) /\ HeadLimit(c) = 0 THEN "open" ELSE "read"
           u == [s EXCEPT !.in = in]
           m == Fresh(p, s.mem)
           t == Printed(u, m, next)
<1>1. /\ LocalOK(c, o) /\ Where(c, o, D) /\ CommandOK(c) /\ p \notin ended /\ o.at = "open" /\ o.args # <<>>
      /\ o.ret \in {0, 1} /\ Place(o) = "open" /\ c.name \in {"cat", "head", "wc", "hex"}
  BY SettingFacts, RetIs DEF Typed, OpenInput, At, Place
<1>2. \/ /\ in = "stdin" \/ in \in D
         /\ Becomes(p, t)
         /\ IF in = "stdin" THEN UNCHANGED streams ELSE Rewind(p, IF c.name = "hex" /\ Given(p, "seek") THEN c.seek ELSE 0)
      \/ Silent(p, [s EXCEPT !.ret = 1])
  BY DEF OpenInput
<1> HIDE DEF t
<1>3. /\ LocalOK(c, s) /\ Place(s) = "open" /\ s.in = o.in /\ s.ret = o.ret /\ s.mem = o.mem
      /\ name \in ToSet(OrDash(c.args)) /\ s.at = "open"
  <2> HIDE DEF c, o
  <2>1. s = [o EXCEPT !.args = Tail(@)]
    OBVIOUS
  <2> HIDE DEF s
  <2>2. LocalOK(c, s) /\ Place(s) = Place(o) /\ s.in = o.in /\ s.ret = o.ret /\ s.mem = o.mem /\ s.at = o.at
    BY <1>1, <2>1, TailArgs
  <2>3. c.name \in {"cat", "tee", "head", "wc", "hex"} => Head(o.args) \in ToSet(OrDash(c.args))
    BY <1>1, <2>1, TailArgs
  <2> QED  BY <1>1, <2>2, <2>3
<1> HIDE DEF s
<1>4. CASE /\ in = "stdin" \/ in \in D
           /\ Becomes(p, t)
           /\ IF in = "stdin" THEN UNCHANGED streams ELSE Rewind(p, IF c.name = "hex" /\ Given(p, "seek") THEN c.seek ELSE 0)
  <2>1. LocalOK(c, u) /\ Place(u) = "open" /\ u.in = in /\ u.ret = s.ret
    <3> HIDE DEF in
    <3> QED  BY <1>3, InOK
  <2>2. Knows(c, m, next)
    <3>1. Knows(c, s.mem, "open")
      BY <1>3 DEF LocalOK
    <3> QED  BY <1>1, <3>1, FreshOK
  <2>3. "out" \in DOMAIN m /\ IsSeq(m.out)
    BY <2>2 DEF Knows
  <2>4. next # "write" /\ next \in {"open", "read"} /\ c.name # "dd"
    BY <1>1
  <2>5. c.name = "cat" /\ c.args = <<>> => in = "stdin"
    <3>1. c.args = <<>> => name = "-"
      <4>1. ToSet(<<"-">>) = {"-"}
        BY DEF ToSet
      <4> QED  BY <1>3, <4>1 DEF OrDash
    <3> QED  BY <3>1
  <2> HIDE DEF in, next, m, u, c
  <2>6. LocalOK(c, t) /\ Place(t) = next
    BY <2>1, <2>2, <2>3, <2>4, PrintedOK DEF t
  <2>7. t.in = in /\ t.ret = o.ret
    <3>1. Shape(u)
      BY <2>1 DEF LocalOK
    <3>2. GoesFrom(u, t) /\ t.ret = u.ret /\ Place(t) = next
      BY <2>3, <2>4, <3>1, PrintedRest DEF t
    <3> QED  BY <1>3, <2>1, <3>2 DEF GoesFrom
  <2>8. Where(c, t, D)
    BY <1>1, <1>4, <2>4, <2>5, <2>6, <2>7 DEF Where
  <2>9. Moves(p) /\ ended' = ended
    <3>1. CASE in = "stdin"
      BY <1>4, <3>1 DEF Moves, streams
    <3>2. CASE in # "stdin"
      <4>1. PICK off \in Nat : Rewind(p, off)
        BY <1>1, <1>4, <3>2 DEF CommandOK, c
      <4> QED  BY <4>1 DEF Moves, Rewind
    <3> QED  BY <3>1, <3>2
  <2> QED  BY <1>1, <1>4, <2>6, <2>8, <2>9, MoveSteps DEF c
<1>5. CASE Silent(p, [s EXCEPT !.ret = 1])
  <2> DEFINE r == [s EXCEPT !.ret = 1]
  <2>1. LocalOK(c, r) /\ Place(r) = "open" /\ r.ret = 1
    BY <1>3, RetOK
  <2>2. r.in = o.in
    BY <1>3 DEF LocalOK, Shape
  <2> HIDE DEF r
  <2>3. Where(c, r, D)
    BY <1>1, <2>1, <2>2, WhereStays
  <2> QED  BY <1>1, <1>5, <2>1, <2>3, SilentSteps DEF r
<1> QED  BY <1>2, <1>4, <1>5

LEMMA FinishSteps == ASSUME Typed, NEW p \in Proc, Finish(p) PROVE Steps(p)
<1> DEFINE c == Cmd(p)
           s == proc[p]
           D == DOMAIN file
           totals == IF Len(c.args) > 1 THEN add_stat(c.flags, s.mem.sums) \o <<AName, Newline>> ELSE <<>>
           obuf == s.obuf \o s.mem.grid \o totals
           u == [s EXCEPT !.obuf = obuf]
           t == Ends(u, s.ret)
<1>1. /\ LocalOK(c, s) /\ Where(c, s, D) /\ CommandOK(c) /\ p \notin ended /\ s.at = "open"
      /\ s.ret \in {0, 1} /\ Place(s) = "open"
  BY SettingFacts, RetIs DEF Typed, Finish, At, Place
<1>2. Silent(p, Ends(s, s.ret)) \/ Silent(p, Dies(s)) \/ (c.name = "wc" /\ Silent(p, t))
  <2>1. CASE c.name = "wc"
    BY <2>1 DEF Finish
  <2>2. CASE c.name # "wc"
    BY <2>2 DEF Finish
  <2> QED  BY <2>1, <2>2
<1>3. CASE Silent(p, Ends(s, s.ret))
  BY <1>1, <1>3, EndsSteps
<1>4. CASE Silent(p, Dies(s))
  BY <1>1, <1>4, DiesSteps
<1>5. CASE c.name = "wc" /\ Silent(p, t)
  <2>1. IsSeq(totals)
    <3> DEFINE stat == add_stat(c.flags, s.mem.sums)
               end == <<AName, Newline>>
    <3>1. IsSeq(stat) /\ IsSeq(end)
      BY StatIsSeq, TwoIsSeq
    <3> HIDE DEF stat, end
    <3>2. IsSeq(stat \o end)
      BY <3>1, JoinFacts
    <3> QED  BY <3>2, EmptyIsSeq DEF stat, end
  <2> HIDE DEF totals
  <2>2. IsSeq(obuf)
    <3>1. IsSeq(s.obuf) /\ IsSeq(s.mem.grid)
      BY <1>1, <1>5 DEF LocalOK, Shape, Knows
    <3>2. IsSeq(s.obuf \o s.mem.grid)
      BY <3>1, JoinFacts
    <3> QED  BY <2>1, <3>2, JoinFacts
  <2> HIDE DEF obuf
  <2>3. /\ DOMAIN u = DOMAIN s /\ u.at = s.at /\ u.args = s.args /\ u.buf = s.buf /\ u.obuf = obuf /\ u.mem = s.mem
        /\ u.fds = s.fds /\ u.todo = s.todo /\ u.moved = s.moved /\ u.next = s.next /\ u.in = s.in /\ u.ret = s.ret
    BY <1>1 DEF LocalOK, Shape
  <2> HIDE DEF u
  <2>4. LocalOK(c, u)
    BY <1>1, <2>2, <2>3 DEF LocalOK, Shape, Handles, Place, Remains
  <2>5. LocalOK(c, t) /\ Place(t) = "exit" /\ t.in = s.in /\ t.ret = s.ret
    BY <2>3, <2>4, EndsOK, EndsRest DEF LocalOK, GoesFrom
  <2> HIDE DEF t
  <2>6. Where(c, t, D)
    BY <1>1, <2>5, WhereStays
  <2> QED  BY <1>1, <1>5, <2>5, <2>6, SilentSteps
<1> QED  BY <1>2, <1>3, <1>4, <1>5

LEMMA OpenOutputSteps == ASSUME Typed, NEW p \in Proc, OpenOutput(p) PROVE Steps(p)
<1> DEFINE c == Cmd(p)
           s == proc[p]
           D == DOMAIN file
           f == Head(s.args)
           fd == Opened(f, Given(p, "append"))
           u == [s EXCEPT !.args = Tail(@)]
           fds == IF c.args = <<>> THEN s.fds ELSE Append(s.fds, fd)
           t == [s EXCEPT !.args = Tail(@), !.fds = fds]
           r == [s EXCEPT !.args = Tail(@), !.ret = 1]
           g == [s EXCEPT !.at = "read"]
<1>1. /\ LocalOK(c, s) /\ Where(c, s, D) /\ CommandOK(c) /\ p \notin ended /\ s.at = "open"
      /\ s.ret \in {0, 1} /\ Place(s) = "open" /\ c.name = "tee" /\ Shape(s)
  BY SettingFacts, RetIs DEF Typed, OpenOutput, At, Place, LocalOK
<1>2. CASE s.args = <<>>
  <2>1. Silent(p, Ends(s, 1)) \/ Silent(p, g)
    BY <1>2 DEF OpenOutput
  <2>2. CASE Silent(p, Ends(s, 1))
    BY <1>1, <2>2, EndsSteps
  <2>3. CASE Silent(p, g)
    <3>1. /\ DOMAIN g = DOMAIN s /\ g.at = "read" /\ g.args = s.args /\ g.buf = s.buf /\ g.obuf = s.obuf /\ g.mem = s.mem
          /\ g.fds = s.fds /\ g.todo = s.todo /\ g.moved = s.moved /\ g.in = s.in /\ g.ret = s.ret
      BY <1>1 DEF Shape
    <3> HIDE DEF g
    <3>2. Place(g) = "read"
      BY <3>1 DEF Place
    <3>3. LocalOK(c, g)
      BY <1>1, <3>1, <3>2 DEF LocalOK, Shape, Handles, Remains, Knows
    <3>4. Where(c, g, D)
      BY <1>1, <3>1, <3>2 DEF Where
    <3> QED  BY <1>1, <2>3, <3>3, <3>4, SilentSteps
  <2> QED  BY <2>1, <2>2, <2>3
<1>3. CASE s.args # <<>>
  <2>1. (Create(f, ~Given(p, "append")) /\ Becomes(p, t)) \/ Silent(p, r)
    BY <1>3 DEF OpenOutput
  <2>2. /\ LocalOK(c, u) /\ Place(u) = "open" /\ u.in = s.in /\ u.ret = s.ret /\ u.fds = s.fds /\ u.mem = s.mem
        /\ f \in ToSet(OrDash(c.args)) /\ u.at = "open"
    <3> DEFINE v == u
    <3>1. v = [s EXCEPT !.args = Tail(@)]
      OBVIOUS
    <3> HIDE DEF c, v, s
    <3>2. LocalOK(c, v) /\ Place(v) = Place(s) /\ v.in = s.in /\ v.ret = s.ret /\ v.fds = s.fds /\ v.mem = s.mem /\ v.at = s.at
      BY <1>1, <1>3, <3>1, TailArgs
    <3>3. c.name \in {"cat", "tee", "head", "wc", "hex"} => f \in ToSet(OrDash(c.args))
      BY <1>1, <1>3, <3>1, TailArgs
    <3> QED  BY <1>1, <3>1, <3>2, <3>3
  <2>3. t = [u EXCEPT !.fds = fds] /\ r = [u EXCEPT !.ret = 1]
    <3>1. s.fds = u.fds
      BY <2>2
    <3> HIDE DEF fds
    <3> QED  BY <1>1 DEF Shape
  <2> HIDE DEF u
  <2>4. CASE Create(f, ~Given(p, "append")) /\ Becomes(p, t)
    <3>1. f \in Outs(c)
      BY <1>1, <2>2 DEF Outs
    <3>2. FdOK(c, fd) \/ c.args = <<>>
      <4> SUFFICES ASSUME c.args # <<>> PROVE FdOK(c, fd)
        OBVIOUS
      <4>1. f \in FileName
        BY <1>1, <2>2 DEF OrDash, CommandOK
      <4>2. f # "stdout"
        BY <4>1, StreamAssumption
      <4> QED  BY <3>1, <4>2 DEF FdOK, Opened
    <3>3. IsSeq(fds) /\ Len(fds) >= Len(s.fds) /\ Len(fds) \in Nat /\ \A i \in 1..Len(fds) : FdOK(c, fds[i])
      <4>1. IsSeq(s.fds) /\ Len(s.fds) \in Nat /\ \A i \in 1..Len(s.fds) : FdOK(c, s.fds[i])
        BY <1>1, SeqFacts DEF LocalOK, Shape, Handles
      <4>2. CASE c.args = <<>>
        BY <4>1, <4>2
      <4>3. CASE c.args # <<>>
        <5> HIDE DEF fd
        <5>1. fds = Append(s.fds, fd)
          BY <4>3
        <5>2. /\ IsSeq(fds) /\ Len(fds) = Len(s.fds) + 1
              /\ fds[Len(s.fds) + 1] = fd /\ \A i \in 1..Len(s.fds) : fds[i] = s.fds[i]
          BY <4>1, <5>1, MoreFacts
        <5> HIDE DEF fds
        <5>3. \A i \in 1..Len(fds) : i \in 1..Len(s.fds) \/ i = Len(s.fds) + 1
          BY <4>1, <5>2
        <5>4. \A i \in 1..Len(fds) : FdOK(c, fds[i])
          BY <3>2, <4>1, <4>3, <5>2, <5>3
        <5> QED  BY <4>1, <5>2, <5>4
      <4> QED  BY <4>2, <4>3
    <3> HIDE DEF fds
    <3>4. /\ DOMAIN t = DOMAIN u /\ t.at = u.at /\ t.args = u.args /\ t.buf = u.buf /\ t.obuf = u.obuf /\ t.mem = u.mem
          /\ t.fds = fds /\ t.todo = u.todo /\ t.moved = u.moved /\ t.in = u.in /\ t.ret = u.ret /\ t.next = u.next
      BY <2>2, <2>3 DEF LocalOK, Shape
    <3> HIDE DEF t
    <3>5. Place(t) = "open"
      BY <2>2, <3>4 DEF Place
    <3>6. Shape(t)
      BY <2>2, <3>3, <3>4 DEF LocalOK, Shape
    <3>7. Handles(c, t)
      <4>1. \A i \in 1..Len(t.todo) : CallOK(Len(t.fds), t.todo[i])
        <5>1. \A n : n \in 0..Len(s.fds) => n \in 0..Len(fds)
          BY <3>3
        <5> QED  BY <2>2, <3>4, <5>1 DEF LocalOK, Handles, CallOK
      <4> QED  BY <1>1, <2>2, <3>3, <3>4, <4>1 DEF LocalOK, Handles
    <3>8. LocalOK(c, t)
      BY <2>2, <3>4, <3>5, <3>6, <3>7 DEF LocalOK, Remains
    <3>9. Where(c, t, D)
      BY <1>1, <2>2, <3>4, <3>5, WhereStays
    <3>10. Moves(p) /\ ended' = ended
      BY <2>4, <3>1 DEF Moves, Create
    <3> QED  BY <1>1, <2>4, <3>8, <3>9, <3>10, MoveSteps
  <2>5. CASE Silent(p, r)
    <3>1. LocalOK(c, r) /\ Place(r) = "open" /\ r.ret = 1
      BY <2>2, <2>3, RetOK
    <3>2. r.in = s.in
      BY <2>2, <2>3 DEF LocalOK, Shape
    <3> HIDE DEF r
    <3>3. Where(c, r, D)
      BY <1>1, <3>1, <3>2, WhereStays
    <3> QED  BY <1>1, <2>5, <3>1, <3>3, SilentSteps DEF r
  <2> QED  BY <2>1, <2>4, <2>5
<1> QED  BY <1>2, <1>3

LEMMA DdFacts ==
  ASSUME Typed, NEW p \in Proc, Cmd(p).name = "dd", Place(proc[p]) \notin {"start", "exit"}
  PROVE  LET s == proc[p] IN
         /\ DdKnows(Cmd(p), s.mem) /\ s.mem.out = <<>> /\ s.in = s.mem.in
         /\ Outs(Cmd(p)) = {s.mem.of} \ {"stdout"}
<1> DEFINE c == Cmd(p)
           s == proc[p]
<1>1. LocalOK(c, s) /\ Where(c, s, DOMAIN file)
  BY DEF Typed
<1>2. Knows(c, s.mem, Place(s)) /\ s.mem.out = <<>>
  BY <1>1 DEF LocalOK
<1>3. DdKnows(c, s.mem)
  BY <1>2 DEF Knows
<1>4. s.mem.in = Operands(c.args).in /\ s.mem.of = Operands(c.args).of
  BY <1>3 DEF DdKnows, DdSame
<1>5. s.in = s.mem.in
  BY <1>1, <1>4 DEF Where
<1> QED  BY <1>2, <1>3, <1>4, <1>5 DEF Outs

LEMMA OpenDdSteps == ASSUME Typed, NEW p \in Proc, OpenDd(p) PROVE Steps(p)
<1> DEFINE c == Cmd(p)
           s == proc[p]
           D == DOMAIN file
           m == s.mem
           off == IF m.oseek > 0 THEN Size(m.obs * m.oseek) ELSE 0
           fd == IF m.of = "stdout" THEN Stdout ELSE [Opened(m.of, FALSE) EXCEPT !.off = off]
           fds == <<fd>>
           t == [s EXCEPT !.at = "seek", !.fds = fds]
<1>1. /\ LocalOK(c, s) /\ Where(c, s, D) /\ CommandOK(c) /\ p \notin ended /\ s.at = "open"
      /\ s.ret \in {0, 1} /\ Place(s) = "open" /\ c.name = "dd" /\ Shape(s)
  BY SettingFacts, RetIs DEF Typed, OpenDd, At, Place, LocalOK
<1>2. \/ /\ m.in = "stdin" \/ m.in \in D
         /\ Becomes(p, t)
         /\ IF m.of = "stdout" THEN UNCHANGED streams ELSE Create(m.of, m.trunc)
      \/ Silent(p, Ends(s, 1))
  BY DEF OpenDd
<1>3. DdKnows(c, m) /\ m.out = <<>> /\ s.in = m.in /\ Outs(c) = {m.of} \ {"stdout"}
  BY <1>1, DdFacts
<1>4. CASE Silent(p, Ends(s, 1))
  BY <1>1, <1>4, EndsSteps
<1>5. CASE /\ m.in = "stdin" \/ m.in \in D
           /\ Becomes(p, t)
           /\ IF m.of = "stdout" THEN UNCHANGED streams ELSE Create(m.of, m.trunc)
  <2>1. FdOK(c, fd)
    <3>1. Size(m.obs * m.oseek) \in Nat
      BY <1>1, <1>3, SizesAreNat
    <3>2. off \in Nat
      BY <3>1
    <3> HIDE DEF off
    <3> QED  BY <1>1, <1>3, <3>2 DEF FdOK, Stdout, Opened
  <2> HIDE DEF fd
  <2>2. IsSeq(fds) /\ Len(fds) = 1 /\ fds[1] = fd
    BY OneIsSeq
  <2> HIDE DEF fds
  <2>3. /\ DOMAIN t = DOMAIN s /\ t.at = "seek" /\ t.args = s.args /\ t.buf = s.buf /\ t.obuf = s.obuf /\ t.mem = s.mem
        /\ t.fds = fds /\ t.todo = s.todo /\ t.moved = s.moved /\ t.in = s.in /\ t.ret = s.ret
    BY <1>1 DEF Shape
  <2> HIDE DEF t
  <2>4. Place(t) = "seek" /\ Shape(t)
    BY <1>1, <2>2, <2>3 DEF Place, Shape
  <2>5. Handles(c, t)
    <3>1. \A i \in 1..Len(t.fds) : FdOK(c, t.fds[i])
      <4>1. \A i \in 1..Len(fds) : i = 1
        BY <2>2
      <4> QED  BY <2>1, <2>2, <2>3, <4>1
    <3>2. \A i \in 1..Len(t.todo) : CallOK(Len(t.fds), t.todo[i])
      <4>1. s.fds = <<>> /\ Len(s.fds) = 0
        BY EmptyIsSeq DEF OpenDd
      <4>2. \A n : n \in 0..Len(s.fds) => n \in 0..Len(fds)
        BY <2>2, <4>1
      <4> QED  BY <1>1, <2>3, <4>2 DEF LocalOK, Handles, CallOK
    <3>3. t.at = "seek" /\ t.at # "write" /\ Len(t.fds) = 1
      BY <2>2, <2>3
    <3> QED  BY <3>1, <3>2, <3>3 DEF Handles
  <2>6. LocalOK(c, t)
    BY <1>1, <2>3, <2>4, <2>5 DEF LocalOK, Remains, Knows
  <2>7. Where(c, t, D)
    BY <1>1, <1>3, <1>5, <2>3, <2>4 DEF Where
  <2>8. Moves(p) /\ ended' = ended
    <3>1. CASE m.of = "stdout"
      BY <1>5, <3>1 DEF Moves, streams
    <3>2. CASE m.of # "stdout"
      <4>1. Create(m.of, m.trunc) /\ m.of \in Outs(c)
        BY <1>3, <1>5, <3>2
      <4> HIDE DEF m
      <4> QED  BY <4>1 DEF Moves, Create
    <3> QED  BY <3>1, <3>2
  <2> QED  BY <1>1, <1>5, <2>6, <2>7, <2>8, MoveSteps
<1> QED  BY <1>2, <1>4, <1>5

\* They differ only in what the loop knows and where it is.
Besides(s, t) ==
  /\ DOMAIN t = DOMAIN s /\ t.args = s.args /\ t.buf = s.buf /\ t.obuf = s.obuf /\ t.fds = s.fds
  /\ t.todo = s.todo /\ t.moved = s.moved /\ t.next = s.next /\ t.in = s.in /\ t.ret = s.ret

LEMMA DdMoves ==
  ASSUME NEW c, NEW s, LocalOK(c, s), c.name = "dd", Place(s) \in {"read", "pour", "seek"}, s.at # "write",
         NEW t, Besides(s, t), DdKnows(c, t.mem), t.mem.out = <<>>,
         t.at \in {"read", "pour", "report"}
  PROVE  LocalOK(c, t) /\ Place(t) = t.at /\ t.in = s.in /\ t.ret = s.ret
<1> DEFINE m == t.mem
<1>1. /\ DOMAIN t = DOMAIN s /\ t.args = s.args /\ t.buf = s.buf /\ t.obuf = s.obuf /\ t.mem = m
      /\ t.fds = s.fds /\ t.todo = s.todo /\ t.moved = s.moved /\ t.next = s.next /\ t.in = s.in /\ t.ret = s.ret
  BY DEF Besides
<1>2. "out" \in DOMAIN m /\ IsSeq(m.out)
  BY EmptyIsSeq DEF DdKnows, DdStart
<1>3. DdKnows(c, m) /\ m.out = <<>>
  OBVIOUS
<1> HIDE DEF m
<1>4. Place(t) = t.at
  BY DEF Place
<1>5. LocalOK(c, t)
  BY <1>1, <1>2, <1>3, <1>4 DEF LocalOK, Shape, Handles, Remains, Knows
<1> QED  BY <1>1, <1>4, <1>5

LEMMA SeekDdSteps == ASSUME Typed, NEW p \in Proc, SeekDd(p) PROVE Steps(p)
<1> DEFINE c == Cmd(p)
           s == proc[p]
           D == DOMAIN file
           m == s.mem
           n == NewRound(m)
           off == Size(m.ibs * m.iseek)
           t == [s EXCEPT !.mem = n, !.at = "read"]
<1>1. /\ LocalOK(c, s) /\ Where(c, s, D) /\ CommandOK(c) /\ p \notin ended /\ s.at = "seek"
      /\ s.ret \in {0, 1} /\ Place(s) = "seek" /\ c.name = "dd" /\ Shape(s)
  BY SettingFacts, RetIs DEF Typed, SeekDd, At, Place, LocalOK, Where
<1>2. DdKnows(c, m) /\ m.out = <<>> /\ s.in = m.in
  BY <1>1, DdFacts
<1>3. Becomes(p, [proc[p] EXCEPT !.at = "read", !.mem = NewRound(@)])
      /\ IF m.in = "stdin" THEN UNCHANGED streams ELSE Rewind(p, off)
  BY DEF SeekDd
<1>4. t = [proc[p] EXCEPT !.at = "read", !.mem = NewRound(@)]
  BY <1>1 DEF Shape
<1>5. DdKnows(c, n) /\ n.out = <<>> /\ off \in Nat
  BY <1>1, <1>2, NewRoundOK, SizesAreNat
<1> HIDE DEF n
<1>6. LocalOK(c, t) /\ Place(t) = "read" /\ t.in = s.in /\ t.ret = s.ret
  <2>1. /\ LocalOK(c, s) /\ c.name = "dd" /\ DdKnows(c, n) /\ n.out = <<>>
        /\ Place(s) \in {"read", "pour", "seek"} /\ s.at # "write" /\ "read" \in {"read", "pour", "report"}
    BY <1>1, <1>5
  <2>2. Besides(s, t) /\ t.mem = n /\ t.at = "read"
    BY <1>1 DEF Shape, Besides
  <2> HIDE DEF c, s, t
  <2> QED  BY <2>1, <2>2, DdMoves
<1>7. Moves(p) /\ ended' = ended
  BY <1>3, <1>5 DEF Moves, Rewind, streams
<1> HIDE DEF t, c
<1>8. Where(c, t, D)
  BY <1>1, <1>6, WhereStays
<1> QED  BY <1>1, <1>3, <1>4, <1>6, <1>7, <1>8, MoveSteps DEF c

LEMMA LimitIs ==
  ASSUME NEW p, NEW s, LocalOK(Cmd(p), s), s.at = "read", CommandOK(Cmd(p))
  PROVE  Limit(p, s) \in Int /\ (Cmd(p).name = "yes" => Limit(p, s) = 0)
<1> DEFINE c == Cmd(p)
<1>1. Shape(s) /\ Place(s) = "read" /\ Knows(c, s.mem, Place(s))
  BY DEF LocalOK, Place
<1>2. IsSeq(s.buf) /\ Len(s.buf) \in Nat /\ BufSize \in Nat
  BY <1>1, SeqFacts, PipelineAssumption DEF Shape
<1>3. CASE c.name = "dd"
  <2>1. DdKnows(c, s.mem)
    BY <1>1, <1>3 DEF Knows
  <2>2. s.mem.room \in Int /\ IsSeq(s.mem.block) /\ s.mem.ibs \in Nat /\ Len(s.mem.block) \in Nat
    BY <1>3, <2>1, SizesAreNat, SeqFacts DEF DdKnows
  <2>3. Asks(s.mem) \in Int
    BY <2>2 DEF Asks, Less
  <2>4. Limit(p, s) = Asks(s.mem)
    BY <1>3 DEF Limit
  <2> QED  BY <1>3, <2>3, <2>4
<1>4. CASE c.name = "yes"
  BY <1>4 DEF Limit
<1>5. CASE c.name \notin {"dd", "yes"}
  <2>1. Limit(p, s) = BufSize - Len(s.buf)
    BY <1>5 DEF Limit
  <2> QED  BY <1>2, <1>5, <2>1
<1> QED  BY <1>3, <1>4, <1>5

LEMMA ReadSteps == ASSUME Typed, NEW p \in Proc, Read(p) PROVE Steps(p)
<1> DEFINE c == Cmd(p)
           s == proc[p]
           D == DOMAIN file
           w == Waiting(p, s.in)
<1>1. /\ LocalOK(c, s) /\ Where(c, s, D) /\ CommandOK(c) /\ p \notin ended /\ s.at = "read"
      /\ s.ret \in {0, 1} /\ Place(s) = "read" /\ StreamsOK
  BY SettingFacts, RetIs DEF Typed, Read, At, Place
<1>2. PICK k \in 1..Less(Limit(p, s), Len(w)) : Take(p, s.in, k) /\ Becomes(p, Got(p, s, SubSeq(w, 1, k)))
  BY DEF Read
<1>3. s.in = "stdin" \/ s.in \in D
  BY <1>1 DEF Where
<1>4. IsSeq(w) /\ Len(w) \in Nat
  BY <1>1, <1>3, WaitingFacts
<1>5. Limit(p, s) \in Int /\ (c.name = "yes" => Limit(p, s) = 0)
  BY <1>1, LimitIs
<1>6. k \in 1..Len(w) /\ k \in Int /\ c.name # "yes"
  <2> DEFINE l == Limit(p, s)
             n == Len(w)
  <2>1. l \in Int /\ n \in Nat /\ k \in 1..Less(l, n) /\ (c.name = "yes" => l = 0)
    BY <1>2, <1>4, <1>5
  <2> HIDE DEF l, n
  <2>2. k \in 1..n
    BY <2>1 DEF Less
  <2>3. l # 0
    BY <2>1 DEF Less
  <2> QED  BY <2>1, <2>2, <2>3 DEF n
<1> DEFINE bytes == SubSeq(w, 1, k)
           t == Got(p, s, bytes)
<1>7. IsSeq(bytes)
  <2>1. k \in Int
    BY <1>6
  <2> QED  BY <2>1, PartIsSeq
<1> HIDE DEF bytes
<1>8. LocalOK(c, t) /\ Place(t) \in {"read", "open", "exit"}
  BY <1>1, <1>6, <1>7, GotOK
<1>9. /\ GoesFrom(s, t) /\ (t.ret = s.ret \/ (c.name = "tr" /\ t.ret = 1))
      /\ c.name = "dd" => Place(t) = "read"
      /\ Place(t) = "exit" => c.name = "tr"
  BY <1>1, <1>6, <1>7, GotRest
<1>10. Becomes(p, t) /\ Take(p, s.in, k)
  BY <1>2 DEF bytes
<1> HIDE DEF t, w, s
<1>11. t.in = s.in /\ t.ret \in {0, 1}
  BY <1>1, <1>9 DEF GoesFrom
<1>12. Where(c, t, D)
  BY <1>1, <1>8, <1>9, <1>11, WhereStays
<1>13. Moves(p) /\ ended' = ended
  BY <1>3, <1>6, <1>10 DEF Moves, Take, w
<1> QED  BY <1>1, <1>8, <1>10, <1>12, <1>13, MoveSteps DEF s

LEMMA YesSteps == ASSUME Typed, NEW p \in Proc, Yes(p) PROVE Steps(p)
<1> DEFINE c == Cmd(p)
           s == proc[p]
           D == DOMAIN file
           m == [s.mem EXCEPT !.out = <<121, Newline>>]
           t == Printed(s, m, "read")
<1>1. /\ LocalOK(c, s) /\ Where(c, s, D) /\ CommandOK(c) /\ p \notin ended /\ s.at = "read"
      /\ s.ret \in {0, 1} /\ Place(s) = "read" /\ c.name = "yes" /\ Silent(p, t)
  BY SettingFacts, RetIs DEF Typed, Yes, At, Place
<1>2. Shape(s) /\ Knows(c, s.mem, "read")
  BY <1>1 DEF LocalOK
<1>3. m.out = <<121, Newline>> /\ DOMAIN m = DOMAIN s.mem /\ "out" \in DOMAIN m
  BY <1>2 DEF Knows
<1>4. IsSeq(m.out)
  BY <1>3, TwoIsSeq
<1> HIDE DEF m
<1>5. Knows(c, m, "read")
  BY <1>1, <1>3, <1>4 DEF Knows
<1>6. LocalOK(c, t) /\ Place(t) = "read"
  <2> HIDE DEF c, s
  <2> QED  BY <1>1, <1>3, <1>4, <1>5, PrintedOK
<1>7. GoesFrom(s, t) /\ t.ret = s.ret /\ Place(t) = "read"
  <2> HIDE DEF s
  <2> QED  BY <1>2, <1>3, <1>4, PrintedRest
<1> HIDE DEF t, s
<1>8. Where(c, t, D)
  <2>1. t.in = s.in
    BY <1>7 DEF GoesFrom
  <2> QED  BY <1>1, <1>6, <1>7, <2>1, WhereStays
<1> QED  BY <1>1, <1>6, <1>8, SilentSteps

\* The steps of dd that only change what it knows.
LEMMA DdSteps ==
  ASSUME Typed, NEW p \in Proc, p \notin ended, Cmd(p).name = "dd", proc[p].at \in {"read", "pour"},
         NEW t, Besides(proc[p], t), DdKnows(Cmd(p), t.mem), t.mem.out = <<>>, t.at \in {"read", "pour", "report"},
         Silent(p, t)
  PROVE  Steps(p)
<1> DEFINE c == Cmd(p)
           s == proc[p]
           D == DOMAIN file
<1>1. /\ LocalOK(c, s) /\ Where(c, s, D) /\ s.ret \in {0, 1} /\ Place(s) \in {"read", "pour", "seek"}
      /\ Place(s) \notin {"start", "exit"} /\ s.at # "write" /\ Besides(s, t)
  BY RetIs DEF Typed, Place
<1> HIDE DEF c, s
<1>2. LocalOK(c, t) /\ Place(t) = t.at /\ t.in = s.in /\ t.ret = s.ret
  BY <1>1, DdMoves DEF c
<1>3. Where(c, t, D)
  BY <1>1, <1>2, WhereStays DEF c
<1> QED  BY <1>2, <1>3, SilentSteps DEF c

LEMMA PourSteps == ASSUME Typed, NEW p \in Proc, Pour(p) PROVE Steps(p)
<1> DEFINE c == Cmd(p)
           s == proc[p]
           m == AllRead(s.mem)
           t == [s EXCEPT !.mem = m, !.at = "pour"]
<1>1. /\ LocalOK(c, s) /\ p \notin ended /\ s.at = "read" /\ Place(s) = "read" /\ c.name = "dd" /\ Shape(s)
  BY DEF Typed, Pour, At, Place, LocalOK
<1>2. Silent(p, [s EXCEPT !.mem = AllRead(@), !.at = "pour"])
  BY DEF Pour
<1>3. t = [s EXCEPT !.mem = AllRead(@), !.at = "pour"]
  BY <1>1 DEF Shape
<1>4. DdKnows(c, s.mem) /\ s.mem.out = <<>>
  BY <1>1, DdFacts
<1>5. DdKnows(c, m) /\ m.out = <<>>
  BY <1>4, AllReadOK
<1> HIDE DEF m
<1>6. Besides(s, t) /\ t.mem = m /\ t.at = "pour"
  BY <1>1 DEF Shape, Besides
<1>7. Silent(p, t)
  BY <1>2, <1>3
<1> HIDE DEF t
<1> QED  BY <1>1, <1>5, <1>6, <1>7, DdSteps

LEMMA NextChunkSteps == ASSUME Typed, NEW p \in Proc, NextChunk(p) PROVE Steps(p)
<1> DEFINE c == Cmd(p)
           s == proc[p]
           D == DOMAIN file
           bytes == Chunk(s.mem)
           calls == <<Call(1, bytes)>>
           t == Writes(s, calls, "pour")
<1>1. /\ LocalOK(c, s) /\ p \notin ended /\ s.at = "pour" /\ Place(s) = "pour" /\ Where(c, s, D) /\ CommandOK(c)
      /\ s.ret \in {0, 1}
  BY SettingFacts, RetIs DEF Typed, NextChunk, At, Place
<1>2. c.name = "dd"
  BY <1>1 DEF Where
<1>3. Silent(p, Dies(s)) \/ Silent(p, t)
  BY DEF NextChunk
<1>4. CASE Silent(p, Dies(s))
  BY <1>1, <1>4, DiesSteps
<1>5. CASE Silent(p, t)
  <2>1. Len(s.fds) = 1 /\ Shape(s)
    BY <1>1, <1>2 DEF LocalOK, Handles
  <2>2. IsSeq(bytes)
    <3>1. DdKnows(c, s.mem)
      BY <1>1, <1>2, DdFacts
    <3>2. Len(s.mem.content) \in Nat /\ s.mem.obs \in Nat
      BY <1>1, <1>2, <3>1, SizesAreNat, SeqFacts DEF DdKnows
    <3>3. Less(Len(s.mem.content), s.mem.obs) \in Int
      BY <3>2 DEF Less
    <3> QED  BY <3>3, PartIsSeq DEF Chunk
  <2> HIDE DEF bytes
  <2>3. IsSeq(calls) /\ calls # <<>> /\ Len(calls) = 1 /\ calls[1] = Call(1, bytes)
    BY OneIsSeq
  <2>4. CallOK(Len(s.fds), Call(1, bytes))
    BY <2>1, <2>2 DEF CallOK, Call
  <2> HIDE DEF calls
  <2>5. \A i \in 1..Len(calls) : CallOK(Len(s.fds), calls[i])
    <3>1. \A i \in 1..Len(calls) : i = 1
      BY <2>3
    <3> QED  BY <2>3, <2>4, <3>1
  <2>6. LocalOK(c, t) /\ Place(t) = "pour"
    <3> HIDE DEF c, s
    <3> QED  BY <1>1, <1>2, <2>3, <2>5, WritesOK
  <2>7. t.in = s.in /\ t.ret = s.ret
    BY <2>1 DEF Writes, Shape
  <2> HIDE DEF t, s
  <2>8. Where(c, t, D)
    BY <1>1, <1>2, <2>6, <2>7, WhereStays
  <2> QED  BY <1>1, <1>5, <2>6, <2>8, SilentSteps
<1> QED  BY <1>3, <1>4, <1>5

LEMMA RoundSteps == ASSUME Typed, NEW p \in Proc, Round(p) PROVE Steps(p)
<1> DEFINE c == Cmd(p)
           s == proc[p]
           D == DOMAIN file
           m == Counted(s.mem)
           n == NewRound(m)
           t == [s EXCEPT !.mem = m, !.at = "report"]
           u == [s EXCEPT !.mem = n, !.at = "read"]
<1>1. /\ LocalOK(c, s) /\ p \notin ended /\ s.at = "pour" /\ Place(s) = "pour" /\ Where(c, s, D) /\ CommandOK(c)
      /\ s.ret \in {0, 1} /\ Shape(s)
  BY SettingFacts, RetIs DEF Typed, Round, At, Place, LocalOK
<1>2. c.name = "dd"
  BY <1>1 DEF Where
<1>3. DdKnows(c, s.mem) /\ s.mem.out = <<>>
  BY <1>1, <1>2, DdFacts
<1>4. Silent(p, Dies(s)) \/ (s.mem.ibs # 0 /\ (Silent(p, t) \/ Silent(p, u)))
  <2>1. [s EXCEPT !.mem = Counted(@), !.at = "report"] = t /\ [s EXCEPT !.mem = NewRound(Counted(@)), !.at = "read"] = u
    BY <1>1 DEF Shape
  <2>2. \/ s.mem.ibs = 0 /\ Silent(p, Dies(s))
        \/ s.mem.ibs # 0 /\ Silent(p, [s EXCEPT !.mem = Counted(@), !.at = "report"])
        \/ s.mem.ibs # 0 /\ Silent(p, [s EXCEPT !.mem = NewRound(Counted(@)), !.at = "read"])
    BY DEF Round
  <2> HIDE DEF t, u
  <2> QED  BY <2>1, <2>2
<1>5. CASE Silent(p, Dies(s))
  BY <1>1, <1>5, DiesSteps
<1>6. CASE s.mem.ibs # 0 /\ Silent(p, t)
  <2>1. DdKnows(c, m) /\ m.out = <<>>
    BY <1>1, <1>2, <1>3, <1>6, CountedOK
  <2> HIDE DEF m
  <2>2. Besides(s, t) /\ t.mem = m /\ t.at = "report"
    BY <1>1 DEF Shape, Besides
  <2> HIDE DEF t
  <2> QED  BY <1>1, <1>2, <1>6, <2>1, <2>2, DdSteps
<1>7. CASE s.mem.ibs # 0 /\ Silent(p, u)
  <2>1. DdKnows(c, m) /\ m.out = <<>>
    BY <1>1, <1>2, <1>3, <1>7, CountedOK
  <2> HIDE DEF m
  <2>2. DdKnows(c, n) /\ n.out = <<>>
    BY <1>1, <1>2, <2>1, NewRoundOK
  <2> HIDE DEF n
  <2>3. Besides(s, u) /\ u.mem = n /\ u.at = "read"
    BY <1>1 DEF Shape, Besides
  <2> HIDE DEF u
  <2> QED  BY <1>1, <1>2, <1>7, <2>2, <2>3, DdSteps
<1> QED  BY <1>4, <1>5, <1>6, <1>7

LEMMA ReadEndsSteps == ASSUME Typed, NEW p \in Proc, ReadEnds(p) PROVE Steps(p)
<1> DEFINE c == Cmd(p)
           s == proc[p]
           D == DOMAIN file
<1>1. /\ LocalOK(c, s) /\ Where(c, s, D) /\ CommandOK(c) /\ p \notin ended /\ s.at = "read"
      /\ s.ret \in {0, 1} /\ Place(s) = "read" /\ Shape(s) /\ Knows(c, s.mem, "read") /\ c.name # "yes"
  <2>1. /\ LocalOK(c, s) /\ Where(c, s, D) /\ CommandOK(c) /\ p \notin ended /\ s.at = "read"
        /\ s.ret \in {0, 1} /\ Place(s) = "read"
    BY SettingFacts, RetIs DEF Typed, ReadEnds, At, Place
  <2>2. Limit(p, s) \in Int /\ Limit(p, s) > 0 /\ (c.name = "yes" => Limit(p, s) = 0)
    BY <2>1, LimitIs DEF ReadEnds
  <2> QED  BY <2>1, <2>2 DEF LocalOK
<1>2. PICK error \in BOOLEAN :
         CASE c.name = "dd" ->
                IF error
                THEN \E garbage \in {0, Newline} :
                       LET first == Head(Append(s.mem.block, garbage))
                       IN  Silent(p, [s EXCEPT !.mem = BlockDone(@, <<first>>)])
                ELSE Silent(p, [s EXCEPT !.mem = BlockDone(@, @.block)])
           [] c.name = "tee" -> Silent(p, Ends(s, s.ret))
           [] Freads(p) /\ s.buf # <<>> -> Silent(p, Consumed(p, s, s.buf))
           [] OTHER -> Silent(p, Left(p, s, s.mem, error /\ c.name = "cat"))
  BY DEF ReadEnds, May
<1>3. CASE c.name = "dd"
  <2>1. \E block : IsSeq(block) /\ Silent(p, [s EXCEPT !.mem = BlockDone(s.mem, block)])
    <3>1. CASE error
      <4>1. PICK first : Silent(p, [s EXCEPT !.mem = BlockDone(@, <<first>>)])
        BY <1>2, <1>3, <3>1 DEF Freads
      <4>2. [s EXCEPT !.mem = BlockDone(@, <<first>>)] = [s EXCEPT !.mem = BlockDone(s.mem, <<first>>)]
        BY <1>1 DEF Shape
      <4>3. IsSeq(<<first>>)
        BY OneIsSeq
      <4> QED  BY <4>1, <4>2, <4>3
    <3>2. CASE ~error
      <4>1. Silent(p, [s EXCEPT !.mem = BlockDone(@, @.block)])
        BY <1>2, <1>3, <3>2 DEF Freads
      <4>2. [s EXCEPT !.mem = BlockDone(@, @.block)] = [s EXCEPT !.mem = BlockDone(s.mem, s.mem.block)]
        BY <1>1 DEF Shape
      <4>3. IsSeq(s.mem.block)
        BY <1>1, <1>3 DEF Knows, DdKnows
      <4> QED  BY <4>1, <4>2, <4>3
    <3> QED  BY <3>1, <3>2
  <2>2. PICK block : IsSeq(block) /\ Silent(p, [s EXCEPT !.mem = BlockDone(s.mem, block)])
    BY <2>1
  <2> DEFINE m == BlockDone(s.mem, block)
             t == [s EXCEPT !.mem = m]
  <2>3. DdKnows(c, s.mem) /\ s.mem.out = <<>>
    BY <1>1, <1>3, DdFacts
  <2>4. DdKnows(c, m) /\ m.out = <<>>
    BY <2>2, <2>3, BlockDoneOK
  <2> HIDE DEF m
  <2>5. Besides(s, t) /\ t.mem = m /\ t.at = "read"
    BY <1>1 DEF Shape, Besides
  <2>6. Silent(p, t)
    BY <2>2 DEF m
  <2> HIDE DEF t
  <2> QED  BY <1>1, <1>3, <2>4, <2>5, <2>6, DdSteps
<1>4. CASE c.name = "tee"
  <2>1. Silent(p, Ends(s, s.ret))
    BY <1>2, <1>4 DEF Freads
  <2> QED  BY <1>1, <2>1, EndsSteps
<1>5. ASSUME NEW t, Silent(p, t), LocalOK(c, t), Place(t) \in {"read", "open", "exit"}, GoesFrom(s, t), t.ret \in {0, 1},
             c.name # "dd"
      PROVE  Steps(p)
  <2>1. t.in = s.in
    BY <1>5 DEF GoesFrom
  <2> HIDE DEF s
  <2>2. Where(c, t, D)
    BY <1>1, <1>5, <2>1, WhereStays
  <2> QED  BY <1>1, <1>5, <2>2, SilentSteps
<1>6. CASE c.name \notin {"dd", "tee"} /\ Freads(p) /\ s.buf # <<>>
  <2> DEFINE t == Consumed(p, s, s.buf)
  <2>1. Silent(p, t)
    BY <1>2, <1>6
  <2>2. c.name \in {"cat", "tee", "tr", "wc", "head", "hex"} /\ IsSeq(s.buf)
    BY <1>1, <1>6 DEF Freads, Shape
  <2>3. LocalOK(c, t) /\ Place(t) \in {"read", "open", "exit"}
    BY <1>1, <2>2, ConsumedOK
  <2>4. GoesFrom(s, t) /\ (t.ret = s.ret \/ (c.name = "tr" /\ t.ret = 1)) /\ (Place(t) = "exit" => c.name = "tr")
    BY <1>1, <2>2, ConsumedRest
  <2> HIDE DEF t
  <2>5. t.ret \in {0, 1}
    BY <1>1, <2>4
  <2> QED  BY <1>5, <1>6, <2>1, <2>3, <2>4, <2>5
<1>7. CASE c.name \notin {"dd", "tee"} /\ ~(Freads(p) /\ s.buf # <<>>)
  <2> DEFINE e == error /\ c.name = "cat"
             t == Left(p, s, s.mem, e)
  <2>1. Silent(p, t)
    BY <1>2, <1>7
  <2>2. c.name \in {"cat", "tr", "wc", "head", "hex"}
    BY <1>1, <1>7 DEF CommandOK, Programs
  <2>3. e \in BOOLEAN
    OBVIOUS
  <2>4. Leaves(c, s.mem)
    BY <1>1, <2>2 DEF Leaves, Knows
  <2> HIDE DEF e
  <2>5. LocalOK(c, t) /\ Place(t) \in {"open", "exit"}
    BY <1>1, <2>2, <2>3, <2>4, LeftOK
  <2>6. GoesFrom(s, t) /\ t.ret = (IF e THEN 1 ELSE s.ret) /\ (Place(t) = "exit" => c.name = "tr")
    BY <1>1, <2>2, <2>3, <2>4, LeftRest
  <2> HIDE DEF t
  <2>7. t.ret \in {0, 1}
    BY <1>1, <2>6
  <2> QED  BY <1>5, <1>7, <2>1, <2>5, <2>6, <2>7
<1> QED  BY <1>3, <1>4, <1>6, <1>7

LEMMA ReportIsSeq == ASSUME NEW m PROVE IsSeq(Report(m))
<1> DEFINE a == Number(m.total_r \div m.ibs)
           b == Number(m.total_r % m.ibs)
           d == Number(m.total_w \div m.obs)
           e == Number(m.total_w % m.obs)
           f == Number(Less(m.total_r, m.total_w))
           r == <<a, b, Newline, d, e, Newline, f, Newline>>
           n == Newline
<1>1. Report(m) = <<a, b, n, d, e, n, f, n>>
  BY DEF Report
<1> HIDE DEF a, b, d, e, f, n
<1>2. <<a, b, n, d, e, n, f, n>> \in Seq({a, b, d, e, f, n})
  OBVIOUS
<1> QED  BY <1>1, <1>2, SeqOfAny

LEMMA ObufOK ==
  ASSUME NEW c, NEW s, NEW obuf, LocalOK(c, s), IsSeq(obuf), NEW t, t = [s EXCEPT !.obuf = obuf]
  PROVE  LocalOK(c, t) /\ t.in = s.in /\ t.ret = s.ret
<1>1. /\ DOMAIN t = DOMAIN s /\ t.at = s.at /\ t.args = s.args /\ t.buf = s.buf /\ t.obuf = obuf /\ t.mem = s.mem
      /\ t.fds = s.fds /\ t.todo = s.todo /\ t.moved = s.moved /\ t.next = s.next /\ t.in = s.in /\ t.ret = s.ret
  BY DEF LocalOK, Shape
<1>2. LocalOK(c, t)
  BY <1>1 DEF LocalOK, Shape, Handles, Place, Remains
<1> QED  BY <1>1, <1>2

LEMMA PrintReportSteps == ASSUME Typed, NEW p \in Proc, PrintReport(p) PROVE Steps(p)
<1> DEFINE c == Cmd(p)
           s == proc[p]
           D == DOMAIN file
           obuf == Report(s.mem)
           u == [s EXCEPT !.obuf = obuf]
           t == Ends(u, s.ret)
<1>1. /\ LocalOK(c, s) /\ p \notin ended /\ s.at = "report" /\ Place(s) = "report" /\ Where(c, s, D) /\ s.ret \in {0, 1}
  BY RetIs DEF Typed, PrintReport, At, Place
<1>2. Silent(p, Dies(s)) \/ Silent(p, t)
  BY DEF PrintReport
<1>3. CASE Silent(p, Dies(s))
  BY <1>1, <1>3, DiesSteps
<1>4. CASE Silent(p, t)
  <2>1. IsSeq(obuf)
    BY ReportIsSeq
  <2> HIDE DEF obuf
  <2>2. u = [s EXCEPT !.obuf = obuf]
    OBVIOUS
  <2> HIDE DEF u
  <2>3. LocalOK(c, u) /\ u.in = s.in /\ u.ret = s.ret
    BY <1>1, <2>1, <2>2, ObufOK
  <2>4. LocalOK(c, t) /\ Place(t) = "exit" /\ t.in = s.in /\ t.ret = s.ret
    BY <2>3, EndsOK, EndsRest DEF LocalOK, GoesFrom
  <2> HIDE DEF t, s
  <2>5. Where(c, t, D)
    BY <1>1, <2>4, WhereStays
  <2> QED  BY <1>1, <1>4, <2>4, <2>5, SilentSteps
<1> QED  BY <1>2, <1>3, <1>4

LEMMA ReturnedSteps ==
  ASSUME Typed, NEW p \in Proc, p \notin ended, NEW s, LocalOK(Cmd(p), s), Where(Cmd(p), s, DOMAIN file), s.at = "write",
         s.ret \in {0, 1}, NEW w \in Int
  PROVE  LocalOK(Cmd(p), Returned(p, s, w)) /\ Where(Cmd(p), Returned(p, s, w), DOMAIN file)
<1> DEFINE c == Cmd(p)
           D == DOMAIN file
           t == Returned(p, s, w)
<1>1. LocalOK(c, t) /\ Place(t) \in {s.next, "report", "exit"}
  BY ReturnedOK
<1>2. /\ t.in = s.in /\ t.args = s.args /\ t.ret \in {s.ret, 1} /\ (t.ret # s.ret => w = -1 /\ c.name \in {"dd", "tee"})
      /\ Place(t) = "report" /\ s.next # "report" => c.name = "dd" /\ s.next = "pour"
      /\ Place(t) = "exit" /\ s.next # "exit" => c.name = "tee"
  BY ReturnedRest
<1>3. Place(s) = s.next
  BY DEF Place
<1> HIDE DEF t, c
<1>4. Where(c, s, D)
  BY DEF c
<1>5. c.name = "dd" \/ Place(t) \notin {"seek", "pour", "report"}
  BY <1>1, <1>2, <1>3, <1>4 DEF Where
<1>6. Where(c, t, D)
  BY <1>1, <1>2, <1>3, <1>4, <1>5, WhereStays
<1> QED  BY <1>1, <1>6 DEF t, c

\* What write() can do: k bytes of the rest of the first call, a refusal, or SIGPIPE.
LEMMA WriteMoves ==
  ASSUME Typed, NEW p \in Proc, Write(p)
  PROVE  LET s == proc[p]
             call == s.todo[1]
             fd == Fd(s, call.fd)
             rest == SubSeq(call.bytes, s.moved + 1, Len(call.bytes))
         IN  /\ IsSeq(rest) /\ Len(rest) \in Nat /\ CallOK(Len(s.fds), call) /\ Head(s.todo) = call
             /\ fd.off \in Nat /\ fd.name \in Outs(Cmd(p)) \cup {"failed", "stdout"}
             /\ \/ \E k \in 1..Len(rest) :
                       /\ Put(p, fd, SubSeq(rest, 1, k))
                       /\ \/ (k = Len(rest) \/ May("short")) /\ Becomes(p, Returned(p, Advanced(s, k), s.moved + k))
                          \/ k < Len(rest) /\ Becomes(p, Advanced(s, k))
                \/ May("write") /\ s.moved = 0 /\ Silent(p, Returned(p, s, -1))
                \/ Silent(p, Dies(s))
<1> DEFINE c == Cmd(p)
           s == proc[p]
           call == s.todo[1]
           fd == Fd(s, call.fd)
           rest == SubSeq(call.bytes, s.moved + 1, Len(call.bytes))
           room == Room(p, fd, rest)
<1>1. LocalOK(c, s) /\ s.at = "write" /\ StreamsOK /\ Shape(s) /\ Handles(c, s)
  BY DEF Typed, Write, At, LocalOK
<1>2. /\ s.moved \in Nat /\ call.fd \in 0..Len(s.fds) /\ Len(s.fds) \in Nat /\ IsSeq(call.bytes)
      /\ Len(call.bytes) \in Nat /\ Head(s.todo) = call /\ CallOK(Len(s.fds), call)
  <2>1. s.todo # <<>> /\ IsSeq(s.todo) /\ Len(s.fds) \in Nat
    BY <1>1, SeqFacts DEF Shape, Handles
  <2>2. Len(s.todo) >= 1 /\ Head(s.todo) = s.todo[1] /\ Len(s.todo) \in Nat
    BY <2>1, TailFacts, SeqFacts
  <2>3. CallOK(Len(s.fds), call)
    BY <1>1, <2>2 DEF Handles
  <2> HIDE DEF call
  <2> QED  BY <1>1, <2>1, <2>2, <2>3, SeqFacts DEF CallOK, Shape, call
<1>3. fd.off \in Nat /\ fd.name \in Outs(c) \cup {"failed", "stdout"}
  BY <1>1, <1>2 DEF Fd, Stdout, Handles, FdOK
<1>4. IsSeq(rest) /\ Len(rest) \in Nat
  <2>1. IsSeq(rest)
    BY <1>2, PartFacts
  <2> HIDE DEF rest
  <2> QED  BY <2>1, SeqFacts
<1>5. room \in Int /\ room <= Len(rest)
  <2>1. p = N \/ (p + 1 \in Proc /\ p + 1 \in 1..N /\ p + 1 \in 1..(N + 1))
    BY <1>1, ProcIs
  <2>2. p # N => Len(pipe[p + 1]) \in Nat /\ heard[p + 1] \in Int
    BY <1>1, <2>1, SeqFacts DEF StreamsOK
  <2> HIDE DEF rest, fd
  <2> QED  BY <1>4, <2>2, StreamAssumption DEF Room, Less
<1>6. \/ \E k \in {room} \cup 1..room :
           /\ k > 0 /\ Put(p, fd, SubSeq(rest, 1, k))
           /\ \/ (k = Len(rest) \/ May("short")) /\ Becomes(p, Returned(p, Advanced(s, k), s.moved + k))
              \/ k < Len(rest) /\ Becomes(p, Advanced(s, k))
      \/ May("write") /\ s.moved = 0 /\ Silent(p, Returned(p, s, -1))
      \/ Silent(p, Dies(s))
  BY <1>2 DEF Write
<1> HIDE DEF room, rest, fd, call
<1>7. \A k \in {room} \cup 1..room : k > 0 => k \in 1..Len(rest)
  BY <1>4, <1>5
<1>8. \/ \E k \in 1..Len(rest) :
           /\ Put(p, fd, SubSeq(rest, 1, k))
           /\ \/ (k = Len(rest) \/ May("short")) /\ Becomes(p, Returned(p, Advanced(s, k), s.moved + k))
              \/ k < Len(rest) /\ Becomes(p, Advanced(s, k))
      \/ May("write") /\ s.moved = 0 /\ Silent(p, Returned(p, s, -1))
      \/ Silent(p, Dies(s))
  BY <1>6, <1>7
<1> QED  BY <1>2, <1>3, <1>4, <1>8 DEF rest, fd, call

LEMMA WriteSteps == ASSUME Typed, NEW p \in Proc, Write(p) PROVE Steps(p)
<1> DEFINE c == Cmd(p)
           s == proc[p]
           D == DOMAIN file
           call == s.todo[1]
           fd == Fd(s, call.fd)
           rest == SubSeq(call.bytes, s.moved + 1, Len(call.bytes))
<1>1. /\ LocalOK(c, s) /\ Where(c, s, D) /\ p \notin ended /\ s.at = "write" /\ s.ret \in {0, 1} /\ s.moved \in Nat
  BY RetIs DEF Typed, Write, At, LocalOK, Shape
<1>2. /\ IsSeq(rest) /\ Len(rest) \in Nat /\ CallOK(Len(s.fds), call) /\ Head(s.todo) = call
      /\ fd.off \in Nat /\ fd.name \in Outs(c) \cup {"failed", "stdout"}
      /\ \/ \E k \in 1..Len(rest) :
                /\ Put(p, fd, SubSeq(rest, 1, k))
                /\ \/ (k = Len(rest) \/ May("short")) /\ Becomes(p, Returned(p, Advanced(s, k), s.moved + k))
                   \/ k < Len(rest) /\ Becomes(p, Advanced(s, k))
         \/ May("write") /\ s.moved = 0 /\ Silent(p, Returned(p, s, -1))
         \/ Silent(p, Dies(s))
  BY WriteMoves
<1> HIDE DEF rest, fd, call
<1>7. CASE Silent(p, Dies(s))
  BY <1>1, <1>7, DiesSteps
<1>8. CASE Silent(p, Returned(p, s, -1))
  <2> DEFINE t == Returned(p, s, -1)
  <2>1. LocalOK(c, t) /\ Where(c, t, D)
    BY <1>1, ReturnedSteps
  <2> HIDE DEF t
  <2> QED  BY <1>1, <1>8, <2>1, SilentSteps DEF t
<1>9. ASSUME NEW k \in 1..Len(rest), Put(p, fd, SubSeq(rest, 1, k)),
             Becomes(p, Returned(p, Advanced(s, k), s.moved + k)) \/ Becomes(p, Advanced(s, k))
      PROVE  Steps(p)
  <2>2. k \in Nat /\ k \in Int /\ s.moved + k \in Int
    BY <1>1, <1>2
  <2> DEFINE bytes == SubSeq(rest, 1, k)
             u == Advanced(s, k)
             t == Returned(p, u, s.moved + k)
  <2>3. IsSeq(bytes)
    BY <2>2, PartIsSeq
  <2> HIDE DEF bytes
  <2>4. Moves(p) /\ ended' = ended
    BY <1>2, <1>9, <2>3 DEF Moves, Put, bytes
  <2>5. LocalOK(c, u) /\ Place(u) = Place(s) /\ u.at = "write" /\ u.in = s.in /\ u.ret = s.ret
    <3>1. LocalOK(c, u) /\ Place(u) = Place(s)
      BY <1>1, <2>2, AdvancedOK
    <3>2. u.at = s.at /\ u.in = s.in /\ u.ret = s.ret
      BY <1>1 DEF Advanced, Shape
    <3> QED  BY <1>1, <3>1, <3>2
  <2> HIDE DEF u
  <2>6. Where(c, u, D)
    BY <1>1, <2>5 DEF Where
  <2>7. LocalOK(c, t) /\ Where(c, t, D)
    BY <1>1, <2>2, <2>5, <2>6, ReturnedSteps
  <2>8. Becomes(p, t) \/ Becomes(p, u)
    BY <1>9 DEF u
  <2> HIDE DEF t
  <2> QED  BY <1>1, <2>4, <2>5, <2>6, <2>7, <2>8, MoveSteps
<1> QED  BY <1>2, <1>7, <1>8, <1>9

LEMMA ExitSteps == ASSUME Typed, NEW p \in Proc, Exit(p) PROVE Steps(p)
<1> DEFINE c == Cmd(p)
           s == proc[p]
           D == DOMAIN file
           t == Flush(s, "exit")
<1>1. /\ LocalOK(c, s) /\ p \notin ended /\ s.at = "exit" /\ Place(s) = "exit" /\ Where(c, s, D) /\ Shape(s)
      /\ DOMAIN proc = Proc
  BY DEF Typed, Exit, At, Place, LocalOK
<1>2. CASE s.obuf # <<>>
  <2>1. Silent(p, t) /\ s.ret \in {0, 1}
    BY <1>1, <1>2 DEF Exit, Where
  <2>2. LocalOK(c, t) /\ Place(t) = "exit"
    BY <1>1, FlushOK
  <2>3. t.in = s.in /\ t.ret = s.ret
    BY <1>1, FlushFacts
  <2> HIDE DEF t, s
  <2>4. Where(c, t, D)
    BY <1>1, <2>1, <2>2, <2>3, WhereStays
  <2> QED  BY <1>1, <2>1, <2>2, <2>4, SilentSteps
<1>3. CASE s.obuf = <<>>
  <2>1. Quits(p) /\ UNCHANGED <<setting, proc, meant>>
    BY <1>3 DEF Exit
  <2>2. Moves(p)
    BY <2>1 DEF Moves
  <2>3. \A q \in Proc : proc'[q] = IF q = p THEN s ELSE proc[q]
    BY <2>1
  <2> QED  BY <1>1, <1>3, <2>1, <2>2, <2>3 DEF Steps
<1> QED  BY <1>2, <1>3

-------------------------------------------------------------------------------
(***************************************************************************)
(* Typed is an invariant.                                                  *)
(***************************************************************************)
LEMMA StepSteps == ASSUME Typed, NEW p \in Proc, Step(p) PROVE Steps(p)
BY BeginSteps, OpenInputSteps, OpenOutputSteps, OpenDdSteps, SeekDdSteps, FinishSteps, ReadSteps, ReadEndsSteps,
   YesSteps, PourSteps, NextChunkSteps, RoundSteps, PrintReportSteps, WriteSteps, ExitSteps DEF Step

LEMMA StepsTyped == ASSUME Typed, NEW p \in Proc, Steps(p) PROVE Typed' /\ Elsewhere(p)
<1>1. PICK s : /\ DOMAIN proc' = Proc /\ \A q \in Proc : proc'[q] = IF q = p THEN s ELSE proc[q]
               /\ UNCHANGED <<setting, meant>>
               /\ LocalOK(Cmd(p), s) /\ Where(Cmd(p), s, DOMAIN file)
               /\ Moves(p) /\ (p \in ended' => s.at = "exit" /\ s.obuf = <<>>)
  BY DEF Steps
<1>2. StreamsOK' /\ FilesOK' /\ Elsewhere(p)
  BY <1>1, MovesOK DEF Typed
<1>3. Proc' = Proc /\ N' = N
  BY <1>2 DEF Elsewhere, Proc, N
<1>4. setting' \in Settings /\ Len(setting'.cmds) = N /\ DOMAIN proc' = Proc
  BY <1>1 DEF Typed
<1>5. \A q \in Proc : Cmd(q)' = Cmd(q)
  BY <1>1 DEF Cmd
<1>6. ASSUME NEW q \in Proc PROVE LocalOK(Cmd(q), proc'[q]) /\ Where(Cmd(q), proc'[q], DOMAIN file')
  <2>1. DOMAIN file \subseteq DOMAIN file'
    BY <1>2 DEF Elsewhere
  <2>2. LocalOK(Cmd(q), proc'[q]) /\ Where(Cmd(q), proc'[q], DOMAIN file)
    BY <1>1 DEF Typed
  <2> QED  BY <2>1, <2>2 DEF Where
<1>7. ASSUME NEW q \in ended' PROVE proc'[q].at = "exit" /\ proc'[q].obuf = <<>>
  <2>1. q \in ended \cup {p}
    BY <1>2 DEF Elsewhere
  <2>2. q \in Proc
    BY <2>1 DEF Typed, StreamsOK
  <2> QED  BY <1>1, <1>7, <2>1, <2>2 DEF Typed
<1> QED  BY <1>2, <1>3, <1>4, <1>5, <1>6, <1>7 DEF Typed

LEMMA InterruptTyped == ASSUME Typed, Interrupt PROVE Typed'
<1>1. UNCHANGED <<streams, setting, meant>>
      /\ proc' = [p \in Proc |-> IF p \in ended \/ Ignores(p) THEN proc[p] ELSE Dies(proc[p])]
  BY DEF Interrupt
<1>2. Proc' = Proc /\ N' = N /\ StreamsOK' /\ FilesOK'
  BY <1>1 DEF streams, Proc, N, StreamsOK, FilesOK, Cmd, Typed
<1>3. \A q \in Proc : Cmd(q)' = Cmd(q)
  BY <1>1 DEF Cmd
<1>4. ASSUME NEW q \in Proc PROVE LocalOK(Cmd(q), proc'[q]) /\ Where(Cmd(q), proc'[q], DOMAIN file')
  <2> DEFINE c == Cmd(q)
             s == proc[q]
             t == Dies(s)
             D == DOMAIN file
  <2>1. LocalOK(c, s) /\ Where(c, s, D) /\ D' = D
    BY <1>1 DEF Typed, streams
  <2>2. LocalOK(c, t) /\ Place(t) = "exit"
    BY <2>1, DiesOK
  <2>3. GoesFrom(s, t) /\ t.ret = Killed /\ t.obuf = <<>> /\ t.at = "exit"
    BY <2>1, DiesRest DEF LocalOK
  <2>4. proc'[q] = s \/ proc'[q] = t
    BY <1>1
  <2> HIDE DEF t
  <2>5. Where(c, t, D)
    BY <2>1, <2>2, <2>3 DEF Where, GoesFrom
  <2> QED  BY <2>1, <2>2, <2>4, <2>5
<1>5. ASSUME NEW q \in ended PROVE proc'[q].at = "exit" /\ proc'[q].obuf = <<>>
  <2>1. q \in Proc
    BY DEF Typed, StreamsOK
  <2> QED  BY <1>1, <2>1 DEF Typed
<1>6. setting' \in Settings /\ Len(setting'.cmds) = N /\ DOMAIN proc' = Proc /\ ended' = ended
  BY <1>1 DEF Typed, streams
<1> QED  BY <1>2, <1>3, <1>4, <1>5, <1>6 DEF Typed

LEMMA TypedInit == Init => Typed
<1> SUFFICES ASSUME Init PROVE Typed
  OBVIOUS
<1> DEFINE n == Len(setting.cmds)
<1>1. /\ setting \in Settings /\ Setting(setting) /\ IsSeq(setting.cmds) /\ n \in Nat /\ DOMAIN setting.cmds = 1..n
      /\ n >= 1
  BY PipelineAssumption, SeqFacts DEF Init, Setting
<1>2. IsSeq(heard) /\ N = n /\ Proc = 1..n
  <2>1. DOMAIN heard = 1..n /\ heard = [i \in 1..n |-> heard[i]]
    BY <1>1 DEF Init
  <2> QED  BY <1>1, <2>1, FunIsSeq DEF N, Proc
<1>3. /\ \A q \in 1..n : heard[q] = 0 /\ pos[q] = 0 /\ proc[q] = Idle
      /\ \A q \in 1..(n + 1) : pipe[q] = IF q = 1 THEN setting.input ELSE <<>>
      /\ DOMAIN pipe = 1..(n + 1) /\ DOMAIN pos = 1..n /\ DOMAIN proc = 1..n /\ ended = {} /\ file = setting.files
  BY <1>1 DEF Init
<1> HIDE DEF n
<1>4. StreamsOK
  <2>1. IsSeq(setting.input) /\ \A f \in DOMAIN setting.files : IsSeq(setting.files[f])
    BY <1>1, SeqOfAny DEF Setting
  <2>2. \A q \in 1..(n + 1) : IsSeq(pipe[q])
    BY <1>3, <2>1, EmptyIsSeq
  <2>3. \A q \in 1..n : q \in 1..(n + 1)
    BY <1>1
  <2>4. \A q \in 1..n : Len(pipe[q]) \in Nat
    BY <2>2, <2>3, SeqFacts
  <2> QED  BY <1>2, <1>3, <2>1, <2>2, <2>4 DEF StreamsOK
<1>5. FilesOK
  BY <1>3 DEF FilesOK
<1>6. ASSUME NEW q \in Proc PROVE LocalOK(Cmd(q), proc[q]) /\ Where(Cmd(q), proc[q], DOMAIN file)
  <2>1. proc[q] = Idle
    BY <1>2, <1>3
  <2>2. IsSeq(<<>>) /\ Len(<<>>) = 0
    BY EmptyIsSeq
  <2>3. Place(Idle) = "start" /\ Shape(Idle)
    BY <2>2 DEF Idle, Place, Shape
  <2>4. Handles(Cmd(q), Idle) /\ Remains(Cmd(q), Idle)
    BY <2>2, <2>3 DEF Handles, Remains, Idle
  <2>5. Where(Cmd(q), Idle, DOMAIN file)
    BY <2>3 DEF Where, Idle
  <2> QED  BY <2>1, <2>3, <2>4, <2>5 DEF LocalOK
<1> QED  BY <1>1, <1>2, <1>3, <1>4, <1>5, <1>6 DEF Typed, n

LEMMA TypedNext == ASSUME Typed, [Next]_vars PROVE Typed'
<1>1. CASE UNCHANGED vars
  BY <1>1 DEF vars, streams, Typed, StreamsOK, FilesOK, N, Proc, Cmd
<1>2. CASE \E p \in Proc : Step(p)
  BY <1>2, StepSteps, StepsTyped
<1>3. CASE Interrupt
  BY <1>3, InterruptTyped
<1> QED  BY <1>1, <1>2, <1>3 DEF Next, Done

\* Type correctness for every pipeline, every input and every interleaving: what a
\* program knows is what the code at its place relies on (names that are left are
\* operands, descriptors written to are open, there is a call to make where a write is
\* under way, dd has the numbers its operands gave), no read passes the end of a pipe,
\* and a program that has ended holds nothing back in stdout's buffer.
THEOREM WellTyped == Spec => []Typed
BY TypedInit, TypedNext, PTL DEF Spec

-------------------------------------------------------------------------------
(***************************************************************************)
(* StatusTells.                                                            *)
(***************************************************************************)
Reader == {"cat", "head", "wc", "hex"}

\* What a step of a program that reads its operands does with them and with its status,
\* when nothing is refused.
ReadsOn(c, s, t, D) ==
  \/ t.ret = Killed
  \/ Place(t) = "open" /\ t.args = OrDash(c.args) /\ t.ret = s.ret
  \/ /\ s.at = "open" /\ s.args # <<>> /\ t.args = Tail(s.args) /\ Place(t) \in {"open", "read"}
     /\ t.ret = IF Head(s.args) \in D \cup {"-"} THEN s.ret ELSE 1
  \/ s.at # "start" /\ t.args = s.args /\ t.ret = s.ret /\ (Place(t) = "exit" => Place(s) = "exit" \/ s.args = <<>>)

LEMMA ReaderBegins ==
  ASSUME Typed, NEW p \in Proc, Begin(p), Cmd(p).name \in Reader
  PROVE  ReadsOn(Cmd(p), proc[p], proc'[p], DOMAIN file)
<1> DEFINE c == Cmd(p)
           s == proc[p]
<1>1. Shape(s) /\ s.at = "start"
  BY DEF Typed, LocalOK, Begin, At
<1>2. PICK m : Silent(p, [s EXCEPT !.at = "open", !.args = OrDash(c.args), !.mem = m])
  BY DEF Begin, Reader
<1> DEFINE t == [s EXCEPT !.at = "open", !.args = OrDash(c.args), !.mem = m]
<1>3. t.at = "open" /\ t.args = OrDash(c.args) /\ t.ret = s.ret
  BY <1>1 DEF Shape
<1>4. proc'[p] = t
  BY <1>2 DEF Silent, Becomes, Typed
<1> HIDE DEF t, s
<1> QED  BY <1>1, <1>3, <1>4 DEF ReadsOn, Place, s

LEMMA ReaderOpens ==
  ASSUME Typed, NEW p \in Proc, OpenInput(p), setting.refused = {}
  PROVE  ReadsOn(Cmd(p), proc[p], proc'[p], DOMAIN file)
<1> DEFINE c == Cmd(p)
           o == proc[p]
           D == DOMAIN file
           name == Head(o.args)
           s == [o EXCEPT !.args = Tail(@)]
           in == IF name = "-" THEN "stdin" ELSE name
           next == IF c.name = "head" /\ "lines" \in HeadFlags(c) /\ HeadLimit(c) = 0 THEN "open" ELSE "read"
           u == [s EXCEPT !.in = in]
           m == Fresh(p, s.mem)
           t == Printed(u, m, next)
           r == [s EXCEPT !.ret = 1]
<1>1. /\ LocalOK(c, o) /\ CommandOK(c) /\ o.at = "open" /\ o.args # <<>>
      /\ Place(o) = "open" /\ c.name \in {"cat", "head", "wc", "hex"}
  BY SettingFacts DEF Typed, OpenInput, At, Place
<1>2. \/ (in = "stdin" \/ in \in D) /\ proc'[p] = t
      \/ in # "stdin" /\ in \notin D /\ proc'[p] = r
  BY DEF OpenInput, May, Silent, Becomes, Typed
<1> HIDE DEF t, r
<1>3. /\ LocalOK(c, s) /\ Place(s) = "open" /\ s.ret = o.ret /\ s.args = Tail(o.args)
      /\ name \in ToSet(OrDash(c.args)) /\ s.at = "open"
  <2> HIDE DEF c, o
  <2>1. s = [o EXCEPT !.args = Tail(@)]
    OBVIOUS
  <2> HIDE DEF s
  <2>2. /\ LocalOK(c, s) /\ Place(s) = Place(o) /\ s.args = Tail(o.args)
        /\ s.in = o.in /\ s.ret = o.ret /\ s.fds = o.fds /\ s.mem = o.mem /\ s.at = o.at
    BY <1>1, <2>1, TailArgs
  <2>3. c.name \in {"cat", "tee", "head", "wc", "hex"} => Head(o.args) \in ToSet(OrDash(c.args))
    BY <1>1, <2>1, TailArgs
  <2> QED  BY <1>1, <2>2, <2>3
<1>4. name # "stdin"
  <2>1. ToSet(<<"-">>) = {"-"}
    BY DEF ToSet
  <2>2. name = "-" \/ name \in FileName
    BY <1>1, <1>3, <2>1 DEF OrDash, CommandOK
  <2> QED  BY <2>2, StreamAssumption
<1>5. CASE (in = "stdin" \/ in \in D) /\ proc'[p] = t
  <2>1. LocalOK(c, u) /\ u.ret = s.ret /\ u.args = s.args
    <3>1. u = [s EXCEPT !.in = in]
      OBVIOUS
    <3> HIDE DEF in, u, s
    <3>2. /\ LocalOK(c, u) /\ Place(u) = Place(s) /\ u.in = in /\ u.at = s.at
          /\ u.args = s.args /\ u.ret = s.ret /\ u.fds = s.fds /\ u.mem = s.mem
      BY <1>3, <3>1, InOK
    <3> QED  BY <3>2
  <2>2. Knows(c, m, next)
    <3>1. Knows(c, s.mem, "open")
      BY <1>3 DEF LocalOK
    <3> QED  BY <1>1, <3>1, FreshOK
  <2>3. "out" \in DOMAIN m /\ IsSeq(m.out) /\ Shape(u)
    BY <2>1, <2>2 DEF Knows, LocalOK
  <2>4. next \in {"open", "read"} /\ next # "write" /\ name \in D \cup {"-"}
    BY <1>4, <1>5
  <2> HIDE DEF next, m, u
  <2>5. GoesFrom(u, t) /\ t.ret = u.ret /\ Place(t) = next
    BY <2>3, <2>4, PrintedRest DEF t
  <2> HIDE DEF s, name, o, D
  <2> QED  BY <1>1, <1>3, <1>5, <2>1, <2>4, <2>5 DEF ReadsOn, GoesFrom, D, name, o
<1>6. CASE in # "stdin" /\ in \notin D /\ proc'[p] = r
  <2>1. Place(r) = "open" /\ r.ret = 1 /\ r.args = s.args
    BY <1>3 DEF Place, LocalOK, Shape, r
  <2>2. name \notin D \cup {"-"}
    BY <1>6
  <2> HIDE DEF s, name, o, D
  <2> QED  BY <1>1, <1>3, <1>6, <2>1, <2>2 DEF ReadsOn, D, name, o
<1> QED  BY <1>2, <1>5, <1>6

LEMMA ReaderFinishes ==
  ASSUME Typed, NEW p \in Proc, Finish(p)
  PROVE  ReadsOn(Cmd(p), proc[p], proc'[p], DOMAIN file)
<1> DEFINE s == proc[p]
<1>1. Shape(s) /\ s.at = "open" /\ s.args = <<>>
  BY DEF Typed, LocalOK, Finish, At
<1>2. \/ \E obuf : proc'[p] = Ends([s EXCEPT !.obuf = obuf], s.ret)
      \/ proc'[p] = Ends(s, s.ret)
      \/ proc'[p] = Dies(s)
  <2>1. \/ \E obuf : Silent(p, Ends([s EXCEPT !.obuf = obuf], s.ret))
        \/ Silent(p, Ends(s, s.ret))
        \/ Silent(p, Dies(s))
    BY DEF Finish
  <2> QED  BY <2>1 DEF Silent, Becomes, Typed
<1>3. \A obuf : LET t == Ends([s EXCEPT !.obuf = obuf], s.ret) IN t.ret = s.ret /\ t.args = s.args
  BY <1>1 DEF Shape, Ends
<1>4. Ends(s, s.ret).ret = s.ret /\ Ends(s, s.ret).args = s.args /\ Dies(s).ret = Killed
  BY <1>1 DEF Shape, Ends, Dies
<1>5. proc'[p].ret = Killed \/ (proc'[p].ret = s.ret /\ proc'[p].args = s.args)
  BY <1>2, <1>3, <1>4
<1> HIDE DEF s
<1> QED  BY <1>1, <1>5 DEF ReadsOn, Place, s

LEMMA ReaderReads ==
  ASSUME Typed, NEW p \in Proc, Read(p), Cmd(p).name \in Reader
  PROVE  ReadsOn(Cmd(p), proc[p], proc'[p], DOMAIN file)
<1> DEFINE c == Cmd(p)
           s == proc[p]
           w == Waiting(p, s.in)
<1>1. LocalOK(c, s) /\ CommandOK(c) /\ s.at = "read" /\ Place(s) = "read" /\ c.name # "yes" /\ c.name # "tr"
  BY SettingFacts DEF Typed, Read, At, Place, Reader
<1>2. PICK k \in Int : proc'[p] = Got(p, s, SubSeq(w, 1, k))
  <2>1. PICK k \in 1..Less(Limit(p, s), Len(w)) : Becomes(p, Got(p, s, SubSeq(w, 1, k)))
    BY DEF Read
  <2> QED  BY <2>1 DEF Becomes, Typed
<1> DEFINE bytes == SubSeq(w, 1, k)
           t == Got(p, s, bytes)
<1>3. IsSeq(bytes)
  BY <1>2, PartIsSeq
<1> HIDE DEF bytes
<1>4. /\ GoesFrom(s, t) /\ (t.ret = s.ret \/ (c.name = "tr" /\ t.ret = 1))
      /\ c.name = "dd" => Place(t) = "read"
      /\ Place(t) = "exit" => c.name = "tr"
  BY <1>1, <1>3, GotRest
<1>5. proc'[p] = t
  BY <1>2 DEF bytes
<1> HIDE DEF t, s
<1> QED  BY <1>1, <1>4, <1>5 DEF ReadsOn, GoesFrom, s

LEMMA ReaderReadsAll ==
  ASSUME Typed, NEW p \in Proc, ReadEnds(p), Cmd(p).name \in Reader, setting.refused = {}
  PROVE  ReadsOn(Cmd(p), proc[p], proc'[p], DOMAIN file)
<1> DEFINE c == Cmd(p)
           s == proc[p]
<1>1. /\ LocalOK(c, s) /\ CommandOK(c) /\ s.at = "read" /\ Place(s) = "read" /\ c.name # "tr"
      /\ c.name \in {"cat", "tee", "tr", "wc", "head", "hex"} /\ c.name \in {"cat", "tr", "wc", "head", "hex"}
      /\ Shape(s) /\ Knows(c, s.mem, "read") /\ IsSeq(s.buf)
  BY SettingFacts DEF Typed, ReadEnds, At, Place, Reader, LocalOK, Shape
<1>2. proc'[p] = Consumed(p, s, s.buf) \/ proc'[p] = Left(p, s, s.mem, FALSE)
  <2>1. Silent(p, Consumed(p, s, s.buf)) \/ Silent(p, Left(p, s, s.mem, FALSE))
    <3>1. \E error \in {FALSE} :
            CASE Freads(p) /\ s.buf # <<>> -> Silent(p, Consumed(p, s, s.buf))
              [] ~(Freads(p) /\ s.buf # <<>>) -> Silent(p, Left(p, s, s.mem, error /\ c.name = "cat"))
      BY DEF ReadEnds, May, Reader
    <3>2. (FALSE /\ c.name = "cat") = FALSE
      OBVIOUS
    <3> QED  BY <3>1, <3>2
  <2> QED  BY <2>1 DEF Silent, Becomes, Typed
<1>3. LET t == Consumed(p, s, s.buf) IN
      GoesFrom(s, t) /\ (t.ret = s.ret \/ (c.name = "tr" /\ t.ret = 1)) /\ (Place(t) = "exit" => c.name = "tr")
  BY <1>1, ConsumedRest
<1>4. Leaves(c, s.mem)
  BY <1>1 DEF Leaves, Knows
<1>5. LET t == Left(p, s, s.mem, FALSE) IN
      GoesFrom(s, t) /\ t.ret = (IF FALSE THEN 1 ELSE s.ret) /\ (Place(t) = "exit" => c.name = "tr")
  BY <1>1, <1>4, LeftRest
<1>6. GoesFrom(s, proc'[p]) /\ proc'[p].ret = s.ret /\ Place(proc'[p]) # "exit"
  BY <1>1, <1>2, <1>3, <1>5
<1> HIDE DEF s
<1> QED  BY <1>1, <1>6 DEF ReadsOn, GoesFrom, s

LEMMA ReaderWrites ==
  ASSUME Typed, NEW p \in Proc, Write(p), Cmd(p).name \in Reader, setting.refused = {}
  PROVE  ReadsOn(Cmd(p), proc[p], proc'[p], DOMAIN file)
<1> DEFINE c == Cmd(p)
           s == proc[p]
           call == s.todo[1]
           fd == Fd(s, call.fd)
           rest == SubSeq(call.bytes, s.moved + 1, Len(call.bytes))
<1>1. /\ LocalOK(c, s) /\ s.at = "write" /\ Shape(s) /\ c.name \notin {"dd", "tee"} /\ s.moved \in Nat
      /\ Place(s) = s.next
  BY DEF Typed, Write, At, Reader, LocalOK, Shape, Place
<1>2. /\ IsSeq(rest) /\ Len(rest) \in Nat /\ CallOK(Len(s.fds), call) /\ Head(s.todo) = call
      /\ fd.off \in Nat /\ fd.name \in Outs(c) \cup {"failed", "stdout"}
      /\ \/ \E k \in 1..Len(rest) :
                /\ Put(p, fd, SubSeq(rest, 1, k))
                /\ \/ (k = Len(rest) \/ May("short")) /\ Becomes(p, Returned(p, Advanced(s, k), s.moved + k))
                   \/ k < Len(rest) /\ Becomes(p, Advanced(s, k))
         \/ May("write") /\ s.moved = 0 /\ Silent(p, Returned(p, s, -1))
         \/ Silent(p, Dies(s))
  BY WriteMoves
<1>3. ~May("write") /\ DOMAIN proc = Proc
  BY DEF May, Typed
<1>4. CASE Silent(p, Dies(s))
  <2>1. proc'[p].ret = Killed
    BY <1>1, <1>3, <1>4 DEF Silent, Becomes, Dies, Shape
  <2> QED  BY <2>1 DEF ReadsOn
<1>5. ASSUME NEW k \in 1..Len(rest),
             Becomes(p, Returned(p, Advanced(s, k), s.moved + k)) \/ Becomes(p, Advanced(s, k))
      PROVE  ReadsOn(c, s, proc'[p], DOMAIN file)
  <2> DEFINE u == Advanced(s, k)
             t == Returned(p, u, s.moved + k)
  <2>1. k \in Nat /\ s.moved + k \in Int /\ s.moved + k # -1
    BY <1>1, <1>2
  <2>2. proc'[p] = t \/ proc'[p] = u
    BY <1>3, <1>5 DEF Becomes
  <2>3. LocalOK(c, u)
    BY <1>1, <2>1, AdvancedOK
  <2>4. u.at = s.at /\ u.next = s.next /\ u.in = s.in /\ u.args = s.args /\ u.ret = s.ret /\ Place(u) = s.next
    BY <1>1 DEF Advanced, Shape, Place
  <2> HIDE DEF u
  <2>5. /\ t.in = u.in /\ t.args = u.args /\ t.ret \in {u.ret, 1}
        /\ t.ret # u.ret => s.moved + k = -1 /\ c.name \in {"dd", "tee"}
        /\ Place(t) = "report" /\ u.next # "report" => c.name = "dd" /\ u.next = "pour"
        /\ Place(t) = "exit" /\ u.next # "exit" => c.name = "tee"
    BY <1>1, <2>1, <2>3, <2>4, ReturnedRest
  <2> HIDE DEF t, s, c
  <2> QED  BY <1>1, <2>1, <2>2, <2>4, <2>5 DEF ReadsOn
<1> QED  BY <1>2, <1>3, <1>4, <1>5

LEMMA ReaderExits ==
  ASSUME Typed, NEW p \in Proc, Exit(p)
  PROVE  ReadsOn(Cmd(p), proc[p], proc'[p], DOMAIN file)
<1> DEFINE s == proc[p]
           t == Flush(s, "exit")
<1>1. Shape(s) /\ s.at = "exit" /\ Place(s) = "exit"
  BY DEF Typed, LocalOK, Exit, At, Place
<1>2. proc'[p] = t \/ proc'[p] = s
  BY DEF Exit, Silent, Becomes, Typed
<1>3. t.args = s.args /\ t.ret = s.ret
  BY <1>1 DEF Flush, Shape
<1> HIDE DEF t, s
<1> QED  BY <1>1, <1>2, <1>3 DEF ReadsOn, s

LEMMA ReaderSteps ==
  ASSUME Typed, NEW p \in Proc, Step(p), Cmd(p).name \in Reader, setting.refused = {}
  PROVE  ReadsOn(Cmd(p), proc[p], proc'[p], DOMAIN file)
<1>1. Cmd(p).name \notin {"tee", "dd", "yes"} /\ proc[p].at \notin {"seek", "pour", "report"}
  BY DEF Typed, Where, Place, Reader
<1>2. ~OpenOutput(p) /\ ~OpenDd(p) /\ ~SeekDd(p) /\ ~Yes(p) /\ ~Pour(p) /\ ~NextChunk(p) /\ ~Round(p) /\ ~PrintReport(p)
  BY <1>1 DEF OpenOutput, OpenDd, SeekDd, Yes, Pour, NextChunk, Round, PrintReport, At
<1> QED
  BY <1>2, ReaderBegins, ReaderOpens, ReaderFinishes, ReaderReads, ReaderReadsAll, ReaderWrites, ReaderExits DEF Step

\* What a reader has done with its operands, in a system whose files are D, and were F.
Accounts(c, s, D, F) ==
  s.ret # Killed =>
    /\ s.ret = 1 => \E f \in Ins(c) : f \notin F
    /\ s.at # "start" => \A f \in Ins(c) : f \in ToSet(s.args) \/ f \in D \/ s.ret = 1
    /\ Place(s) = "exit" => s.args = <<>>

StatusInv ==
  /\ Typed
  /\ setting.refused = {} =>
       \A p \in Proc : Cmd(p).name \in Reader => Accounts(Cmd(p), proc[p], DOMAIN file, DOMAIN setting.files)

LEMMA AccountsStay ==
  ASSUME NEW c, NEW s, NEW t, NEW D, NEW F, c.name \in Reader, LocalOK(c, s), F \subseteq D, s.ret # Killed,
         Accounts(c, s, D, F), ReadsOn(c, s, t, D)
  PROVE  Accounts(c, t, D, F)
<1> SUFFICES ASSUME t.ret # Killed PROVE Accounts(c, t, D, F)
  BY DEF Accounts
<1>1. Ins(c) = ToSet(c.args) \ {"-"} /\ IsSeq(s.args)
  BY DEF Ins, Reader, LocalOK, Shape
<1>2. \A f \in Ins(c) : f \in ToSet(OrDash(c.args))
  <2>1. c.args = <<>> => ToSet(c.args) = {}
    BY DEF ToSet
  <2> QED  BY <1>1, <2>1 DEF OrDash
<1>3. CASE Place(t) = "open" /\ t.args = OrDash(c.args) /\ t.ret = s.ret
  BY <1>2, <1>3 DEF Accounts
<1>4. CASE /\ s.at = "open" /\ s.args # <<>> /\ t.args = Tail(s.args) /\ Place(t) \in {"open", "read"}
           /\ t.ret = IF Head(s.args) \in D \cup {"-"} THEN s.ret ELSE 1
  <2>1. Head(s.args) \in ToSet(OrDash(c.args)) /\ \A f \in ToSet(s.args) : f = Head(s.args) \/ f \in ToSet(Tail(s.args))
    <3>1. /\ Len(s.args) >= 1 /\ Head(s.args) = s.args[1]
          /\ IsSeq(Tail(s.args)) /\ Len(Tail(s.args)) = Len(s.args) - 1
          /\ \A i \in 1..Len(Tail(s.args)) : Tail(s.args)[i] = s.args[i + 1]
      BY <1>1, <1>4, TailFacts
    <3>2. DOMAIN s.args = 1..Len(s.args) /\ DOMAIN Tail(s.args) = 1..Len(Tail(s.args)) /\ Len(s.args) \in Nat
      BY <1>1, <3>1, SeqFacts
    <3>3. s.args[1] \in ToSet(OrDash(c.args))
      BY <3>1, <3>2 DEF LocalOK, Remains, Reader
    <3>4. ASSUME NEW f \in ToSet(s.args) PROVE f = Head(s.args) \/ f \in ToSet(Tail(s.args))
      <4>1. PICK i \in 1..Len(s.args) : f = s.args[i]
        BY <3>2 DEF ToSet
      <4>2. CASE i = 1
        BY <3>1, <4>1, <4>2
      <4>3. CASE i # 1
        <5>1. i - 1 \in 1..Len(Tail(s.args)) /\ (i - 1) + 1 = i
          BY <3>1, <3>2, <4>3
        <5>2. Tail(s.args)[i - 1] = f
          BY <3>1, <4>1, <5>1
        <5> QED  BY <3>2, <5>1, <5>2 DEF ToSet
      <4> QED  BY <4>2, <4>3
    <3> QED  BY <3>1, <3>3, <3>4
  <2>2. t.ret = 1 => \E f \in Ins(c) : f \notin F
    <3>1. CASE Head(s.args) \in D \cup {"-"}
      BY <1>4, <3>1 DEF Accounts
    <3>2. CASE Head(s.args) \notin D \cup {"-"}
      <4>1. Head(s.args) \in ToSet(c.args)
        <5>1. ToSet(<<"-">>) = {"-"}
          BY DEF ToSet
        <5> QED  BY <2>1, <3>2, <5>1 DEF OrDash
      <4> QED  BY <1>1, <3>2, <4>1
    <3> QED  BY <3>1, <3>2
  <2>3. \A f \in Ins(c) : f \in ToSet(t.args) \/ f \in D \/ t.ret = 1
    <3>1. ASSUME NEW f \in Ins(c) PROVE f \in ToSet(t.args) \/ f \in D \/ t.ret = 1
      <4>1. f # "-" /\ (f \in ToSet(s.args) \/ f \in D \/ s.ret = 1)
        BY <1>1, <1>4 DEF Accounts
      <4> QED  BY <1>4, <2>1, <4>1
    <3> QED  BY <3>1
  <2> QED  BY <1>4, <2>2, <2>3 DEF Accounts
<1>5. CASE s.at # "start" /\ t.args = s.args /\ t.ret = s.ret /\ (Place(t) = "exit" => Place(s) = "exit" \/ s.args = <<>>)
  BY <1>5 DEF Accounts
<1> QED  BY <1>3, <1>4, <1>5 DEF ReadsOn

\* Who is killed does not come back.
LEMMA KilledStays ==
  ASSUME Typed, NEW p \in Proc, Step(p), proc[p].ret = Killed
  PROVE  proc'[p] = proc[p]
<1>1. proc[p].at = "exit" /\ proc[p].obuf = <<>>
  BY DEF Typed, Where, Killed
<1>2. Exit(p)
  BY <1>1 DEF Step, Begin, OpenInput, OpenOutput, OpenDd, SeekDd, Finish, Read, ReadEnds, Yes, Pour, NextChunk, Round,
              PrintReport, Write, At
<1> QED  BY <1>1, <1>2 DEF Exit

LEMMA StatusInit == Init => StatusInv
<1> SUFFICES ASSUME Init PROVE StatusInv
  OBVIOUS
<1>1. Typed
  BY TypedInit
<1>2. ASSUME NEW p \in Proc PROVE Accounts(Cmd(p), proc[p], DOMAIN file, DOMAIN setting.files)
  <2>1. proc[p] = Idle
    BY DEF Init, Proc
  <2>2. Idle.ret = 0 /\ Idle.at = "start" /\ Place(Idle) = "start"
    BY DEF Idle, Place
  <2> QED  BY <2>1, <2>2 DEF Accounts
<1> QED  BY <1>1, <1>2 DEF StatusInv

LEMMA StatusNext == ASSUME StatusInv, [Next]_vars PROVE StatusInv'
<1>1. Typed /\ Typed' /\ DOMAIN setting.files \subseteq DOMAIN file /\ setting' = setting
  <2>1. Typed /\ Typed'
    BY TypedNext DEF StatusInv
  <2>2. setting' = setting
    BY DEF Next, Step, vars, Done, Interrupt, Begin, OpenInput, OpenOutput, OpenDd, SeekDd, Finish, Read, ReadEnds, Yes,
           Pour, NextChunk, Round, PrintReport, Write, Exit, Silent, Becomes
  <2> QED  BY <2>1, <2>2 DEF Typed, FilesOK
<1> SUFFICES ASSUME setting.refused = {}, NEW q \in Proc', Cmd(q).name \in Reader
             PROVE  Accounts(Cmd(q), proc'[q], DOMAIN file', DOMAIN setting.files)
  BY <1>1 DEF StatusInv, Cmd
<1> DEFINE F == DOMAIN setting.files
           D == DOMAIN file
           c == Cmd(q)
<1>2. CASE UNCHANGED vars
  <2>1. q \in Proc
    BY <1>2 DEF vars, streams, Proc
  <2> QED  BY <1>2, <2>1 DEF StatusInv, vars, streams
<1>3. ASSUME NEW p \in Proc, Step(p) PROVE Accounts(c, proc'[q], DOMAIN file', F)
  <2>1. Elsewhere(p) /\ \A r \in Proc : r # p => proc'[r] = proc[r]
    <3>1. Steps(p)
      BY <1>1, <1>3, StepSteps
    <3> QED  BY <1>1, <3>1, StepsTyped DEF Steps
  <2>2. q \in Proc /\ D \subseteq DOMAIN file'
    BY <2>1 DEF Elsewhere, Proc
  <2>3. Accounts(c, proc[q], D, F) /\ LocalOK(c, proc[q])
    BY <1>1, <2>2 DEF StatusInv, Typed
  <2>4. Accounts(c, proc'[q], D, F)
    <3>1. CASE q # p
      BY <2>1, <2>2, <2>3, <3>1
    <3>2. CASE q = p /\ proc[q].ret = Killed
      BY <1>1, <1>3, <2>3, <3>2, KilledStays
    <3>3. CASE q = p /\ proc[q].ret # Killed
      <4>1. ReadsOn(c, proc[q], proc'[q], D)
        BY <1>1, <1>3, <3>3, ReaderSteps
      <4> QED  BY <1>1, <2>3, <3>3, <4>1, AccountsStay
    <3> QED  BY <3>1, <3>2, <3>3
  <2> QED  BY <2>2, <2>4 DEF Accounts
<1>4. CASE Interrupt
  <2>1. q \in Proc /\ UNCHANGED streams
    BY <1>4 DEF Interrupt, streams, Proc
  <2>2. proc'[q] = proc[q] \/ proc'[q] = Dies(proc[q])
    BY <1>4, <2>1 DEF Interrupt
  <2>3. Dies(proc[q]).ret = Killed
    BY <1>1, <2>1, DiesRest DEF Typed, LocalOK
  <2> QED  BY <2>1, <2>2, <2>3 DEF StatusInv, streams, Accounts
<1> QED  BY <1>2, <1>3, <1>4 DEF Next, Done

\* StatusTells for every pipeline of cat, head, wc, hex and whatever else, every input
\* and every interleaving: an operand that cannot be opened (utils.c:48, wc.c:105) does
\* not keep the operands behind it from being read, and the status remembers it.
THEOREM StatusIsTold == Spec => []StatusTells
<1>1. StatusInv => StatusTells
  <2> SUFFICES ASSUME StatusInv, NEW p \in ended, Cmd(p).name \in Reader, setting.refused = {}, proc[p].ret # Killed
               PROVE  LET missing == Ins(Cmd(p)) \ DOMAIN setting.files
                      IN  /\ missing = {} => proc[p].ret = 0
                          /\ missing # {} /\ (\A q \in Proc : missing \cap Outs(Cmd(q)) = {}) => proc[p].ret = 1
    BY DEF StatusTells, Reader
  <2> DEFINE F == DOMAIN setting.files
             D == DOMAIN file
             c == Cmd(p)
             s == proc[p]
             missing == Ins(c) \ F
  <2>1. Typed /\ p \in Proc /\ s.at = "exit" /\ Accounts(c, s, D, F)
    BY DEF StatusInv, Typed, StreamsOK
  <2>2. s.ret \in {0, 1} /\ Place(s) = "exit"
    BY <2>1 DEF Typed, Where, Place
  <2>3. /\ s.ret = 1 => \E f \in Ins(c) : f \notin F
        /\ \A f \in Ins(c) : f \in D \/ s.ret = 1
    <3>1. ToSet(<<>>) = {}
      BY DEF ToSet
    <3> QED  BY <2>1, <2>2, <3>1 DEF Accounts
  <2>4. missing = {} => s.ret = 0
    BY <2>2, <2>3
  <2>5. ASSUME missing # {}, \A q \in Proc : missing \cap Outs(Cmd(q)) = {} PROVE s.ret = 1
    <3>1. PICK f \in Ins(c) : f \notin F
      BY <2>5
    <3>2. f \notin D
      BY <2>1, <2>5, <3>1 DEF Typed, FilesOK
    <3> QED  BY <2>3, <3>1, <3>2
  <2> QED  BY <2>4, <2>5
<1> QED  BY <1>1, StatusInit, StatusNext, PTL DEF Spec

-------------------------------------------------------------------------------
(***************************************************************************)
(* Conserved.                                                              *)
(***************************************************************************)
\* A program that copies keeps nothing in the buffer of stdout, and while it writes, its
\* calls are those of one buffer.
CopyOK(s) ==
  /\ s.obuf = <<>> /\ s.buf = <<>>
  /\ IF s.at = "write"
     THEN s.next = "read" /\ CopyCalls(s.fds, s.todo, s.todo[1].bytes) /\ s.moved <= Len(s.todo[1].bytes)
     ELSE s.moved = 0

\* Held, of what the program knows.
InHand(s) ==
  LET bytes == s.todo[Len(s.todo)].bytes
  IN  CASE s.at = "write" /\ Len(s.todo) = 1 -> SubSeq(bytes, s.moved + 1, Len(bytes))
        [] s.at = "write" /\ Len(s.todo) > 1 -> bytes
        [] OTHER -> <<>>

LEMMA InHandIs ==
  ASSUME NEW c, NEW s, LocalOK(c, s), CopyOK(s)
  PROVE  /\ s.at # "write" => InHand(s) = <<>>
         /\ s.at = "write" => LET bytes == s.todo[1].bytes IN
                              InHand(s) = IF Len(s.todo) = 1 THEN SubSeq(bytes, s.moved + 1, Len(bytes)) ELSE bytes
<1> DEFINE n == Len(s.todo)
           first == s.todo[1].bytes
           last == s.todo[n].bytes
<1>1. InHand(s) = CASE s.at = "write" /\ n = 1 -> SubSeq(last, s.moved + 1, Len(last))
                    [] s.at = "write" /\ n > 1 -> last
                    [] OTHER -> <<>>
  BY DEF InHand
<1>2. s.at = "write" => n \in Nat /\ n >= 1 /\ last = first
  <2> SUFFICES ASSUME s.at = "write" PROVE n \in Nat /\ n >= 1 /\ last = first
    OBVIOUS
  <2>1. IsSeq(s.todo) /\ n >= 1 /\ \A i \in 1..n : s.todo[i].bytes = first
    BY DEF CopyOK, CopyCalls
  <2>2. n \in Nat
    BY <2>1, SeqFacts
  <2> HIDE DEF n, first
  <2>3. n \in 1..n
    BY <2>1, <2>2
  <2> QED  BY <2>1, <2>2, <2>3
<1> HIDE DEF n, first, last
<1>3. s.at # "write" => InHand(s) = <<>>
  BY <1>1
<1>4. s.at = "write" => InHand(s) = IF n = 1 THEN SubSeq(first, s.moved + 1, Len(first)) ELSE first
  BY <1>1, <1>2
<1> QED  BY <1>3, <1>4 DEF n, first

LEMMA PassesFacts ==
  ASSUME NEW p, Passes(p)
  PROVE  /\ Cmd(p).name \in {"cat", "tee"} /\ Copies(p) /\ ~Freads(p)
         /\ Cmd(p).name = "cat" => Cmd(p).args = <<>>
BY DEF Passes, Copies, Shows, Freads

\* A print of nothing.
LEMMA NothingPrinted ==
  ASSUME NEW s, NEW m, NEW next, Shape(s), "out" \in DOMAIN m, m.out = <<>>, next # "write", s.obuf = <<>>, s.moved = 0
  PROVE  LET t == Printed(s, m, next) IN t.at = next /\ CopyOK(t) /\ t.ret = s.ret
<1> DEFINE t == Printed(s, m, next)
           all == s.obuf \o m.out
<1>1. IsSeq(m.out) /\ all = <<>> /\ ~(Len(all) >= StdioSize)
  <2>1. IsSeq(<<>>) /\ Len(<<>>) = 0 /\ <<>> \o <<>> = <<>>
    BY EmptyIsSeq, NothingJoins
  <2> QED  BY <2>1, PipelineAssumption
<1>2. t = [s EXCEPT !.mem = [m EXCEPT !.out = <<>>], !.obuf = all, !.buf = <<>>, !.at = next]
  BY <1>1 DEF Printed, Shape
<1> HIDE DEF all
<1>3. t.ret = s.ret /\ t.moved = s.moved /\ t.obuf = all /\ t.buf = <<>> /\ t.at = next
  BY <1>2 DEF Shape
<1> HIDE DEF t
<1> QED  BY <1>1, <1>3 DEF CopyOK, t

\* The steps that read and write nothing.
CopyRests(p) ==
  \/ proc'[p].ret = Killed
  \/ /\ CopyOK(proc'[p]) /\ proc'[p].at # "write" /\ proc'[p].ret \in {proc[p].ret, 1}
     /\ UNCHANGED <<pipe, heard>>

LEMMA CopierBegins ==
  ASSUME Typed, NEW p \in Proc, Passes(p), CopyOK(proc[p]), Begin(p)
  PROVE  CopyRests(p)
<1> DEFINE c == Cmd(p)
           s == proc[p]
<1>1. Shape(s) /\ s.at = "start" /\ c.name \in {"cat", "tee"} /\ DOMAIN proc = Proc
  BY PassesFacts DEF Typed, LocalOK, Begin, At
<1>2. PICK m : Silent(p, [s EXCEPT !.at = "open", !.args = OrDash(c.args), !.mem = m])
  BY <1>1 DEF Begin
<1> DEFINE t == [s EXCEPT !.at = "open", !.args = OrDash(c.args), !.mem = m]
<1>3. t.at = "open" /\ t.obuf = s.obuf /\ t.buf = s.buf /\ t.moved = s.moved /\ t.ret = s.ret
  BY <1>1 DEF Shape
<1>4. proc'[p] = t /\ UNCHANGED <<pipe, heard>>
  BY <1>1, <1>2 DEF Silent, Becomes, streams
<1> HIDE DEF t
<1> QED  BY <1>1, <1>3, <1>4 DEF CopyRests, CopyOK

LEMMA CatOpens ==
  ASSUME Typed, NEW p \in Proc, Passes(p), CopyOK(proc[p]), OpenInput(p)
  PROVE  CopyRests(p)
<1> DEFINE c == Cmd(p)
           o == proc[p]
           name == Head(o.args)
           s == [o EXCEPT !.args = Tail(@)]
           in == IF name = "-" THEN "stdin" ELSE name
           u == [s EXCEPT !.in = in]
           m == Fresh(p, s.mem)
           t == Printed(u, m, "read")
           r == [s EXCEPT !.ret = 1]
<1>1. /\ LocalOK(c, o) /\ Shape(o) /\ o.at = "open" /\ o.args # <<>> /\ c.name = "cat" /\ DOMAIN proc = Proc
  BY PassesFacts DEF Typed, OpenInput, At, LocalOK
<1>2. (proc'[p] = t \/ proc'[p] = r) /\ UNCHANGED <<pipe, heard>>
  BY <1>1 DEF OpenInput, Silent, Becomes, Rewind, streams
<1>3. /\ DOMAIN s = DOMAIN o /\ s.at = o.at /\ s.args = Tail(o.args) /\ s.buf = o.buf /\ s.obuf = o.obuf /\ s.mem = o.mem
      /\ s.fds = o.fds /\ s.todo = o.todo /\ s.moved = o.moved /\ s.ret = o.ret
  BY <1>1 DEF Shape
<1> HIDE DEF s
<1>4. IsSeq(s.args)
  BY <1>1, <1>3, TailFacts DEF Shape
<1>5. r.at = "open" /\ r.ret = 1 /\ r.obuf = o.obuf /\ r.buf = o.buf /\ r.moved = o.moved
  BY <1>1, <1>3 DEF Shape
<1>6. /\ DOMAIN u = DOMAIN s /\ u.args = s.args /\ u.buf = s.buf /\ u.obuf = s.obuf /\ u.mem = s.mem
      /\ u.fds = s.fds /\ u.todo = s.todo /\ u.moved = s.moved /\ u.ret = s.ret
  BY <1>1, <1>3 DEF Shape
<1> HIDE DEF u, r
<1>7. Shape(u)
  BY <1>1, <1>3, <1>4, <1>6 DEF Shape
<1>8. "out" \in DOMAIN m /\ m.out = <<>>
  BY <1>1 DEF Fresh, CatStart
<1> HIDE DEF m
<1>9. t.at = "read" /\ CopyOK(t) /\ t.ret = u.ret
  BY <1>1, <1>3, <1>6, <1>7, <1>8, NothingPrinted DEF CopyOK
<1> HIDE DEF t
<1> QED  BY <1>1, <1>2, <1>3, <1>5, <1>6, <1>9 DEF CopyRests, CopyOK

LEMMA CopierEnds ==
  ASSUME Typed, NEW p \in Proc, CopyOK(proc[p]), proc[p].at # "write", NEW ret \in {proc[p].ret, 1},
         Silent(p, Ends(proc[p], ret))
  PROVE  CopyRests(p)
<1> DEFINE s == proc[p]
           t == Ends(s, ret)
<1>1. Shape(s) /\ proc'[p] = t /\ UNCHANGED <<pipe, heard>>
  BY DEF Typed, LocalOK, Silent, Becomes, streams
<1>2. t.at = "exit" /\ t.ret = ret /\ t.obuf = s.obuf /\ t.buf = s.buf /\ t.moved = s.moved
  BY <1>1 DEF Ends, Shape
<1> HIDE DEF t
<1> QED  BY <1>1, <1>2 DEF CopyRests, CopyOK

LEMMA TeeOpens ==
  ASSUME Typed, NEW p \in Proc, CopyOK(proc[p]), OpenOutput(p)
  PROVE  CopyRests(p)
<1> DEFINE c == Cmd(p)
           s == proc[p]
           f == Head(s.args)
           fds == IF c.args = <<>> THEN s.fds ELSE Append(s.fds, Opened(f, Given(p, "append")))
           t == [s EXCEPT !.args = Tail(@), !.fds = fds]
           r == [s EXCEPT !.args = Tail(@), !.ret = 1]
           g == [s EXCEPT !.at = "read"]
<1>1. Shape(s) /\ s.at = "open" /\ DOMAIN proc = Proc
  BY DEF Typed, OpenOutput, At, LocalOK
<1>2. \/ Silent(p, Ends(s, 1)) \/ Silent(p, g) \/ Silent(p, r)
      \/ Create(f, ~Given(p, "append")) /\ Becomes(p, [s EXCEPT !.args = Tail(@), !.fds =
           IF c.args = <<>> THEN @ ELSE Append(@, Opened(f, Given(p, "append")))])
  BY DEF OpenOutput
<1>3. [s EXCEPT !.args = Tail(@), !.fds = IF c.args = <<>> THEN @ ELSE Append(@, Opened(f, Given(p, "append")))] = t
  BY <1>1 DEF Shape
<1> HIDE DEF fds
<1>4. \A x \in {t, r, g} : x.at # "write" /\ x.obuf = s.obuf /\ x.buf = s.buf /\ x.moved = s.moved /\ x.ret \in {s.ret, 1}
  BY <1>1 DEF Shape
<1> HIDE DEF t, r, g
<1>5. CASE Silent(p, Ends(s, 1))
  BY <1>1, <1>5, CopierEnds
<1>6. CASE ~Silent(p, Ends(s, 1))
  <2>1. proc'[p] \in {t, r, g} /\ UNCHANGED <<pipe, heard>>
    BY <1>1, <1>2, <1>3, <1>6 DEF Silent, Becomes, Create, streams
  <2> QED  BY <1>1, <1>4, <2>1 DEF CopyRests, CopyOK
<1> QED  BY <1>5, <1>6

LEMMA CopierReadsAll ==
  ASSUME Typed, NEW p \in Proc, Passes(p), CopyOK(proc[p]), ReadEnds(p)
  PROVE  CopyRests(p)
<1> DEFINE c == Cmd(p)
           s == proc[p]
<1>1. /\ LocalOK(c, s) /\ Shape(s) /\ s.at = "read" /\ Place(s) = "read" /\ c.name \in {"cat", "tee"} /\ ~Freads(p)
      /\ DOMAIN proc = Proc
  BY PassesFacts DEF Typed, ReadEnds, At, LocalOK, Place
<1>2. Silent(p, Ends(s, s.ret)) \/ (c.name = "cat" /\ \E e \in BOOLEAN : Silent(p, Left(p, s, s.mem, e)))
  BY <1>1 DEF ReadEnds, May
<1>3. CASE Silent(p, Ends(s, s.ret))
  BY <1>1, <1>3, CopierEnds
<1>4. ASSUME c.name = "cat", NEW e \in BOOLEAN, Silent(p, Left(p, s, s.mem, e))
      PROVE  CopyRests(p)
  <2> DEFINE u == [s EXCEPT !.ret = IF e THEN 1 ELSE @]
             t == Printed(u, s.mem, "open")
  <2>1. Knows(c, s.mem, "read") /\ s.mem.out = <<>>
    BY <1>1 DEF LocalOK
  <2>2. Leaves(c, s.mem) /\ c.name \in {"cat", "tr", "wc", "head", "hex"}
    BY <1>4, <2>1 DEF Leaves, Knows
  <2>3. PICK n : /\ Left(p, s, s.mem, e) = Printed([s EXCEPT !.ret = IF e THEN 1 ELSE @], n,
                                                   IF c.name = "tr" THEN "exit" ELSE "open")
                 /\ Knows(c, n, "open") /\ (c.name = "cat" => n = s.mem)
    BY <2>2, LeftFacts
  <2>4. Left(p, s, s.mem, e) = t
    BY <1>4, <2>3
  <2>5. /\ DOMAIN u = DOMAIN s /\ u.args = s.args /\ u.buf = s.buf /\ u.obuf = s.obuf /\ u.mem = s.mem
        /\ u.fds = s.fds /\ u.todo = s.todo /\ u.moved = s.moved /\ u.ret \in {s.ret, 1}
    BY <1>1 DEF Shape
  <2> HIDE DEF u
  <2>6. Shape(u) /\ "out" \in DOMAIN s.mem
    BY <1>1, <2>1, <2>5 DEF Shape, Knows
  <2>7. t.at = "open" /\ CopyOK(t) /\ t.ret = u.ret
    BY <1>1, <2>1, <2>5, <2>6, NothingPrinted DEF CopyOK
  <2>8. proc'[p] = t /\ UNCHANGED <<pipe, heard>>
    BY <1>1, <1>4, <2>4 DEF Silent, Becomes, streams
  <2> HIDE DEF t
  <2> QED  BY <2>5, <2>7, <2>8 DEF CopyRests
<1> QED  BY <1>2, <1>3, <1>4

LEMMA CopierRests ==
  ASSUME Typed, NEW p \in Proc, Passes(p), CopyOK(proc[p]), Step(p), ~Read(p), ~Write(p)
  PROVE  CopyRests(p)
<1> DEFINE s == proc[p]
<1>1. Cmd(p).name \in {"cat", "tee"} /\ s.at \notin {"seek", "pour", "report"} /\ s.obuf = <<>>
  BY PassesFacts DEF Typed, Where, Place, CopyOK
<1>2. CASE Finish(p)
  <2>1. Silent(p, Ends(s, s.ret)) /\ s.at = "open"
    BY <1>1, <1>2 DEF Finish, At
  <2> QED  BY <2>1, CopierEnds
<1>3. CASE Exit(p)
  <2>1. proc' = proc /\ UNCHANGED <<pipe, heard>> /\ s.at = "exit"
    BY <1>1, <1>3 DEF Exit, At, Quits
  <2> QED  BY <2>1 DEF CopyRests
<1>4. ~OpenDd(p) /\ ~SeekDd(p) /\ ~Yes(p) /\ ~Pour(p) /\ ~NextChunk(p) /\ ~Round(p) /\ ~PrintReport(p)
  BY <1>1 DEF OpenDd, SeekDd, Yes, Pour, NextChunk, Round, PrintReport, At
<1> QED  BY <1>2, <1>3, <1>4, CopierBegins, CatOpens, TeeOpens, CopierReadsAll DEF Step

LEMMA JoinsAgain ==
  ASSUME NEW a, NEW b, NEW d, IsSeq(a), IsSeq(b), IsSeq(d)
  PROVE  (a \o b) \o d = a \o (b \o d)
<1> DEFINE ab == a \o b
           bd == b \o d
           l == ab \o d
           r == a \o bd
<1>1. Len(a) \in Nat /\ Len(b) \in Nat /\ Len(d) \in Nat
  BY SeqFacts
<1>2. IsSeq(ab) /\ Len(ab) = Len(a) + Len(b) /\ \A i \in 1..Len(a) : ab[i] = a[i]
  BY JoinFacts
<1>3. \A i \in 1..Len(b) : ab[Len(a) + i] = b[i]
  BY JoinFacts
<1>4. IsSeq(bd) /\ Len(bd) = Len(b) + Len(d) /\ \A i \in 1..Len(b) : bd[i] = b[i]
  BY JoinFacts
<1>5. \A i \in 1..Len(d) : bd[Len(b) + i] = d[i]
  BY JoinFacts
<1> HIDE DEF ab, bd
<1>6. IsSeq(l) /\ Len(l) = Len(ab) + Len(d) /\ \A i \in 1..Len(ab) : l[i] = ab[i]
  BY <1>2, JoinFacts
<1>7. \A i \in 1..Len(d) : l[Len(ab) + i] = d[i]
  BY <1>2, JoinFacts
<1>8. IsSeq(r) /\ Len(r) = Len(a) + Len(bd) /\ \A i \in 1..Len(a) : r[i] = a[i]
  BY <1>4, JoinFacts
<1>9. \A i \in 1..Len(bd) : r[Len(a) + i] = bd[i]
  BY <1>4, JoinFacts
<1> HIDE DEF l, r
<1>10. ASSUME NEW i \in 1..Len(l) PROVE l[i] = r[i]
  <2>1. CASE i \in 1..Len(a)
    <3>1. i \in 1..Len(ab)
      BY <1>1, <1>2, <2>1
    <3> QED  BY <1>2, <1>6, <1>8, <2>1, <3>1
  <2>2. CASE i - Len(a) \in 1..Len(b)
    <3> DEFINE j == i - Len(a)
    <3>1. j \in 1..Len(b) /\ j \in 1..Len(bd) /\ i \in 1..Len(ab) /\ i = Len(a) + j
      BY <1>1, <1>2, <1>4, <2>2
    <3> HIDE DEF j
    <3>2. l[i] = b[j]
      BY <1>3, <1>6, <3>1
    <3>3. r[i] = b[j]
      BY <1>4, <1>9, <3>1
    <3> QED  BY <3>2, <3>3
  <2>3. CASE i - Len(ab) \in 1..Len(d)
    <3> DEFINE j == i - Len(ab)
    <3>1. j \in 1..Len(d) /\ Len(b) + j \in 1..Len(bd) /\ i = Len(ab) + j /\ i = Len(a) + (Len(b) + j)
      BY <1>1, <1>2, <1>4, <2>3
    <3> HIDE DEF j
    <3>2. l[i] = d[j]
      BY <1>7, <3>1
    <3>3. r[i] = bd[Len(b) + j] /\ bd[Len(b) + j] = d[j]
      BY <1>5, <1>9, <3>1
    <3> QED  BY <3>2, <3>3
  <2> QED  BY <1>1, <1>2, <1>6, <2>1, <2>2, <2>3
<1>11. Len(l) = Len(r)
  BY <1>1, <1>2, <1>4, <1>6, <1>8
<1>12. l = r
  BY <1>6, <1>8, <1>10, <1>11, SeqsEqual
<1> QED  BY <1>12 DEF l, r, ab, bd

\* A part, and the part behind it.
LEMMA PartsJoin ==
  ASSUME NEW s, IsSeq(s), NEW a \in Nat, NEW b \in Nat, NEW d \in Nat, 1 <= a, a <= b + 1, b <= d
  PROVE  SubSeq(s, a, b) \o SubSeq(s, b + 1, d) = SubSeq(s, a, d)
<1> DEFINE x == SubSeq(s, a, b)
           y == SubSeq(s, b + 1, d)
           z == SubSeq(s, a, d)
           w == x \o y
<1>1. /\ IsSeq(x) /\ Len(x) = (IF a <= b THEN b - a + 1 ELSE 0)
      /\ \A i \in 1..(b - a + 1) : x[i] = s[a + i - 1]
  BY PartFacts
<1>2. /\ IsSeq(y) /\ Len(y) = (IF b + 1 <= d THEN d - (b + 1) + 1 ELSE 0)
      /\ \A i \in 1..(d - (b + 1) + 1) : y[i] = s[b + 1 + i - 1]
  <2>1. b + 1 \in Int /\ d \in Int
    OBVIOUS
  <2> QED  BY <2>1, PartFacts
<1>3. /\ IsSeq(z) /\ Len(z) = (IF a <= d THEN d - a + 1 ELSE 0)
      /\ \A i \in 1..(d - a + 1) : z[i] = s[a + i - 1]
  BY PartFacts
<1> HIDE DEF x, y, z
<1>4. /\ IsSeq(w) /\ Len(w) = Len(x) + Len(y)
      /\ \A i \in 1..Len(x) : w[i] = x[i]
      /\ \A i \in 1..Len(y) : w[Len(x) + i] = y[i]
  BY <1>1, <1>2, JoinFacts
<1> HIDE DEF w
<1>5. Len(x) = b - a + 1 /\ Len(y) = d - b /\ Len(w) = d - a + 1 /\ Len(z) = d - a + 1
  BY <1>1, <1>2, <1>3, <1>4
<1>6. ASSUME NEW i \in 1..Len(w) PROVE w[i] = z[i]
  <2>1. CASE i \in 1..Len(x)
    <3>1. i \in 1..(b - a + 1) /\ i \in 1..(d - a + 1)
      BY <1>5, <2>1
    <3> QED  BY <1>1, <1>3, <1>4, <2>1, <3>1
  <2>2. CASE i \notin 1..Len(x)
    <3> DEFINE j == i - Len(x)
    <3>1. j \in 1..Len(y) /\ j \in 1..(d - (b + 1) + 1) /\ i = Len(x) + j /\ b + 1 + j - 1 = a + i - 1 /\ i \in 1..(d - a + 1)
      BY <1>5, <2>2
    <3> HIDE DEF j
    <3>2. w[i] = y[j]
      BY <1>4, <3>1
    <3>3. y[j] = s[b + 1 + j - 1] /\ z[i] = s[a + i - 1]
      BY <1>2, <1>3, <3>1
    <3> QED  BY <3>1, <3>2, <3>3
  <2> QED  BY <2>1, <2>2
<1>7. w = z
  BY <1>3, <1>4, <1>5, <1>6, SeqsEqual
<1> QED  BY <1>7 DEF w, x, y, z

\* A part of a part.
LEMMA PartOfPart ==
  ASSUME NEW s, IsSeq(s), NEW a \in Nat \ {0}, NEW d \in Nat, NEW k \in Nat, a + k - 1 <= d
  PROVE  SubSeq(SubSeq(s, a, d), 1, k) = SubSeq(s, a, a + k - 1)
<1> DEFINE x == SubSeq(s, a, d)
           y == SubSeq(x, 1, k)
           z == SubSeq(s, a, a + k - 1)
<1>1. \A i \in 1..(d - a + 1) : x[i] = s[a + i - 1]
  BY PartFacts
<1> HIDE DEF x
<1>2. IsSeq(y) /\ Len(y) = (IF 1 <= k THEN k - 1 + 1 ELSE 0) /\ \A i \in 1..(k - 1 + 1) : y[i] = x[1 + i - 1]
  BY PartFacts
<1>3. /\ IsSeq(z) /\ Len(z) = (IF a <= a + k - 1 THEN a + k - 1 - a + 1 ELSE 0)
      /\ \A i \in 1..(a + k - 1 - a + 1) : z[i] = s[a + i - 1]
  <2>1. a \in Int /\ a + k - 1 \in Int
    OBVIOUS
  <2> QED  BY <2>1, PartFacts
<1> HIDE DEF y, z
<1>4. Len(y) = k /\ Len(z) = k
  BY <1>2, <1>3
<1>5. ASSUME NEW i \in 1..Len(y) PROVE y[i] = z[i]
  <2>1. i \in 1..(k - 1 + 1) /\ i \in 1..(a + k - 1 - a + 1) /\ i \in 1..(d - a + 1) /\ 1 + i - 1 = i
    BY <1>4
  <2> QED  BY <1>1, <1>2, <1>3, <2>1
<1>6. y = z
  BY <1>2, <1>3, <1>4, <1>5, SeqsEqual
<1> QED  BY <1>6 DEF x, y, z

LEMMA WholePart == ASSUME NEW s, IsSeq(s) PROVE SubSeq(s, 1, Len(s)) = s
<1> DEFINE x == SubSeq(s, 1, Len(s))
<1>1. Len(s) \in Nat
  BY SeqFacts
<1>2. /\ IsSeq(x) /\ Len(x) = (IF 1 <= Len(s) THEN Len(s) - 1 + 1 ELSE 0)
      /\ \A i \in 1..(Len(s) - 1 + 1) : x[i] = s[1 + i - 1]
  BY <1>1, PartFacts
<1> HIDE DEF x
<1>3. Len(x) = Len(s) /\ \A i \in 1..Len(x) : x[i] = s[i]
  <2>1. Len(x) = Len(s)
    BY <1>1, <1>2
  <2>2. \A i \in 1..Len(s) : i \in 1..(Len(s) - 1 + 1) /\ 1 + i - 1 = i
    BY <1>1
  <2> QED  BY <1>2, <2>1, <2>2
<1>4. x = s
  BY <1>2, <1>3, SeqsEqual
<1> QED  BY <1>4 DEF x

LEMMA NoPart == ASSUME NEW s, NEW a \in Int, NEW b \in Int, b < a PROVE SubSeq(s, a, b) = <<>>
<1> DEFINE x == SubSeq(s, a, b)
<1>1. IsSeq(x) /\ Len(x) = (IF a <= b THEN b - a + 1 ELSE 0)
  BY PartFacts
<1> HIDE DEF x
<1>2. x = <<>>
  BY <1>1, SeqFacts
<1> QED  BY <1>2 DEF x

\* A copier has read `bytes`, and is to write them to all its outputs.
Takes(s, t, bytes) ==
  /\ t.at = "write" /\ CopyOK(t) /\ t.moved = 0 /\ t.todo[1].bytes = bytes
  /\ t.fds = s.fds /\ t.args = s.args /\ t.ret = s.ret
  /\ \A k \in 1..Len(s.fds) : s.fds[k].name # "failed" => \E i \in 1..(Len(t.todo) - 1) : t.todo[i].fd = k

LEMMA CopierReads ==
  ASSUME Typed, NEW p \in Proc, Passes(p), CopyOK(proc[p]), Read(p)
  PROVE  \E k \in 1..(Len(pipe[p]) - heard[p]) :
           /\ heard'[p] = heard[p] + k /\ UNCHANGED <<pipe, file, ended>>
           /\ Takes(proc[p], proc'[p], SubSeq(pipe[p], heard[p] + 1, heard[p] + k))
<1> DEFINE c == Cmd(p)
           s == proc[p]
           D == DOMAIN file
           w == Waiting(p, s.in)
           h == heard[p]
           n == Len(pipe[p])
<1>1. /\ LocalOK(c, s) /\ Shape(s) /\ Where(c, s, D) /\ s.at = "read" /\ Place(s) = "read" /\ StreamsOK /\ DOMAIN proc = Proc
      /\ c.name \in {"cat", "tee"} /\ Copies(p) /\ ~Freads(p) /\ CommandOK(c)
  BY PassesFacts, SettingFacts DEF Typed, Read, At, Place, LocalOK
<1>2. s.in = "stdin" /\ s.buf = <<>> /\ s.moved = 0
  <2>1. c.name = "cat" => c.args = <<>>
    BY PassesFacts
  <2>2. s.in = "stdin"
    BY <1>1, <2>1 DEF Where
  <2> QED  BY <1>1, <2>2 DEF CopyOK
<1>3. PICK k \in 1..Less(Limit(p, s), Len(w)) : Take(p, s.in, k) /\ Becomes(p, Got(p, s, SubSeq(w, 1, k)))
  BY DEF Read
<1>4. IsSeq(w) /\ Len(w) \in Nat /\ Len(w) = n - h /\ w = SubSeq(pipe[p], h + 1, n)
  BY <1>1, <1>2, WaitingFacts DEF Waiting
<1>5. IsSeq(pipe[p]) /\ n \in Nat /\ h \in Nat /\ h <= n
  <2>1. IsSeq(pipe[p]) /\ h \in 0..n
    BY <1>1, ProcIs DEF StreamsOK
  <2> QED  BY <2>1, SeqFacts
<1>6. k \in 1..(n - h)
  <2> DEFINE l == Limit(p, s)
             e == Len(w)
  <2>1. l \in Int /\ e \in Nat /\ k \in 1..Less(l, e) /\ e = n - h
    BY <1>1, <1>3, <1>4, LimitIs
  <2> HIDE DEF l, e, n, h
  <2> QED  BY <2>1 DEF Less
<1> DEFINE bytes == SubSeq(w, 1, k)
           calls == [i \in DOMAIN Outputs(s) |-> Call(Outputs(s)[i], bytes)]
           t == Writes(s, calls, "read")
<1>7. IsSeq(bytes) /\ bytes = SubSeq(pipe[p], h + 1, h + k)
  <2> DEFINE d == pipe[p]
  <2>1. k \in Nat /\ k \in Int /\ h + 1 \in Nat \ {0} /\ (h + 1) + k - 1 <= n /\ (h + 1) + k - 1 = h + k /\ IsSeq(d)
    BY <1>5, <1>6
  <2>2. IsSeq(bytes)
    BY <2>1, PartIsSeq
  <2> HIDE DEF d, n, h
  <2>3. SubSeq(SubSeq(d, h + 1, n), 1, k) = SubSeq(d, h + 1, (h + 1) + k - 1)
    BY <1>5, <2>1, PartOfPart DEF n
  <2> QED  BY <1>4, <2>1, <2>2, <2>3 DEF d, n, h
<1>8. Got(p, s, bytes) = t
  <2> HIDE DEF bytes, calls
  <2>1. s.buf \o bytes = bytes
    BY <1>2, <1>7, NothingJoins
  <2>2. Got(p, s, bytes) = Consumed(p, s, bytes)
    BY <1>1, <2>1 DEF Got
  <2>3. Consumed(p, s, bytes) = t
    BY <1>1, <1>7, ConsumedCopies DEF calls
  <2> QED  BY <2>2, <2>3
<1>9. /\ CopyCalls(s.fds, calls, bytes)
      /\ \A i \in 1..Len(s.fds) : s.fds[i].name # "failed" => \E j \in 1..(Len(calls) - 1) : calls[j].fd = i
  <2>1. IsSeq(s.fds)
    BY <1>1 DEF Shape
  <2>2. IsSeq(bytes)
    BY <1>7
  <2>3. calls = [i \in DOMAIN Outputs(s) |-> Call(Outputs(s)[i], bytes)]
    OBVIOUS
  <2> HIDE DEF calls, bytes, s
  <2>4. CopyCalls(s.fds, calls, bytes)
    BY <2>1, <2>2, <2>3, CallsCopy
  <2>5. Reaches(s.fds, calls)
    BY <2>1, <2>2, <2>3, CallsReach
  <2> QED  BY <2>4, <2>5 DEF Reaches
<1>10. heard'[p] = h + k /\ UNCHANGED <<pipe, file, ended>> /\ proc'[p] = t
  <2>1. p \in DOMAIN heard
    BY DEF Proc
  <2>2. proc'[p] = Got(p, s, bytes)
    BY <1>1, <1>3 DEF Becomes
  <2> QED  BY <1>2, <1>3, <1>8, <2>1, <2>2 DEF Take
<1> HIDE DEF calls, bytes
<1>11. /\ t.at = "write" /\ t.next = "read" /\ t.todo = calls /\ t.moved = 0 /\ t.fds = s.fds /\ t.args = s.args
       /\ t.ret = s.ret /\ t.obuf = s.obuf /\ t.buf = s.buf
  BY <1>1, <1>2 DEF Writes, Shape
<1> HIDE DEF t
<1>12. calls[1].bytes = bytes /\ Len(bytes) \in Nat
  <2>1. 1 \in 1..Len(calls)
    <3>1. IsSeq(calls) /\ Len(calls) >= 1
      BY <1>9 DEF CopyCalls
    <3>2. Len(calls) \in Nat
      BY <3>1, SeqFacts
    <3> QED  BY <3>1, <3>2
  <2> QED  BY <1>7, <1>9, <2>1, SeqFacts DEF CopyCalls
<1>13. CopyOK(t)
  BY <1>9, <1>11, <1>12 DEF CopyOK
<1>14. Takes(s, t, bytes)
  BY <1>9, <1>11, <1>12, <1>13 DEF Takes
<1> QED  BY <1>6, <1>7, <1>10, <1>14

-------------------------------------------------------------------------------
(***************************************************************************)
(* What a write leaves behind.                                             *)
(***************************************************************************)
\* k bytes have gone to the first output of s: its offset is k further.
Pushed(s, t, k) ==
  /\ IsSeq(t.fds) /\ Len(t.fds) = Len(s.fds)
  /\ \A i \in 1..Len(s.fds) : /\ t.fds[i].name = s.fds[i].name /\ t.fds[i].append = s.fds[i].append
                              /\ t.fds[i].off = s.fds[i].off + IF i = s.todo[1].fd THEN k ELSE 0

\* The same with its name, when it has failed.
Dropped(s, t) ==
  /\ s.todo[1].fd # 0 /\ IsSeq(t.fds) /\ Len(t.fds) = Len(s.fds) /\ t.fds[s.todo[1].fd].name = "failed"
  /\ \A i \in 1..Len(s.fds) : i # s.todo[1].fd => t.fds[i] = s.fds[i]

GoesOn(s, t, k) == t.at = "write" /\ t.todo = s.todo /\ t.moved = s.moved + k
Shifts(s, t)    == t.at = (IF Len(s.todo) = 1 THEN "read" ELSE "write") /\ t.todo = Tail(s.todo) /\ t.moved = 0

Same(s, t) == t.args = s.args /\ t.obuf = s.obuf /\ t.buf = s.buf /\ t.next = s.next

LEMMA CallsBytes == ASSUME NEW f, NEW todo, NEW bytes, CopyCalls(f, todo, bytes) PROVE todo[1].bytes = bytes
<1>1. IsSeq(todo) /\ Len(todo) >= 1 /\ \A i \in 1..Len(todo) : todo[i].bytes = bytes
  BY DEF CopyCalls
<1>2. Len(todo) \in Nat
  BY <1>1, SeqFacts
<1> QED  BY <1>1, <1>2

LEMMA CallsGoOn ==
  ASSUME NEW f, NEW g, NEW todo, NEW bytes, CopyCalls(f, todo, bytes), Len(todo) # 1, IsSeq(f), Len(g) = Len(f),
         \A i \in 1..Len(f) : i # todo[1].fd => g[i].name = f[i].name
  PROVE  CopyCalls(g, Tail(todo), bytes)
<1> DEFINE n == Len(todo)
           r == Tail(todo)
<1>1. /\ IsSeq(todo) /\ n >= 1 /\ todo[n].fd = 0
      /\ \A i \in 1..n : CallOK(Len(f), todo[i]) /\ todo[i].bytes = bytes /\ ~todo[i].stdio
      /\ \A i \in 1..(n - 1) : todo[i].fd # 0 /\ f[todo[i].fd].name # "failed"
      /\ \A i, j \in 1..(n - 1) : i < j => todo[i].fd < todo[j].fd
  BY DEF CopyCalls
<1>2. n \in Nat /\ n >= 2 /\ Len(f) \in Nat /\ todo # <<>>
  <2>1. n \in Nat /\ Len(f) \in Nat /\ (todo = <<>> => n = 0)
    BY <1>1, SeqFacts
  <2>2. n # 1 /\ n >= 1
    BY <1>1
  <2> HIDE DEF n
  <2> QED  BY <2>1, <2>2
<1>3. IsSeq(r) /\ Len(r) = n - 1 /\ \A i \in 1..Len(r) : r[i] = todo[i + 1]
  BY <1>1, <1>2, TailFacts
<1> HIDE DEF n, r
<1>4. /\ \A i \in 1..(n - 1) : i + 1 \in 1..n
      /\ \A i \in 1..(n - 2) : i \in 1..(n - 1) /\ i + 1 \in 1..(n - 1) /\ 1 < i + 1 /\ 1 \in 1..(n - 1)
      /\ (n - 1) + 1 = n /\ (n - 1) - 1 = n - 2 /\ n - 1 \in 1..(n - 1) /\ 1 \in 1..(n - 1)
  BY <1>2
<1>5. ASSUME NEW i \in 1..Len(r) PROVE CallOK(Len(g), r[i]) /\ r[i].bytes = bytes /\ ~r[i].stdio
  <2>1. i + 1 \in 1..n
    BY <1>3, <1>4
  <2> QED  BY <1>1, <1>3, <2>1
<1>6. r[Len(r)].fd = 0 /\ Len(r) >= 1
  BY <1>1, <1>2, <1>3, <1>4
<1>7. ASSUME NEW i \in 1..(Len(r) - 1) PROVE r[i].fd # 0 /\ g[r[i].fd].name # "failed"
  <2>1. i \in 1..(n - 2) /\ i \in 1..Len(r)
    BY <1>2, <1>3
  <2> DEFINE d == todo[i + 1].fd
  <2>2. r[i].fd = d /\ d # 0 /\ f[d].name # "failed" /\ todo[1].fd < d
    BY <1>1, <1>3, <1>4, <2>1
  <2>3. d \in 0..Len(f) /\ todo[1].fd \in 0..Len(f)
    <3>1. i + 1 \in 1..n /\ 1 \in 1..n
      BY <1>2, <2>1
    <3>2. CallOK(Len(f), todo[i + 1]) /\ CallOK(Len(f), todo[1])
      BY <1>1, <3>1
    <3> QED  BY <3>2 DEF CallOK
  <2> HIDE DEF d
  <2>4. d \in 1..Len(f) /\ d # todo[1].fd
    BY <1>2, <2>2, <2>3
  <2> QED  BY <2>2, <2>4
<1>8. ASSUME NEW i \in 1..(Len(r) - 1), NEW j \in 1..(Len(r) - 1), i < j PROVE r[i].fd < r[j].fd
  <2>1. i + 1 \in 1..(n - 1) /\ j + 1 \in 1..(n - 1) /\ i + 1 < j + 1 /\ i \in 1..Len(r) /\ j \in 1..Len(r)
    BY <1>2, <1>3, <1>8
  <2> QED  BY <1>1, <1>3, <2>1
<1>9. CopyCalls(g, r, bytes)
  BY <1>3, <1>5, <1>6, <1>7, <1>8 DEF CopyCalls
<1> QED  BY <1>9 DEF r

LEMMA CallsStay ==
  ASSUME NEW f, NEW g, NEW todo, NEW bytes, CopyCalls(f, todo, bytes), IsSeq(f), Len(g) = Len(f),
         \A i \in 1..Len(f) : g[i].name = f[i].name
  PROVE  CopyCalls(g, todo, bytes)
<1> DEFINE n == Len(todo)
<1>1. /\ IsSeq(todo) /\ n >= 1 /\ todo[n].fd = 0
      /\ \A i \in 1..n : CallOK(Len(f), todo[i]) /\ todo[i].bytes = bytes /\ ~todo[i].stdio
      /\ \A i \in 1..(n - 1) : todo[i].fd # 0 /\ f[todo[i].fd].name # "failed"
      /\ \A i, j \in 1..(n - 1) : i < j => todo[i].fd < todo[j].fd
  BY DEF CopyCalls
<1>2. n \in Nat /\ Len(f) \in Nat
  BY <1>1, SeqFacts
<1>3. ASSUME NEW i \in 1..(n - 1) PROVE g[todo[i].fd].name # "failed"
  <2>1. i \in 1..n /\ todo[i].fd # 0
    BY <1>1, <1>2
  <2>2. todo[i].fd \in 1..Len(f)
    BY <1>1, <1>2, <2>1 DEF CallOK
  <2> QED  BY <1>1, <2>2
<1> QED  BY <1>1, <1>3 DEF CopyCalls

LEMMA AdvancedPushes ==
  ASSUME NEW c, NEW s, NEW k \in Nat, LocalOK(c, s), s.at = "write"
  PROVE  LET t == Advanced(s, k) IN
         Pushed(s, t, k) /\ Same(s, t) /\ t.ret = s.ret /\ GoesOn(s, t, k) /\ LocalOK(c, t)
<1> DEFINE t == Advanced(s, k)
           call == s.todo[1]
<1>1. /\ Shape(t) /\ t.moved = s.moved + k /\ Len(t.fds) = Len(s.fds)
      /\ CallOK(Len(s.fds), call) /\ Head(s.todo) = call /\ s.todo # <<>>
      /\ \A i \in 1..Len(s.fds) \ {call.fd} : t.fds[i] = s.fds[i]
      /\ call.fd # 0 => /\ call.fd \in 1..Len(s.fds)
                        /\ t.fds[call.fd] = [s.fds[call.fd] EXCEPT !.off = @ + k]
      /\ t.at = s.at /\ t.args = s.args /\ t.in = s.in /\ t.buf = s.buf /\ t.mem = s.mem
      /\ t.obuf = s.obuf /\ t.todo = s.todo /\ t.next = s.next /\ t.ret = s.ret
  BY AdvancedFacts
<1>2. LocalOK(c, t)
  BY AdvancedOK
<1> HIDE DEF t
<1>3. IsSeq(t.fds) /\ Len(s.fds) \in Nat
  BY <1>1, SeqFacts DEF Shape, LocalOK
<1>4. ASSUME NEW i \in 1..Len(s.fds)
      PROVE  /\ t.fds[i].name = s.fds[i].name /\ t.fds[i].append = s.fds[i].append
             /\ t.fds[i].off = s.fds[i].off + IF i = call.fd THEN k ELSE 0
  <2>1. DOMAIN s.fds[i] = {"name", "off", "append"} /\ s.fds[i].off \in Nat
    BY DEF LocalOK, Handles, FdOK
  <2> HIDE DEF call
  <2>2. CASE i # call.fd
    BY <1>1, <2>1, <2>2
  <2>3. CASE i = call.fd
    <3>1. call.fd # 0
      BY <1>3, <2>3
    <3>2. t.fds[i] = [s.fds[i] EXCEPT !.off = @ + k]
      BY <1>1, <2>3, <3>1
    <3> QED  BY <2>1, <2>3, <3>2
  <2> QED  BY <2>2, <2>3
<1>5. Pushed(s, t, k)
  BY <1>1, <1>3, <1>4 DEF Pushed
<1> QED  BY <1>1, <1>2, <1>5 DEF Same, GoesOn, t

\* A call that returns, of a copier.
LEMMA CopierReturns ==
  ASSUME NEW p, NEW s, NEW w \in Int, LocalOK(Cmd(p), s), s.at = "write", s.next = "read", ~s.todo[1].stdio,
         Cmd(p).name \in {"cat", "tee"}
  PROVE  LET t == Returned(p, s, w) IN
         /\ Same(s, t)
         /\ w # -1 \/ Cmd(p).name = "cat" => t.fds = s.fds /\ t.ret = s.ret /\ Shifts(s, t)
         /\ w = -1 /\ Cmd(p).name = "tee" =>
              /\ t.ret = 1
              /\ IF s.todo[1].fd = 0 THEN t.at = "exit" /\ t.moved = 0 /\ t.fds = s.fds ELSE Dropped(s, t) /\ Shifts(s, t)
<1> DEFINE t == Returned(p, s, w)
           u == Shifted(s)
           call == s.todo[1]
<1>1. Shape(s) /\ s.todo # <<>>
  BY DEF LocalOK, Handles
<1>2. Head(s.todo) = call /\ Len(s.todo) >= 1 /\ Len(s.todo) \in Nat
  BY <1>1, TailFacts, SeqFacts DEF Shape
<1>3. CallOK(Len(s.fds), call) /\ Len(s.fds) \in Nat /\ IsSeq(s.fds)
  <2>1. 1 \in 1..Len(s.todo)
    BY <1>2
  <2> QED  BY <1>1, <2>1, SeqFacts DEF LocalOK, Handles, Shape
<1>4. /\ DOMAIN u = DOMAIN s /\ u.todo = Tail(s.todo) /\ u.moved = 0
      /\ u.at = IF Len(s.todo) = 1 THEN s.next ELSE s.at
      /\ u.next = s.next /\ u.args = s.args /\ u.in = s.in /\ u.buf = s.buf /\ u.mem = s.mem
      /\ u.fds = s.fds /\ u.obuf = s.obuf /\ u.ret = s.ret
      /\ Shape(u)
  BY <1>1, ShiftedFacts
<1>5. CASE w # -1 \/ Cmd(p).name = "cat"
  <2>1. t = u
    BY <1>2, <1>5 DEF Returned, Shifted
  <2> HIDE DEF t, u
  <2> QED  BY <1>4, <1>5, <2>1 DEF Same, Shifts, t
<1>6. CASE w = -1 /\ Cmd(p).name = "tee" /\ call.fd = 0
  <2> DEFINE v == [u EXCEPT !.todo = <<>>]
  <2>1. t = Ends(v, 1)
    BY <1>2, <1>6 DEF Returned, Shifted
  <2>2. /\ DOMAIN v = DOMAIN u /\ v.moved = u.moved /\ v.next = u.next /\ v.args = u.args /\ v.buf = u.buf
        /\ v.obuf = u.obuf /\ v.fds = u.fds
    BY <1>4 DEF Shape
  <2> HIDE DEF v, u
  <2>3. /\ Ends(v, 1).at = "exit" /\ Ends(v, 1).ret = 1 /\ Ends(v, 1).moved = v.moved /\ Ends(v, 1).next = v.next
        /\ Ends(v, 1).args = v.args /\ Ends(v, 1).buf = v.buf /\ Ends(v, 1).obuf = v.obuf /\ Ends(v, 1).fds = v.fds
    BY <1>1, <1>4, <2>2 DEF Ends, Shape
  <2> HIDE DEF t, call
  <2> QED  BY <1>4, <1>6, <2>1, <2>2, <2>3 DEF Same, t, call
<1>7. CASE w = -1 /\ Cmd(p).name = "tee" /\ call.fd # 0
  <2> DEFINE fd == [u.fds[call.fd] EXCEPT !.name = "failed"]
             fds == [u.fds EXCEPT ![call.fd] = fd]
             v == [u EXCEPT !.ret = 1, !.fds = fds]
  <2>1. t = v
    BY <1>2, <1>7 DEF Returned, Shifted
  <2>2. call.fd \in 1..Len(s.fds)
    BY <1>3, <1>7 DEF CallOK
  <2>3. IsSeq(fds) /\ Len(fds) = Len(u.fds) /\ fds[call.fd] = fd /\ \A j \in 1..Len(u.fds) \ {call.fd} : fds[j] = u.fds[j]
    <3>1. fds = [u.fds EXCEPT ![call.fd] = fd]
      OBVIOUS
    <3> HIDE DEF fd, call, u, fds
    <3>2. IsSeq(u.fds) /\ call.fd \in 1..Len(u.fds)
      BY <1>4, <2>2 DEF Shape
    <3> QED  BY <3>1, <3>2, ReplaceFacts
  <2>4. fd.name = "failed"
    <3>1. FdOK(Cmd(p), u.fds[call.fd])
      BY <1>4, <2>2 DEF LocalOK, Handles
    <3> HIDE DEF call, u
    <3> QED  BY <3>1 DEF FdOK
  <2> HIDE DEF fds, fd
  <2>5. /\ v.at = u.at /\ v.todo = u.todo /\ v.next = u.next /\ v.args = u.args /\ v.ret = 1
        /\ v.fds = fds /\ v.obuf = u.obuf /\ v.buf = u.buf /\ v.moved = u.moved
    BY <1>4 DEF Shape
  <2> HIDE DEF v, u, t
  <2>6. Dropped(s, v)
    <3>1. v.fds[call.fd].name = "failed" /\ \A i \in 1..Len(s.fds) : i # call.fd => v.fds[i] = s.fds[i]
      BY <1>4, <2>3, <2>4, <2>5
    <3> QED  BY <1>4, <1>7, <2>3, <2>5, <3>1 DEF Dropped
  <2>7. Shifts(s, v) /\ Same(s, v)
    BY <1>4, <2>5 DEF Shifts, Same
  <2> QED  BY <1>7, <2>1, <2>5, <2>6, <2>7 DEF t, call
<1> QED  BY <1>5, <1>6, <1>7

\* A write of a copier.
Pushes(p, s, t) ==
  LET fd == Fd(s, s.todo[1].fd)
      rest == SubSeq(s.todo[1].bytes, s.moved + 1, Len(s.todo[1].bytes))
  IN  \E k \in 1..Len(rest) :
        /\ Put(p, fd, SubSeq(rest, 1, k)) /\ Pushed(s, t, k) /\ Same(s, t) /\ t.ret = s.ret
        /\ \/ k < Len(rest) /\ GoesOn(s, t, k)
           \/ (k = Len(rest) \/ May("short")) /\ Shifts(s, t)

Fails(p, s, t) ==
  /\ May("write") /\ s.moved = 0 /\ UNCHANGED streams /\ Same(s, t)
  /\ \/ Cmd(p).name = "cat" /\ t.fds = s.fds /\ t.ret = s.ret /\ Shifts(s, t)
     \/ Cmd(p).name = "tee" /\ t.ret = 1 /\ Dropped(s, t) /\ Shifts(s, t)
     \/ Cmd(p).name = "tee" /\ t.ret = 1 /\ s.todo[1].fd = 0 /\ t.at = "exit" /\ t.moved = 0 /\ t.fds = s.fds

LEMMA CopierWrites ==
  ASSUME Typed, NEW p \in Proc, Passes(p), CopyOK(proc[p]), Write(p)
  PROVE  proc'[p].ret = Killed \/ Pushes(p, proc[p], proc'[p]) \/ Fails(p, proc[p], proc'[p])
<1> DEFINE c == Cmd(p)
           s == proc[p]
           call == s.todo[1]
           fd == Fd(s, call.fd)
           rest == SubSeq(call.bytes, s.moved + 1, Len(call.bytes))
<1>1. /\ LocalOK(c, s) /\ Shape(s) /\ s.at = "write" /\ s.next = "read" /\ s.moved \in Nat /\ DOMAIN proc = Proc
      /\ c.name \in {"cat", "tee"} /\ CopyCalls(s.fds, s.todo, call.bytes)
  BY PassesFacts DEF Typed, Write, At, LocalOK, Shape, CopyOK
<1>2. /\ IsSeq(rest) /\ Len(rest) \in Nat /\ CallOK(Len(s.fds), call) /\ Head(s.todo) = call
      /\ fd.off \in Nat /\ fd.name \in Outs(c) \cup {"failed", "stdout"}
      /\ \/ \E k \in 1..Len(rest) :
                /\ Put(p, fd, SubSeq(rest, 1, k))
                /\ \/ (k = Len(rest) \/ May("short")) /\ Becomes(p, Returned(p, Advanced(s, k), s.moved + k))
                   \/ k < Len(rest) /\ Becomes(p, Advanced(s, k))
         \/ May("write") /\ s.moved = 0 /\ Silent(p, Returned(p, s, -1))
         \/ Silent(p, Dies(s))
  BY WriteMoves
<1>3. ~call.stdio
  <2>1. Len(s.todo) >= 1 /\ IsSeq(s.todo)
    BY <1>1 DEF CopyCalls
  <2>2. 1 \in 1..Len(s.todo)
    <3>1. Len(s.todo) \in Nat
      BY <2>1, SeqFacts
    <3> QED  BY <2>1, <3>1
  <2> QED  BY <1>1, <2>2 DEF CopyCalls
<1>4. CASE Silent(p, Dies(s))
  BY <1>1, <1>4 DEF Silent, Becomes, Dies, Shape
<1>5. CASE May("write") /\ s.moved = 0 /\ Silent(p, Returned(p, s, -1))
  <2> DEFINE t == Returned(p, s, -1)
  <2>1. /\ Same(s, t)
        /\ -1 # -1 \/ c.name = "cat" => t.fds = s.fds /\ t.ret = s.ret /\ Shifts(s, t)
        /\ -1 = -1 /\ c.name = "tee" =>
             /\ t.ret = 1
             /\ IF s.todo[1].fd = 0 THEN t.at = "exit" /\ t.moved = 0 /\ t.fds = s.fds ELSE Dropped(s, t) /\ Shifts(s, t)
    BY <1>1, <1>3, CopierReturns
  <2>2. proc'[p] = t /\ UNCHANGED streams
    BY <1>1, <1>5 DEF Silent, Becomes
  <2> HIDE DEF t, s
  <2> QED  BY <1>1, <1>5, <2>1, <2>2 DEF Fails, s
<1>6. ASSUME NEW k \in 1..Len(rest), Put(p, fd, SubSeq(rest, 1, k)),
             \/ (k = Len(rest) \/ May("short")) /\ Becomes(p, Returned(p, Advanced(s, k), s.moved + k))
             \/ k < Len(rest) /\ Becomes(p, Advanced(s, k))
      PROVE  Pushes(p, s, proc'[p])
  <2> DEFINE u == Advanced(s, k)
             t == Returned(p, u, s.moved + k)
  <2>1. k \in Nat /\ s.moved + k \in Int /\ s.moved + k # -1
    BY <1>1, <1>2
  <2>2. Pushed(s, u, k) /\ Same(s, u) /\ u.ret = s.ret /\ GoesOn(s, u, k) /\ LocalOK(c, u)
    BY <1>1, <2>1, AdvancedPushes
  <2>3. \/ (k = Len(rest) \/ May("short")) /\ proc'[p] = t
        \/ k < Len(rest) /\ proc'[p] = u
    BY <1>1, <1>6 DEF Becomes
  <2> HIDE DEF u
  <2>4. u.at = "write" /\ u.next = "read" /\ u.todo = s.todo /\ ~u.todo[1].stdio
    BY <1>1, <1>3, <2>2 DEF GoesOn, Same
  <2>5. /\ Same(u, t)
        /\ s.moved + k # -1 \/ c.name = "cat" => t.fds = u.fds /\ t.ret = u.ret /\ Shifts(u, t)
        /\ s.moved + k = -1 /\ c.name = "tee" =>
             /\ t.ret = 1
             /\ IF u.todo[1].fd = 0 THEN t.at = "exit" /\ t.moved = 0 /\ t.fds = u.fds ELSE Dropped(u, t) /\ Shifts(u, t)
    BY <1>1, <2>1, <2>2, <2>4, CopierReturns
  <2> HIDE DEF t
  <2>6. Same(s, t) /\ Pushed(s, t, k) /\ t.ret = s.ret /\ Shifts(s, t)
    BY <2>1, <2>2, <2>4, <2>5 DEF Same, Pushed, Shifts
  <2> HIDE DEF s
  <2>7. /\ Pushed(s, proc'[p], k) /\ Same(s, proc'[p]) /\ proc'[p].ret = s.ret
        /\ \/ k < Len(rest) /\ GoesOn(s, proc'[p], k)
           \/ (k = Len(rest) \/ May("short")) /\ Shifts(s, proc'[p])
    BY <2>2, <2>3, <2>6
  <2> QED  BY <1>6, <2>7 DEF Pushes
<1> HIDE DEF rest, fd, call
<1> QED  BY <1>2, <1>4, <1>5, <1>6

\* What is written next is a call of the turn.
LEMMA CopyFacts ==
  ASSUME NEW c, NEW s, LocalOK(c, s), CopyOK(s), s.at = "write"
  PROVE  LET call == s.todo[1] IN
         /\ IsSeq(call.bytes) /\ Len(call.bytes) \in Nat /\ s.moved \in Nat /\ s.moved <= Len(call.bytes)
         /\ Len(s.todo) \in Nat /\ Len(s.todo) >= 1 /\ CallOK(Len(s.fds), call) /\ IsSeq(s.fds) /\ Len(s.fds) \in Nat
         /\ call.fd = 0 <=> Len(s.todo) = 1
         /\ call.fd # 0 => call.fd \in 1..Len(s.fds) /\ s.fds[call.fd].name # "failed"
         /\ s.todo # <<>> /\ IsSeq(s.todo) /\ IsSeq(Tail(s.todo)) /\ Len(Tail(s.todo)) = Len(s.todo) - 1
<1> DEFINE call == s.todo[1]
           n == Len(s.todo)
<1>1. /\ IsSeq(s.todo) /\ n >= 1 /\ s.todo[n].fd = 0 /\ Shape(s) /\ s.moved <= Len(call.bytes)
      /\ \A i \in 1..n : CallOK(Len(s.fds), s.todo[i]) /\ s.todo[i].bytes = call.bytes /\ ~s.todo[i].stdio
      /\ \A i \in 1..(n - 1) : s.todo[i].fd # 0 /\ s.fds[s.todo[i].fd].name # "failed"
  BY DEF CopyOK, CopyCalls, LocalOK
<1>2. n \in Nat /\ Len(s.fds) \in Nat /\ IsSeq(s.fds) /\ s.moved \in Nat /\ s.todo # <<>>
  <2>1. n \in Nat /\ Len(s.fds) \in Nat /\ IsSeq(s.fds) /\ s.moved \in Nat /\ (s.todo = <<>> => n = 0)
    BY <1>1, SeqFacts DEF Shape
  <2> QED  BY <1>1, <2>1
<1> HIDE DEF n
<1>3. 1 \in 1..n /\ (n # 1 => 1 \in 1..(n - 1))
  BY <1>1, <1>2
<1>4. CallOK(Len(s.fds), call)
  BY <1>1, <1>3
<1>5. IsSeq(call.bytes) /\ Len(call.bytes) \in Nat
  BY <1>4, SeqFacts DEF CallOK
<1>6. call.fd = 0 <=> n = 1
  BY <1>1, <1>3
<1>7. call.fd # 0 => call.fd \in 1..Len(s.fds) /\ s.fds[call.fd].name # "failed"
  <2>1. call.fd \in 0..Len(s.fds)
    BY <1>4 DEF CallOK
  <2>2. call.fd # 0 => call.fd \in 1..Len(s.fds)
    BY <1>2, <2>1
  <2> QED  BY <1>1, <1>3, <1>6, <2>2
<1>8. IsSeq(Tail(s.todo)) /\ Len(Tail(s.todo)) = n - 1
  BY <1>1, <1>2, TailFacts DEF n
<1> QED  BY <1>1, <1>2, <1>4, <1>5, <1>6, <1>7, <1>8 DEF n

LEMMA WritesCopy ==
  ASSUME NEW c, NEW s, NEW t, LocalOK(c, s), CopyOK(s), s.at = "write", Same(s, t), IsSeq(t.fds), Len(t.fds) = Len(s.fds),
         \A i \in 1..Len(s.fds) : i # s.todo[1].fd => t.fds[i].name = s.fds[i].name,
         \/ Shifts(s, t)
         \/ t.at = "exit" /\ t.moved = 0
         \/ /\ \E k \in Nat : GoesOn(s, t, k) /\ s.moved + k <= Len(s.todo[1].bytes)
            /\ \A i \in 1..Len(s.fds) : t.fds[i].name = s.fds[i].name
  PROVE  CopyOK(t)
<1> DEFINE b == s.todo[1].bytes
           n == Len(s.todo)
<1>1. s.next = "read" /\ CopyCalls(s.fds, s.todo, b) /\ s.obuf = <<>> /\ s.buf = <<>> /\ s.moved \in Nat
  BY DEF CopyOK, LocalOK, Shape
<1>2. /\ IsSeq(b) /\ Len(b) \in Nat /\ s.moved \in Nat /\ s.moved <= Len(b)
      /\ n \in Nat /\ n >= 1 /\ CallOK(Len(s.fds), s.todo[1]) /\ IsSeq(s.fds) /\ Len(s.fds) \in Nat
      /\ s.todo[1].fd = 0 <=> n = 1
      /\ s.todo[1].fd # 0 => s.todo[1].fd \in 1..Len(s.fds) /\ s.fds[s.todo[1].fd].name # "failed"
      /\ s.todo # <<>> /\ IsSeq(s.todo) /\ IsSeq(Tail(s.todo)) /\ Len(Tail(s.todo)) = n - 1
  BY CopyFacts
<1>3. t.obuf = <<>> /\ t.buf = <<>> /\ t.next = "read"
  BY <1>1 DEF Same
<1>4. CASE t.at = "exit" /\ t.moved = 0
  BY <1>3, <1>4 DEF CopyOK
<1>5. CASE Shifts(s, t) /\ n = 1
  BY <1>3, <1>5 DEF CopyOK, Shifts
<1>6. CASE Shifts(s, t) /\ n # 1
  <2>1. CopyCalls(t.fds, Tail(s.todo), b)
    <3> DEFINE f == s.fds
               g == t.fds
               todo == s.todo
    <3>1. /\ CopyCalls(f, todo, b) /\ Len(todo) # 1 /\ IsSeq(f) /\ Len(g) = Len(f)
          /\ \A i \in 1..Len(f) : i # todo[1].fd => g[i].name = f[i].name
      BY <1>1, <1>2, <1>6
    <3> HIDE DEF f, g, todo, b, n
    <3>2. CopyCalls(g, Tail(todo), b)
      BY <3>1, CallsGoOn
    <3> QED  BY <3>2 DEF g, todo
  <2> HIDE DEF b
  <2>2. t.todo = Tail(s.todo) /\ t.moved = 0 /\ t.at = "write"
    BY <1>6 DEF Shifts
  <2>4. t.todo[1].bytes = b
    BY <2>1, <2>2, CallsBytes
  <2>3. CopyCalls(t.fds, t.todo, t.todo[1].bytes)
    BY <2>1, <2>2, <2>4
  <2>5. t.moved <= Len(t.todo[1].bytes)
    <3>1. Len(b) \in Nat
      BY <1>2
    <3> QED  BY <2>2, <2>4, <3>1
  <2> QED  BY <1>3, <2>2, <2>3, <2>5 DEF CopyOK
<1>7. ASSUME NEW k \in Nat, GoesOn(s, t, k), s.moved + k <= Len(b), \A i \in 1..Len(s.fds) : t.fds[i].name = s.fds[i].name
      PROVE  CopyOK(t)
  <2>1. CopyCalls(t.fds, s.todo, b)
    BY <1>1, <1>2, <1>7, CallsStay
  <2> QED  BY <1>3, <1>7, <2>1 DEF CopyOK, GoesOn
<1> QED  BY <1>4, <1>5, <1>6, <1>7

LEMMA PushesCopy ==
  ASSUME NEW p, NEW c, NEW s, NEW t, LocalOK(c, s), CopyOK(s), s.at = "write", Pushes(p, s, t) \/ Fails(p, s, t)
  PROVE  CopyOK(t)
<1> DEFINE b == s.todo[1].bytes
           rest == SubSeq(b, s.moved + 1, Len(b))
<1>1. /\ IsSeq(b) /\ Len(b) \in Nat /\ s.moved \in Nat /\ s.moved <= Len(b)
      /\ Len(s.todo) \in Nat /\ Len(s.todo) >= 1 /\ CallOK(Len(s.fds), s.todo[1]) /\ IsSeq(s.fds) /\ Len(s.fds) \in Nat
      /\ s.todo[1].fd = 0 <=> Len(s.todo) = 1
      /\ s.todo[1].fd # 0 => s.todo[1].fd \in 1..Len(s.fds) /\ s.fds[s.todo[1].fd].name # "failed"
      /\ s.todo # <<>> /\ IsSeq(s.todo) /\ IsSeq(Tail(s.todo)) /\ Len(Tail(s.todo)) = Len(s.todo) - 1
  BY CopyFacts
<1>2. CASE Fails(p, s, t)
  <2>1. /\ Same(s, t)
        /\ t.fds = s.fds \/ Dropped(s, t)
        /\ Shifts(s, t) \/ (t.at = "exit" /\ t.moved = 0)
    BY <1>2 DEF Fails
  <2>2. /\ IsSeq(t.fds) /\ Len(t.fds) = Len(s.fds)
        /\ \A i \in 1..Len(s.fds) : i # s.todo[1].fd => t.fds[i].name = s.fds[i].name
    BY <1>1, <2>1 DEF Dropped
  <2> QED  BY <2>1, <2>2, WritesCopy
<1>3. CASE Pushes(p, s, t)
  <2>1. PICK k \in 1..Len(rest) : /\ Pushed(s, t, k) /\ Same(s, t)
                                  /\ (k < Len(rest) /\ GoesOn(s, t, k)) \/ Shifts(s, t)
    BY <1>3 DEF Pushes
  <2>2. Len(rest) = Len(b) - s.moved
    <3>1. Len(rest) = IF s.moved + 1 <= Len(b) THEN Len(b) - (s.moved + 1) + 1 ELSE 0
      BY <1>1, PartFacts
    <3> QED  BY <1>1, <3>1
  <2> HIDE DEF rest
  <2>3. k \in Nat /\ s.moved + k <= Len(b)
    BY <1>1, <2>2
  <2>4. /\ IsSeq(t.fds) /\ Len(t.fds) = Len(s.fds) /\ \A i \in 1..Len(s.fds) : t.fds[i].name = s.fds[i].name
    BY <2>1 DEF Pushed
  <2> QED  BY <2>1, <2>3, <2>4, WritesCopy
<1> QED  BY <1>2, <1>3

-------------------------------------------------------------------------------
(***************************************************************************)
(* What has been read is what has been written and what is to be written.  *)
(***************************************************************************)
Counts(p, s) == ~May("short") /\ (May("write") => Cmd(p).name = "tee" /\ s.ret = 0)
Kept(p) == Counts(p, proc[p]) => pipe[p + 1] \o InHand(proc[p]) = SubSeq(pipe[p], 1, heard[p])

LEMMA ReadKeeps ==
  ASSUME Typed, NEW p \in Proc, Passes(p), CopyOK(proc[p]), Kept(p), Read(p)
  PROVE  CopyOK(proc'[p]) /\ Kept(p)'
<1> DEFINE s == proc[p]
           h == heard[p]
           d == pipe[p]
           e == pipe[p + 1]
<1>1. PICK k \in 1..(Len(d) - h) :
           /\ heard'[p] = h + k /\ UNCHANGED <<pipe, file, ended>>
           /\ Takes(s, proc'[p], SubSeq(d, h + 1, h + k))
  BY CopierReads
<1> DEFINE bytes == SubSeq(d, h + 1, h + k)
<1>2. /\ LocalOK(Cmd(p), s) /\ s.at # "write" /\ IsSeq(d) /\ IsSeq(e) /\ Len(d) \in Nat /\ h \in Nat /\ h <= Len(d)
      /\ setting' = setting
  <2>1. IsSeq(d) /\ IsSeq(e) /\ h \in 0..Len(d)
    BY ProcIs DEF Typed, StreamsOK
  <2> QED  BY <2>1, SeqFacts DEF Typed, Read, At, Becomes
<1>3. DOMAIN proc' = Proc
  BY DEF Read, Becomes, Typed
<1> DEFINE t == proc'[p]
<1>4. LocalOK(Cmd(p), t)
  <2>1. Typed'
    BY StepSteps, StepsTyped DEF Step
  <2>2. p \in Proc' /\ Cmd(p)' = Cmd(p)
    <3>1. Elsewhere(p)
      BY StepSteps, StepsTyped DEF Step
    <3> QED  BY <1>2, <3>1 DEF Elsewhere, Proc, Cmd
  <2> QED  BY <2>1, <2>2 DEF Typed
<1>5. CopyOK(t) /\ t.at = "write" /\ t.moved = 0 /\ t.todo[1].bytes = bytes /\ t.ret = s.ret
  BY <1>1 DEF Takes
<1>6. InHand(s) = <<>>
  BY <1>2, InHandIs
<1>7. IsSeq(bytes) /\ Len(bytes) \in Nat
  <2>1. h + 1 \in Int /\ h + k \in Int
    BY <1>2
  <2>2. IsSeq(bytes)
    BY <2>1, PartIsSeq
  <2> HIDE DEF bytes
  <2> QED  BY <2>2, SeqFacts
<1>8. InHand(t) = bytes
  <2> HIDE DEF t, bytes
  <2>1. InHand(t) = IF Len(t.todo) = 1 THEN SubSeq(bytes, 0 + 1, Len(bytes)) ELSE bytes
    BY <1>4, <1>5, InHandIs
  <2>2. SubSeq(bytes, 1, Len(bytes)) = bytes /\ 0 + 1 = 1
    BY <1>7, WholePart
  <2> QED  BY <2>1, <2>2
<1>9. SubSeq(d, 1, h) \o bytes = SubSeq(d, 1, h + k)
  <2>1. 1 \in Nat /\ h \in Nat /\ h + k \in Nat /\ 1 <= 1 /\ 1 <= h + 1 /\ h <= h + k
    BY <1>2
  <2> HIDE DEF d, h
  <2> QED  BY <1>2, <2>1, PartsJoin
<1>10. Counts(p, s) => e \o bytes = SubSeq(d, 1, h + k)
  <2> SUFFICES ASSUME Counts(p, s) PROVE e \o bytes = SubSeq(d, 1, h + k)
    OBVIOUS
  <2>1. e \o <<>> = SubSeq(d, 1, h)
    BY <1>6 DEF Kept
  <2>2. e \o <<>> = e
    BY <1>2, NothingJoins
  <2> HIDE DEF bytes, d, e, h
  <2> QED  BY <1>9, <2>1, <2>2
<1>11. Counts(p, s)' <=> Counts(p, t)
  BY <1>2 DEF Counts, May, Cmd
<1>12. Kept(p)'
  <2> SUFFICES ASSUME Counts(p, proc[p])' PROVE (pipe[p + 1] \o InHand(proc[p]) = SubSeq(pipe[p], 1, heard[p]))'
    BY DEF Kept
  <2>1. Counts(p, t)
    BY <1>2 DEF Counts, May, Cmd
  <2>2. Counts(p, s)
    BY <1>5, <2>1 DEF Counts
  <2>3. InHand(proc[p])' = InHand(t)
    BY DEF InHand
  <2>4. pipe' = pipe /\ heard'[p] = h + k
    BY <1>1
  <2> HIDE DEF bytes, t, s
  <2> QED  BY <1>8, <1>10, <2>2, <2>3, <2>4
<1> QED  BY <1>5, <1>12

\* In a step of p, p is typed before and behind.
LEMMA AfterStep ==
  ASSUME Typed, NEW p \in Proc, Step(p)
  PROVE  /\ LocalOK(Cmd(p), proc'[p]) /\ Elsewhere(p) /\ setting' = setting
         /\ Proc' = Proc /\ \A q \in Proc : q # p => proc'[q] = proc[q]
<1>1. Typed' /\ Elsewhere(p)
  BY StepSteps, StepsTyped
<1>2. PICK s : /\ \A q \in Proc : proc'[q] = IF q = p THEN s ELSE proc[q]
               /\ UNCHANGED <<setting, meant>>
               /\ LocalOK(Cmd(p), s)
  BY StepSteps DEF Steps
<1>3. Proc' = Proc
  BY <1>1 DEF Elsewhere, Proc
<1> QED  BY <1>1, <1>2, <1>3

\* What the hand gives to the pipe.
LEMMA HandGives ==
  ASSUME NEW b, NEW m \in Nat, IsSeq(b), m <= Len(b), NEW k \in 1..Len(SubSeq(b, m + 1, Len(b)))
  PROVE  /\ SubSeq(SubSeq(b, m + 1, Len(b)), 1, k) \o SubSeq(b, m + k + 1, Len(b)) = SubSeq(b, m + 1, Len(b))
         /\ k = Len(SubSeq(b, m + 1, Len(b))) => SubSeq(SubSeq(b, m + 1, Len(b)), 1, k) = SubSeq(b, m + 1, Len(b))
         /\ IsSeq(SubSeq(SubSeq(b, m + 1, Len(b)), 1, k)) /\ IsSeq(SubSeq(b, m + k + 1, Len(b)))
<1> DEFINE n == Len(b)
           rest == SubSeq(b, m + 1, n)
           x == SubSeq(rest, 1, k)
           y == SubSeq(b, m + k + 1, n)
<1>1. n \in Nat
  BY SeqFacts
<1> HIDE DEF n
<1>2. IsSeq(rest) /\ Len(rest) = n - m
  <2>1. m + 1 \in Int /\ n \in Int
    BY <1>1
  <2>2. IsSeq(rest)
    BY <2>1, PartFacts
  <2>3. Len(rest) = IF m + 1 <= n THEN n - (m + 1) + 1 ELSE 0
    BY <2>1, PartFacts
  <2>4. m <= n
    BY DEF n
  <2> HIDE DEF rest
  <2> QED  BY <1>1, <2>2, <2>3, <2>4
<1>3. k \in Nat /\ k >= 1 /\ m + k <= n
  <2>1. k \in 1..Len(rest)
    BY DEF n
  <2> HIDE DEF rest
  <2> QED  BY <1>1, <1>2, <2>1
<1>4. x = SubSeq(b, m + 1, m + k)
  <2>1. m + 1 \in Nat \ {0} /\ (m + 1) + k - 1 <= n /\ (m + 1) + k - 1 = m + k
    BY <1>1, <1>3
  <2>2. SubSeq(SubSeq(b, m + 1, n), 1, k) = SubSeq(b, m + 1, (m + 1) + k - 1)
    BY <1>1, <1>3, <2>1, PartOfPart
  <2> QED  BY <2>1, <2>2
<1>5. SubSeq(b, m + 1, m + k) \o SubSeq(b, m + k + 1, n) = SubSeq(b, m + 1, n)
  <2> DEFINE a == m + 1
             e == m + k
  <2>1. a \in Nat /\ e \in Nat /\ 1 <= a /\ a <= e + 1 /\ e <= n
    BY <1>1, <1>3
  <2> HIDE DEF a, e
  <2>2. SubSeq(b, a, e) \o SubSeq(b, e + 1, n) = SubSeq(b, a, n)
    BY <1>1, <2>1, PartsJoin
  <2> QED  BY <2>2 DEF a, e
<1>6. k = Len(rest) => x = rest
  BY <1>2, WholePart
<1>7. IsSeq(x) /\ IsSeq(y)
  <2>1. m + k + 1 \in Int /\ n \in Int /\ k \in Int
    BY <1>1, <1>3
  <2> QED  BY <2>1, PartFacts
<1>8. x \o y = rest
  BY <1>4, <1>5
<1> HIDE DEF x, y, rest
<1>9. x \o y = rest /\ (k = Len(rest) => x = rest) /\ IsSeq(x) /\ IsSeq(y)
  BY <1>6, <1>7, <1>8
<1> QED  BY <1>9 DEF x, y, rest, n

LEMMA PushKeepsHand ==
  ASSUME NEW p, NEW c, NEW s, NEW t, LocalOK(c, s), LocalOK(c, t), CopyOK(s), CopyOK(t), s.at = "write", ~May("short"),
         NEW k \in 1..Len(SubSeq(s.todo[1].bytes, s.moved + 1, Len(s.todo[1].bytes))),
         \/ GoesOn(s, t, k)
         \/ k = Len(SubSeq(s.todo[1].bytes, s.moved + 1, Len(s.todo[1].bytes))) /\ Shifts(s, t)
  PROVE  LET rest == SubSeq(s.todo[1].bytes, s.moved + 1, Len(s.todo[1].bytes)) IN
         /\ s.todo[1].fd = 0 => SubSeq(rest, 1, k) \o InHand(t) = InHand(s) /\ IsSeq(InHand(t))
         /\ s.todo[1].fd # 0 => InHand(t) = InHand(s)
<1> DEFINE b == s.todo[1].bytes
           n == Len(s.todo)
           m == s.moved
           rest == SubSeq(b, m + 1, Len(b))
           x == SubSeq(rest, 1, k)
           y == SubSeq(b, m + k + 1, Len(b))
<1>1. /\ IsSeq(b) /\ Len(b) \in Nat /\ m \in Nat /\ m <= Len(b)
      /\ n \in Nat /\ n >= 1 /\ CallOK(Len(s.fds), s.todo[1]) /\ IsSeq(s.fds) /\ Len(s.fds) \in Nat
      /\ s.todo[1].fd = 0 <=> n = 1
      /\ s.todo[1].fd # 0 => s.todo[1].fd \in 1..Len(s.fds) /\ s.fds[s.todo[1].fd].name # "failed"
      /\ s.todo # <<>> /\ IsSeq(s.todo) /\ IsSeq(Tail(s.todo)) /\ Len(Tail(s.todo)) = n - 1
  BY CopyFacts
<1>2. x \o y = rest /\ (k = Len(rest) => x = rest) /\ IsSeq(x) /\ IsSeq(y)
  <2> HIDE DEF b, m
  <2>1. k \in 1..Len(SubSeq(b, m + 1, Len(b)))
    BY DEF b, m
  <2> QED  BY <1>1, <2>1, HandGives
<1>3. InHand(s) = IF n = 1 THEN rest ELSE b
  BY InHandIs
<1>4. /\ t.at # "write" => InHand(t) = <<>>
      /\ t.at = "write" => LET bytes == t.todo[1].bytes IN
                           InHand(t) = IF Len(t.todo) = 1 THEN SubSeq(bytes, t.moved + 1, Len(bytes)) ELSE bytes
  BY InHandIs
<1>5. CASE GoesOn(s, t, k)
  <2>1. t.at = "write" /\ t.todo = s.todo /\ t.moved = m + k
    BY <1>5 DEF GoesOn
  <2>2. InHand(t) = IF n = 1 THEN y ELSE b
    BY <1>4, <2>1
  <2> HIDE DEF x, y, rest, n, b, m
  <2> QED  BY <1>1, <1>2, <1>3, <2>2 DEF x, rest, b, m
<1>6. CASE k = Len(rest) /\ Shifts(s, t) /\ n = 1
  <2>1. InHand(t) = <<>>
    BY <1>4, <1>6 DEF Shifts
  <2>2. x = rest /\ x \o <<>> = x /\ IsSeq(<<>>)
    BY <1>2, <1>6, NothingJoins, EmptyIsSeq
  <2> HIDE DEF x, y, rest, n, b, m
  <2> QED  BY <1>1, <1>3, <1>6, <2>1, <2>2 DEF x, rest, b, m
<1>7. CASE k = Len(rest) /\ Shifts(s, t) /\ n # 1
  <2>1. t.at = "write" /\ t.todo = Tail(s.todo) /\ t.moved = 0
    BY <1>7 DEF Shifts
  <2>2. t.todo[1].bytes = b
    <3>0. 2 \in 1..n /\ 1 \in 1..(n - 1) /\ 1 + 1 = 2
      <4>1. n \in Nat /\ n >= 1 /\ n # 1
        BY <1>1, <1>7
      <4> HIDE DEF n
      <4> QED  BY <4>1
    <3>1. Tail(s.todo)[1] = s.todo[2]
      <4>1. \A i \in 1..Len(Tail(s.todo)) : Tail(s.todo)[i] = s.todo[i + 1]
        BY <1>1, TailFacts
      <4> QED  BY <1>1, <3>0, <4>1
    <3>2. s.todo[2].bytes = b
      BY <3>0 DEF CopyOK, CopyCalls
    <3> QED  BY <2>1, <3>1, <3>2
  <2>3. InHand(t) = b
    <3>1. SubSeq(b, 1, Len(b)) = b /\ 0 + 1 = 1
      BY <1>1, WholePart
    <3> HIDE DEF b
    <3> QED  BY <1>4, <2>1, <2>2, <3>1
  <2> HIDE DEF x, y, rest, n, b, m
  <2> QED  BY <1>1, <1>3, <1>7, <2>3 DEF x, rest, b, m
<1> QED  BY <1>5, <1>6, <1>7

LEMMA WriteKeeps ==
  ASSUME Typed, NEW p \in Proc, Passes(p), CopyOK(proc[p]), Kept(p), Write(p), proc'[p].ret # Killed
  PROVE  CopyOK(proc'[p]) /\ Kept(p)'
<1> DEFINE c == Cmd(p)
           s == proc[p]
           t == proc'[p]
           call == s.todo[1]
           fd == Fd(s, call.fd)
           rest == SubSeq(call.bytes, s.moved + 1, Len(call.bytes))
           d == pipe[p]
           e == pipe[p + 1]
           h == heard[p]
<1>1. /\ LocalOK(c, s) /\ LocalOK(c, t) /\ s.at = "write" /\ setting' = setting /\ c.name \in {"cat", "tee"}
      /\ p + 1 \in DOMAIN pipe /\ p # p + 1 /\ IsSeq(e)
  <2>1. LocalOK(c, t) /\ setting' = setting
    BY AfterStep DEF Step
  <2>2. p \in 1..N /\ p + 1 \in 1..(N + 1) /\ N \in Nat
    BY ProcIs DEF Typed
  <2> QED  BY <2>1, <2>2, PassesFacts DEF Typed, StreamsOK, Write, At
<1>2. Pushes(p, s, t) \/ Fails(p, s, t)
  BY CopierWrites
<1>3. CopyOK(t)
  BY <1>1, <1>2, PushesCopy
<1>4. Kept(p)'
  <2> SUFFICES ASSUME Counts(p, proc[p])' PROVE (pipe[p + 1] \o InHand(proc[p]) = SubSeq(pipe[p], 1, heard[p]))'
    BY DEF Kept
  <2>1. Counts(p, t)
    BY <1>1 DEF Counts, May, Cmd
  <2>2. InHand(proc[p])' = InHand(t)
    BY DEF InHand
  <2>3. ~Fails(p, s, t)
    BY <2>1 DEF Fails, Counts
  <2>4. PICK k \in 1..Len(rest) :
          /\ Put(p, fd, SubSeq(rest, 1, k)) /\ t.ret = s.ret
          /\ \/ GoesOn(s, t, k)
             \/ (k = Len(rest) \/ May("short")) /\ Shifts(s, t)
    BY <1>2, <2>3 DEF Pushes
  <2>5. ~May("short") /\ Counts(p, s)
    BY <2>1, <2>4 DEF Counts
  <2>6. e \o InHand(s) = SubSeq(d, 1, h)
    BY <2>5 DEF Kept
  <2>7. /\ s.todo[1].fd = 0 => SubSeq(rest, 1, k) \o InHand(t) = InHand(s) /\ IsSeq(InHand(t))
        /\ s.todo[1].fd # 0 => InHand(t) = InHand(s)
    <3> HIDE DEF s, t, c
    <3>1. GoesOn(s, t, k) \/ (k = Len(rest) /\ Shifts(s, t))
      BY <2>4, <2>5
    <3> QED  BY <1>1, <1>3, <2>4, <2>5, <3>1, PushKeepsHand DEF s
  <2>8. heard' = heard
    BY <2>4 DEF Put
  <2> DEFINE x == SubSeq(rest, 1, k)
             i == InHand(t)
             j == InHand(s)
  <2>9. CASE call.fd = 0
    <3>1. fd.name = "stdout"
      BY <2>9 DEF Fd, Stdout
    <3>2. pipe' = [pipe EXCEPT ![p + 1] = e \o x]
      BY <2>4, <3>1 DEF Put
    <3>3. pipe'[p + 1] = e \o x /\ pipe'[p] = d
      <4> DEFINE z == e \o x
      <4>1. pipe' = [pipe EXCEPT ![p + 1] = z]
        BY <3>2
      <4> HIDE DEF z
      <4>2. pipe'[p + 1] = z /\ pipe'[p] = pipe[p]
        BY <1>1, <4>1
      <4> QED  BY <4>2 DEF z
    <3>4. IsSeq(x) /\ IsSeq(i) /\ x \o i = j
      <4>1. k \in Int
        OBVIOUS
      <4>2. IsSeq(x)
        BY <4>1, PartIsSeq
      <4> QED  BY <2>7, <2>9, <4>2
    <3> HIDE DEF x, i, j, d, e, h, rest, fd, call, t, s
    <3>5. (e \o x) \o i = SubSeq(d, 1, h)
      <4>1. (e \o x) \o i = e \o (x \o i)
        <5>1. IsSeq(e) /\ IsSeq(x) /\ IsSeq(i)
          BY <1>1, <3>4
        <5> QED  BY <5>1, JoinsAgain
      <4>2. e \o j = SubSeq(d, 1, h)
        BY <2>6 DEF j
      <4> QED  BY <3>4, <4>1, <4>2
    <3> QED  BY <2>2, <2>8, <3>3, <3>5 DEF i, h
  <2>10. CASE call.fd # 0
    <3>1. fd.name # "stdout"
      <4>1. call.fd \in 1..Len(s.fds)
        BY <1>1, <2>10, CopyFacts
      <4>2. FdOK(c, s.fds[call.fd])
        BY <1>1, <4>1 DEF LocalOK, Handles
      <4> QED  BY <1>1, <2>10, <4>2 DEF Fd, FdOK
    <3>2. pipe' = pipe
      BY <2>4, <3>1 DEF Put
    <3>3. i = j
      BY <2>7, <2>10
    <3> HIDE DEF x, i, j, d, e, h, rest, fd, call, t, s
    <3> QED  BY <2>2, <2>6, <2>8, <3>2, <3>3 DEF i, j, d, e, h
  <2> QED  BY <2>9, <2>10
<1> QED  BY <1>3, <1>4

CopyInv ==
  /\ Typed
  /\ \A p \in Proc : Passes(p) /\ proc[p].ret # Killed => CopyOK(proc[p]) /\ Kept(p)

LEMMA CopyInit == Init => CopyInv
<1> SUFFICES ASSUME Init PROVE CopyInv
  OBVIOUS
<1>1. Typed
  BY TypedInit
<1>2. ASSUME NEW p \in Proc PROVE CopyOK(proc[p]) /\ Kept(p)
  <2>1. proc[p] = Idle /\ heard[p] = 0
    BY DEF Init, Proc
  <2>2. pipe[p + 1] = <<>> /\ IsSeq(<<>>)
    <3>1. p \in 1..N /\ p + 1 \in 1..(N + 1) /\ N \in Nat
      BY <1>1, ProcIs DEF Typed
    <3>2. p + 1 # 1 /\ Len(setting.cmds) = N
      BY <1>1, <3>1 DEF Typed
    <3> QED  BY <3>1, <3>2, EmptyIsSeq DEF Init
  <2>3. Idle.at = "start" /\ Idle.obuf = <<>> /\ Idle.buf = <<>> /\ Idle.moved = 0
    BY DEF Idle
  <2>4. CopyOK(Idle) /\ LocalOK(Cmd(p), Idle)
    BY <1>1, <2>1, <2>3 DEF CopyOK, Typed
  <2>5. InHand(Idle) = <<>>
    BY <2>3, <2>4, InHandIs
  <2>6. <<>> \o <<>> = <<>> /\ SubSeq(pipe[p], 1, 0) = <<>>
    BY <2>2, NothingJoins, NoPart
  <2> HIDE DEF Idle
  <2> QED  BY <2>1, <2>2, <2>4, <2>5, <2>6 DEF Kept
<1> QED  BY <1>1, <1>2 DEF CopyInv

LEMMA RestKeeps ==
  ASSUME Typed, NEW p \in Proc, Passes(p), CopyOK(proc[p]), Kept(p), Step(p), ~Read(p), ~Write(p), proc'[p].ret # Killed
  PROVE  CopyOK(proc'[p]) /\ Kept(p)'
<1> DEFINE s == proc[p]
           t == proc'[p]
<1>1. CopyOK(t) /\ t.at # "write" /\ t.ret \in {s.ret, 1} /\ UNCHANGED <<pipe, heard>>
  BY CopierRests DEF CopyRests
<1>2. s.at # "write"
  BY DEF Step, Begin, OpenInput, OpenOutput, OpenDd, SeekDd, Finish, ReadEnds, Yes, Pour, NextChunk, Round,
         PrintReport, Exit, At
<1>3. LocalOK(Cmd(p), s) /\ LocalOK(Cmd(p), t) /\ setting' = setting
  BY AfterStep DEF Typed
<1>4. InHand(s) = <<>> /\ InHand(t) = <<>>
  BY <1>1, <1>2, <1>3, InHandIs
<1>5. Kept(p)'
  <2> SUFFICES ASSUME Counts(p, proc[p])' PROVE (pipe[p + 1] \o InHand(proc[p]) = SubSeq(pipe[p], 1, heard[p]))'
    BY DEF Kept
  <2>1. Counts(p, t)
    BY <1>3 DEF Counts, May, Cmd
  <2>2. InHand(proc[p])' = InHand(t)
    BY DEF InHand
  <2>3. Counts(p, s)
    BY <1>1, <2>1 DEF Counts
  <2> HIDE DEF s, t
  <2> QED  BY <1>1, <1>4, <2>2, <2>3 DEF Kept, s
<1> QED  BY <1>1, <1>5

\* The steps of the others leave it alone.
LEMMA OthersKeep ==
  ASSUME Typed, NEW q \in Proc, Elsewhere(q), NEW p \in Proc, q # p, proc'[p] = proc[p], setting' = setting, Kept(p)
  PROVE  Kept(p)'
<1> DEFINE s == proc[p]
           d == pipe[p]
           h == heard[p]
<1>1. p \in 1..N /\ p + 1 \in 1..(N + 1) /\ p \in 1..(N + 1) /\ q \in 1..N /\ p + 1 # q + 1
  BY ProcIs DEF Typed
<1>2. pipe'[p + 1] = pipe[p + 1] /\ heard'[p] = h
  BY <1>1 DEF Elsewhere
<1>3. SubSeq(pipe'[p], 1, h) = SubSeq(d, 1, h)
  <2>1. CASE p # q + 1
    BY <1>1, <2>1 DEF Elsewhere
  <2>2. CASE p = q + 1
    <3>1. PICK x : IsSeq(x) /\ pipe'[p] = d \o x
      BY <2>2 DEF Elsewhere
    <3>2. IsSeq(d) /\ h \in 0..Len(d)
      BY <1>1 DEF Typed, StreamsOK
    <3> HIDE DEF d, h
    <3>3. SubSeq(d \o x, 1, h) = SubSeq(d, 1, h)
      BY <3>1, <3>2, PrefixStays
    <3> QED  BY <3>1, <3>3
  <2> QED  BY <2>1, <2>2
<1>4. Counts(p, proc[p])' <=> Counts(p, s)
  BY DEF Counts, May, Cmd
<1>5. InHand(proc[p])' = InHand(s)
  BY DEF InHand
<1> SUFFICES ASSUME Counts(p, proc[p])' PROVE (pipe[p + 1] \o InHand(proc[p]) = SubSeq(pipe[p], 1, heard[p]))'
  BY DEF Kept
<1>6. pipe[p + 1] \o InHand(s) = SubSeq(d, 1, h)
  BY <1>4 DEF Kept
<1> HIDE DEF s, d, h
<1> QED  BY <1>2, <1>3, <1>5, <1>6

LEMMA CopyNext == ASSUME CopyInv, [Next]_vars PROVE CopyInv'
<1>1. Typed /\ Typed'
  BY TypedNext DEF CopyInv
<1>2. CASE UNCHANGED vars
  <2>1. ASSUME NEW q \in Proc PROVE Passes(q)' = Passes(q) /\ Kept(q)' = Kept(q) /\ proc'[q] = proc[q]
    BY <1>2 DEF vars, streams, Passes, Copies, Shows, Cmd, Kept, Counts, May, InHand
  <2>2. Proc' = Proc
    BY <1>2 DEF vars, streams, Proc
  <2> QED  BY <1>1, <2>1, <2>2 DEF CopyInv
<1>3. ASSUME NEW q \in Proc, Step(q) PROVE CopyInv'
  <2>1. /\ LocalOK(Cmd(q), proc'[q]) /\ Elsewhere(q) /\ setting' = setting
        /\ Proc' = Proc /\ \A p \in Proc : p # q => proc'[p] = proc[p]
    BY <1>1, <1>3, AfterStep
  <2>2. ASSUME NEW p \in Proc, Passes(p), proc'[p].ret # Killed PROVE CopyOK(proc'[p]) /\ Kept(p)'
    <3>1. CASE p # q
      <4>1. proc'[p] = proc[p]
        BY <2>1, <3>1
      <4>2. CopyOK(proc[p]) /\ Kept(p)
        BY <2>2, <4>1 DEF CopyInv
      <4> QED  BY <1>1, <2>1, <3>1, <4>1, <4>2, OthersKeep
    <3>2. CASE p = q
      <4>1. proc[p].ret # Killed
        BY <1>1, <1>3, <2>2, <3>2, KilledStays
      <4>2. CopyOK(proc[p]) /\ Kept(p)
        BY <2>2, <4>1 DEF CopyInv
      <4>3. CASE Read(p)
        BY <1>1, <2>2, <4>2, <4>3, ReadKeeps
      <4>4. CASE Write(p)
        BY <1>1, <2>2, <4>2, <4>4, WriteKeeps
      <4>5. CASE ~Read(p) /\ ~Write(p)
        BY <1>1, <1>3, <2>2, <3>2, <4>2, <4>5, RestKeeps
      <4> QED  BY <4>3, <4>4, <4>5
    <3> QED  BY <3>1, <3>2
  <2>3. \A p \in Proc : Passes(p)' = Passes(p)
    BY <2>1 DEF Passes, Copies, Shows, Cmd
  <2> QED  BY <1>1, <2>1, <2>2, <2>3 DEF CopyInv
<1>4. CASE Interrupt
  <2>1. Proc' = Proc /\ UNCHANGED streams /\ setting' = setting
    BY <1>4 DEF Interrupt, streams, Proc
  <2>2. ASSUME NEW p \in Proc, Passes(p), proc'[p].ret # Killed PROVE CopyOK(proc'[p]) /\ Kept(p)'
    <3>1. proc'[p] = proc[p] \/ proc'[p] = Dies(proc[p])
      BY <1>4 DEF Interrupt
    <3>2. Dies(proc[p]).ret = Killed
      BY <1>1, DiesRest DEF Typed, LocalOK
    <3>3. proc'[p] = proc[p]
      BY <2>2, <3>1, <3>2
    <3>4. CopyOK(proc[p]) /\ Kept(p)
      BY <2>2, <3>3 DEF CopyInv
    <3>5. Kept(p)' = Kept(p)
      BY <2>1, <3>3 DEF streams, Kept, Counts, May, InHand, Cmd
    <3> QED  BY <3>3, <3>4, <3>5
  <2>3. \A p \in Proc : Passes(p)' = Passes(p)
    BY <2>1 DEF Passes, Copies, Shows, Cmd
  <2> QED  BY <1>1, <2>1, <2>2, <2>3 DEF CopyInv
<1> QED  BY <1>2, <1>3, <1>4 DEF Next, Done

\* Conserved for every pipeline, every input, every size of the buffers and pipes, and
\* every interleaving, interrupts and refused calls included: cat (cat.c:63) and tee
\* (tee.c:58) pass on what they read, each byte once and in its place.
THEOREM BytesAreConserved == Spec => []Conserved
<1>1. CopyInv => Conserved
  <2> SUFFICES ASSUME CopyInv, NEW p \in Proc, Passes(p), proc[p].ret # Killed, ~May("write"), ~May("short")
               PROVE  pipe[p + 1] \o Held(p) = SubSeq(pipe[p], 1, heard[p])
    BY DEF Conserved
  <2>1. Kept(p) /\ Counts(p, proc[p])
    BY DEF CopyInv, Counts
  <2>2. Held(p) = InHand(proc[p])
    BY DEF Held, InHand
  <2> QED  BY <2>1, <2>2 DEF Kept
<1> QED  BY <1>1, CopyInit, CopyNext, PTL DEF Spec

-------------------------------------------------------------------------------
-------------------------------------------------------------------------------
(***************************************************************************)
(* TeeReachesAll.  More on parts of sequences, and on files that are       *)
(* written to piece by piece.                                              *)
(***************************************************************************)
LEMMA PartWithin ==
  ASSUME NEW s, NEW a \in Nat \ {0}, NEW d \in Nat, NEW i \in Nat \ {0}, NEW j \in Nat, a + j - 1 <= d
  PROVE  SubSeq(SubSeq(s, a, d), i, j) = SubSeq(s, a + i - 1, a + j - 1)
<1> DEFINE x == SubSeq(s, a, d)
           y == SubSeq(x, i, j)
           z == SubSeq(s, a + i - 1, a + j - 1)
<1>1. \A k \in 1..(d - a + 1) : x[k] = s[a + k - 1]
  BY PartFacts
<1> HIDE DEF x
<1>2. IsSeq(y) /\ Len(y) = (IF i <= j THEN j - i + 1 ELSE 0) /\ \A k \in 1..(j - i + 1) : y[k] = x[i + k - 1]
  BY PartFacts
<1>3. /\ IsSeq(z) /\ Len(z) = (IF a + i - 1 <= a + j - 1 THEN a + j - 1 - (a + i - 1) + 1 ELSE 0)
      /\ \A k \in 1..(a + j - 1 - (a + i - 1) + 1) : z[k] = s[a + i - 1 + k - 1]
  <2>1. a + i - 1 \in Int /\ a + j - 1 \in Int
    OBVIOUS
  <2> QED  BY <2>1, PartFacts
<1> HIDE DEF y, z
<1>4. Len(y) = Len(z) /\ (i <= j => Len(y) = j - i + 1) /\ (i > j => Len(y) = 0)
  BY <1>2, <1>3
<1>5. ASSUME NEW k \in 1..Len(y) PROVE y[k] = z[k]
  <2>1. /\ k \in 1..(j - i + 1) /\ k \in 1..(a + j - 1 - (a + i - 1) + 1) /\ i + k - 1 \in 1..(d - a + 1)
        /\ a + (i + k - 1) - 1 = a + i - 1 + k - 1
    BY <1>4
  <2> QED  BY <1>1, <1>2, <1>3, <2>1
<1>6. y = z
  BY <1>2, <1>3, <1>4, <1>5, SeqsEqual
<1> QED  BY <1>6 DEF x, y, z

\* What has been joined is the end.
LEMMA EndOfJoin ==
  ASSUME NEW s, NEW x, IsSeq(s), IsSeq(x)
  PROVE  SubSeq(s \o x, Len(s \o x) - Len(x) + 1, Len(s \o x)) = x
<1> DEFINE r == s \o x
           y == SubSeq(r, Len(r) - Len(x) + 1, Len(r))
<1>1. Len(s) \in Nat /\ Len(x) \in Nat
  BY SeqFacts
<1>2. Len(r) = Len(s) + Len(x) /\ \A i \in 1..Len(x) : r[Len(s) + i] = x[i]
  BY JoinFacts
<1> HIDE DEF r
<1>3. Len(r) - Len(x) + 1 \in Int /\ Len(r) \in Int
  BY <1>1, <1>2
<1>4. /\ IsSeq(y) /\ Len(y) = (IF Len(r) - Len(x) + 1 <= Len(r) THEN Len(r) - (Len(r) - Len(x) + 1) + 1 ELSE 0)
      /\ \A i \in 1..(Len(r) - (Len(r) - Len(x) + 1) + 1) : y[i] = r[Len(r) - Len(x) + 1 + i - 1]
  BY <1>3, PartFacts
<1> HIDE DEF y
<1>5. Len(y) = Len(x)
  BY <1>1, <1>2, <1>4
<1>6. ASSUME NEW i \in 1..Len(y) PROVE y[i] = x[i]
  <2>1. i \in 1..(Len(r) - (Len(r) - Len(x) + 1) + 1) /\ Len(r) - Len(x) + 1 + i - 1 = Len(s) + i /\ i \in 1..Len(x)
    BY <1>1, <1>2, <1>5
  <2> QED  BY <1>2, <1>4, <2>1
<1>7. y = x
  BY <1>4, <1>5, <1>6, SeqsEqual
<1> QED  BY <1>7 DEF y, r

\* A file with the beginning of T, of which some more is written where it belongs.
LEMMA PatchGrows ==
  ASSUME NEW T, IsSeq(T), NEW m \in Nat, NEW off \in Nat, NEW k \in Nat, off <= m, m <= Len(T), off + k <= Len(T)
  PROVE  LET r == Patched(SubSeq(T, 1, m), off, SubSeq(T, off + 1, off + k)) IN
         r = SubSeq(T, 1, Len(r)) /\ Len(r) \in Nat /\ Len(r) >= m /\ Len(r) >= off + k /\ Len(r) <= Len(T) /\ IsSeq(r)
<1> DEFINE old == SubSeq(T, 1, m)
           x == SubSeq(T, off + 1, off + k)
           r == Patched(old, off, x)
           z == SubSeq(T, 1, Len(r))
<1>0. Len(T) \in Nat
  BY SeqFacts
<1>1. IsSeq(old) /\ Len(old) = (IF 1 <= m THEN m - 1 + 1 ELSE 0) /\ \A i \in 1..(m - 1 + 1) : old[i] = T[1 + i - 1]
  BY PartFacts
<1>2. /\ IsSeq(x) /\ Len(x) = (IF off + 1 <= off + k THEN off + k - (off + 1) + 1 ELSE 0)
      /\ \A i \in 1..(off + k - (off + 1) + 1) : x[i] = T[off + 1 + i - 1]
  <2>1. off + 1 \in Int /\ off + k \in Int
    OBVIOUS
  <2> QED  BY <2>1, PartFacts
<1> HIDE DEF old, x
<1>3. Len(old) = m /\ Len(x) = k
  BY <1>1, <1>2
<1>4. /\ IsSeq(r) /\ Len(r) = IF Len(old) > off + Len(x) THEN Len(old) ELSE off + Len(x)
      /\ \A i \in 1..Len(r) : r[i] = IF i > off /\ i <= off + Len(x) THEN x[i - off]
                                     ELSE IF i > Len(old) THEN 0 ELSE old[i]
  BY <1>1, <1>2, PatchedFacts
<1> HIDE DEF r
<1>5. Len(r) \in Nat /\ Len(r) >= m /\ Len(r) >= off + k /\ Len(r) <= Len(T) /\ (Len(r) = m \/ Len(r) = off + k)
  BY <1>3, <1>4
<1>6. /\ IsSeq(z) /\ Len(z) = (IF 1 <= Len(r) THEN Len(r) - 1 + 1 ELSE 0) /\ \A i \in 1..(Len(r) - 1 + 1) : z[i] = T[1 + i - 1]
  BY <1>5, PartFacts
<1> HIDE DEF z
<1>7. Len(z) = Len(r)
  BY <1>5, <1>6
<1>8. ASSUME NEW i \in 1..Len(r) PROVE r[i] = z[i]
  <2>1. i \in 1..(Len(r) - 1 + 1) /\ 1 + i - 1 = i
    BY <1>5
  <2>2. z[i] = T[i]
    BY <1>6, <2>1
  <2>3. CASE i > off /\ i <= off + k
    <3> DEFINE j == i - off
    <3>1. j \in 1..(off + k - (off + 1) + 1) /\ off + 1 + j - 1 = i
      BY <2>3
    <3>2. x[j] = T[i]
      BY <1>2, <3>1
    <3>3. r[i] = x[j]
      BY <1>3, <1>4, <2>3
    <3> QED  BY <2>2, <3>2, <3>3
  <2>4. CASE ~(i > off /\ i <= off + k)
    <3>1. i <= m
      BY <1>5, <2>4
    <3>2. i \in 1..(m - 1 + 1)
      BY <3>1
    <3>3. r[i] = old[i]
      BY <1>3, <1>4, <2>4, <3>1
    <3> QED  BY <1>1, <2>1, <2>2, <3>2, <3>3
  <2> QED  BY <2>3, <2>4
<1>9. r = z
  BY <1>4, <1>6, <1>7, <1>8, SeqsEqual
<1> QED  BY <1>4, <1>5, <1>9 DEF z, r, old, x

\* Appending.
LEMMA PatchAppends ==
  ASSUME NEW old, NEW x, IsSeq(old), IsSeq(x)
  PROVE  Patched(old, Len(old), x) = old \o x
<1> DEFINE r == Patched(old, Len(old), x)
           z == old \o x
<1>1. Len(old) \in Nat /\ Len(x) \in Nat
  BY SeqFacts
<1>2. /\ IsSeq(r) /\ Len(r) = IF Len(old) > Len(old) + Len(x) THEN Len(old) ELSE Len(old) + Len(x)
      /\ \A i \in 1..Len(r) : r[i] = IF i > Len(old) /\ i <= Len(old) + Len(x) THEN x[i - Len(old)]
                                     ELSE IF i > Len(old) THEN 0 ELSE old[i]
  BY <1>1, PatchedFacts
<1>3. IsSeq(z) /\ Len(z) = Len(old) + Len(x) /\ \A i \in 1..Len(old) : z[i] = old[i]
  BY JoinFacts
<1>4. \A i \in 1..Len(x) : z[Len(old) + i] = x[i]
  BY JoinFacts
<1> HIDE DEF r, z
<1>5. Len(r) = Len(z)
  BY <1>1, <1>2, <1>3
<1>6. ASSUME NEW i \in 1..Len(r) PROVE r[i] = z[i]
  <2>1. CASE i <= Len(old)
    BY <1>1, <1>2, <1>3, <2>1
  <2>2. CASE i > Len(old)
    <3> DEFINE j == i - Len(old)
    <3>1. j \in 1..Len(x) /\ i = Len(old) + j /\ i <= Len(old) + Len(x)
      BY <1>1, <1>3, <1>5, <2>2
    <3>2. r[i] = x[j]
      BY <1>2, <2>2, <3>1
    <3> HIDE DEF j
    <3> QED  BY <1>4, <3>1, <3>2
  <2> QED  BY <1>1, <2>1, <2>2
<1>7. r = z
  BY <1>2, <1>3, <1>5, <1>6, SeqsEqual
<1> QED  BY <1>7 DEF r, z

(***************************************************************************)
(* tee with the command c, which knows s, and has read T, in a system with *)
(* the files F that began with the files F0.  L are the names that no      *)
(* other program writes to.                                                *)
(***************************************************************************)
Appends(c) == "append" \in c.flags
Simple(c)  == Appends(c) => IsInjective(c.args)
Former(c, F0, f) == IF Appends(c) /\ f \in DOMAIN F0 THEN F0[f] ELSE <<>>

\* The names that are left are the last operands; none is left behind the opening.
Rests(c, s) ==
  /\ Len(s.args) <= Len(OrDash(c.args))
  /\ \A i \in 1..Len(s.args) : s.args[i] = OrDash(c.args)[Len(OrDash(c.args)) - Len(s.args) + i]
  /\ s.at # "open" => s.args = <<>>

\* The descriptors are those of the other operands.
Opens(c, s) ==
  /\ s.ret = 0 => Len(s.fds) = IF c.args = <<>> THEN 0 ELSE Len(c.args) - Len(s.args)
  /\ c.args = <<>> => s.fds = <<>>
  /\ \A i \in 1..Len(s.fds) : s.fds[i].name # "failed" =>
       s.fds[i].append = Appends(c) /\ \E j \in 1..(Len(c.args) - Len(s.args)) : s.fds[i].name = c.args[j]
  /\ IsInjective(c.args) =>
       \A i, j \in 1..Len(s.fds) : i # j /\ s.fds[i].name # "failed" => s.fds[i].name # s.fds[j].name

Operated(c, s) == IF s.at = "start" THEN s.fds = <<>> ELSE Rests(c, s) /\ Opens(c, s)

\* The call on descriptor i is still to come; up to where it has been written to, then.
ToCome(s, i) == s.at = "write" /\ \E j \in 1..(Len(s.todo) - 1) : s.todo[j].fd = i
Due(s, n, i)  == IF ~ToCome(s, i) THEN n
                 ELSE n - Len(s.todo[1].bytes) + IF s.todo[1].fd = i THEN s.moved ELSE 0

\* What a file must hold behind what it had, when a descriptor has come to off.
Starts(text, T, off) == off <= Len(text) /\ Len(text) <= Len(T) /\ text = SubSeq(T, 1, Len(text))
Has(text, T, old, appends, off) == IF appends THEN text = old \o SubSeq(T, 1, off) ELSE Starts(text, T, off)

Filled(c, s, T, F, F0, L) ==
  \A i \in 1..Len(s.fds) : s.fds[i].name \in L /\ Simple(c) =>
    /\ s.fds[i].off = Due(s, Len(T), i) /\ s.fds[i].name \in DOMAIN F
    /\ Has(F[s.fds[i].name], T, Former(c, F0, s.fds[i].name), Appends(c), s.fds[i].off)

\* What is still to be opened is as it was.
Yet(c, s) == IF s.at = "start" THEN ToSet(c.args) ELSE ToSet(s.args)
AsBefore(c, s, F, F0, L) ==
  c.args # <<>> /\ Appends(c) /\ IsInjective(c.args) =>
    \A f \in L \cap Yet(c, s) : (f \in DOMAIN F <=> f \in DOMAIN F0) /\ (f \in DOMAIN F => F[f] = F0[f])

Turn(s, T) ==
  /\ s.at \in {"start", "open"} => T = <<>>
  /\ s.at = "write" => LET b == s.todo[1].bytes IN Len(b) <= Len(T) /\ b = SubSeq(T, Len(T) - Len(b) + 1, Len(T))

TeeOK(c, s, T, F, F0, L) ==
  Operated(c, s) /\ Turn(s, T) /\ Filled(c, s, T, F, F0, L) /\ AsBefore(c, s, F, F0, L)

LEMMA FormerIsSeq == ASSUME NEW c, NEW F0, NEW f, \A g \in DOMAIN F0 : IsSeq(F0[g]) PROVE IsSeq(Former(c, F0, f))
BY EmptyIsSeq DEF Former

\* Writing the next k bytes of T to a file.
Extended(text, appends, off, x) == Patched(text, IF appends THEN Len(text) ELSE off, x)

Overwritten(r, text, T, off, k) == r = Patched(text, off, SubSeq(T, off + 1, off + k))

LEMMA StartsMore ==
  ASSUME NEW text, NEW T, NEW off \in Nat, NEW k \in Nat, IsSeq(T), IsSeq(text), off + k <= Len(T), Starts(text, T, off),
         NEW r, Overwritten(r, text, T, off, k), NEW e \in Nat, Starts(text, T, e)
  PROVE  Starts(r, T, off + k) /\ Starts(r, T, e)
<1> DEFINE m == Len(text)
<1>1. off <= m /\ m <= Len(T) /\ text = SubSeq(T, 1, m) /\ m \in Nat /\ Len(T) \in Nat
  BY SeqFacts DEF Starts
<1> HIDE DEF m
<1>2. LET q == Patched(SubSeq(T, 1, m), off, SubSeq(T, off + 1, off + k)) IN
      q = SubSeq(T, 1, Len(q)) /\ Len(q) \in Nat /\ Len(q) >= m /\ Len(q) >= off + k /\ Len(q) <= Len(T) /\ IsSeq(q)
  BY <1>1, PatchGrows
<1>3. r = Patched(SubSeq(T, 1, m), off, SubSeq(T, off + 1, off + k))
  BY <1>1 DEF Overwritten
<1>4. r = SubSeq(T, 1, Len(r)) /\ Len(r) \in Nat /\ Len(r) >= m /\ Len(r) >= off + k /\ Len(r) <= Len(T)
  BY <1>2, <1>3
<1>5. Starts(r, T, off + k)
  BY <1>4 DEF Starts
<1>6. Starts(r, T, e)
  <2>1. e <= m
    BY DEF Starts, m
  <2> QED  BY <1>1, <1>4, <2>1 DEF Starts
<1> QED  BY <1>5, <1>6

LEMMA HasMore ==
  ASSUME NEW text, NEW T, NEW old, NEW appends \in BOOLEAN, NEW off \in Nat, NEW k \in Nat, IsSeq(T), IsSeq(old),
         IsSeq(text), off + k <= Len(T), Has(text, T, old, appends, off),
         NEW r, r = Extended(text, appends, off, SubSeq(T, off + 1, off + k))
  PROVE  Has(r, T, old, appends, off + k)
<1> DEFINE x == SubSeq(T, off + 1, off + k)
<1>1. IsSeq(x)
  <2>1. off + 1 \in Int /\ off + k \in Int
    OBVIOUS
  <2> QED  BY <2>1, PartIsSeq
<1>2. CASE appends
  <2> DEFINE y == SubSeq(T, 1, off)
  <2>1. IsSeq(y) /\ text = old \o y
    BY <1>2, PartIsSeq DEF Has
  <2>2. IsSeq(text)
    BY <2>1, JoinFacts
  <2>3. r = text \o x
    <3> HIDE DEF x
    <3>1. Patched(text, Len(text), x) = text \o x
      BY <1>1, <2>2, PatchAppends
    <3> QED  BY <1>2, <3>1 DEF Extended, x
  <2>4. y \o x = SubSeq(T, 1, off + k)
    <3>1. 1 \in Nat /\ off \in Nat /\ off + k \in Nat /\ 1 <= 1 /\ 1 <= off + 1 /\ off <= off + k
      OBVIOUS
    <3> QED  BY <3>1, PartsJoin
  <2> HIDE DEF x, y
  <2>5. (old \o y) \o x = old \o (y \o x)
    BY <1>1, <2>1, JoinsAgain
  <2> QED  BY <1>2, <2>1, <2>3, <2>4, <2>5 DEF Has
<1>3. CASE ~appends
  <2>1. Starts(text, T, off) /\ Overwritten(r, text, T, off, k)
    BY <1>3 DEF Has, Extended, Overwritten
  <2>2. Starts(r, T, off + k)
    BY <2>1, StartsMore
  <2> QED  BY <1>3, <2>2 DEF Has
<1> QED  BY <1>2, <1>3

\* Reading on.
LEMMA HasStays ==
  ASSUME NEW text, NEW T, NEW x, NEW old, NEW appends \in BOOLEAN, NEW off \in Nat, IsSeq(T), IsSeq(x), off <= Len(T), IsSeq(text),
         Has(text, T, old, appends, off)
  PROVE  Has(text, T \o x, old, appends, off)
<1>0. Len(T) \in Nat /\ Len(x) \in Nat /\ Len(text) \in Nat
  BY SeqFacts
<1>1. CASE appends
  <2>1. SubSeq(T \o x, 1, off) = SubSeq(T, 1, off)
    <3>1. off \in 0..Len(T)
      BY <1>0
    <3> QED  BY <3>1, PrefixStays
  <2> QED  BY <1>1, <2>1 DEF Has, Starts
<1>2. CASE ~appends
  <2>1. Len(text) \in 0..Len(T) /\ text = SubSeq(T, 1, Len(text)) /\ off <= Len(text)
    BY <1>0, <1>2 DEF Has, Starts
  <2>2. SubSeq(T \o x, 1, Len(text)) = SubSeq(T, 1, Len(text))
    BY <2>1, PrefixStays
  <2>3. Len(T \o x) = Len(T) + Len(x)
    BY JoinFacts
  <2>4. Len(text) <= Len(T \o x)
    BY <1>0, <2>1, <2>3
  <2> QED  BY <1>2, <2>1, <2>2, <2>4 DEF Has, Starts
<1> QED  BY <1>1, <1>2

(***************************************************************************)
(* The steps that write nothing.                                           *)
(***************************************************************************)
\* What others do does not concern it.
LEMMA TeeStays ==
  ASSUME NEW c, NEW s, NEW T, NEW F, NEW F0, NEW L, NEW G, TeeOK(c, s, T, F, F0, L),
         \A f \in L : (f \in DOMAIN G <=> f \in DOMAIN F) /\ (f \in DOMAIN F => G[f] = F[f])
  PROVE  TeeOK(c, s, T, G, F0, L)
<1>1. Filled(c, s, T, G, F0, L)
  BY DEF TeeOK, Filled
<1>2. AsBefore(c, s, G, F0, L)
  BY DEF TeeOK, AsBefore
<1> QED  BY <1>1, <1>2 DEF TeeOK

LEMMA NotToCome ==
  ASSUME NEW s, NEW n, s.at = "write" => Len(s.todo) = 1
  PROVE  \A i : ~ToCome(s, i) /\ Due(s, n, i) = n
<1>1. 1..(1 - 1) = {}
  OBVIOUS
<1>2. \A i : ~ToCome(s, i)
  BY <1>1 DEF ToCome
<1> QED  BY <1>2 DEF Due

LEMMA TeeBegins ==
  ASSUME NEW c, NEW s, NEW t, NEW T, NEW F, NEW F0, NEW L, TeeOK(c, s, T, F, F0, L), IsSeq(c.args), IsSeq(s.fds),
         s.at = "start", t.at = "open", t.args = OrDash(c.args), t.fds = s.fds
  PROVE  TeeOK(c, t, T, F, F0, L)
<1> DEFINE words == OrDash(c.args)
<1>1. IsSeq(words) /\ (c.args # <<>> => words = c.args)
  BY OneIsSeq DEF OrDash
<1>2. s.fds = <<>> /\ Len(s.fds) = 0 /\ T = <<>>
  BY EmptyIsSeq, SeqFacts DEF TeeOK, Operated, Turn
<1>3. Len(words) \in Nat
  BY <1>1, SeqFacts
<1> HIDE DEF words
<1>4. \A i \in 1..Len(words) : Len(words) - Len(words) + i = i
  BY <1>3
<1>5. Rests(c, t)
  BY <1>3, <1>4 DEF Rests, words
<1>6. Opens(c, t)
  <2>1. c.args # <<>> => Len(c.args) - Len(t.args) = 0
    BY <1>1, <1>3 DEF words
  <2>2. 1..Len(t.fds) = {}
    BY <1>2
  <2> QED  BY <1>2, <2>1, <2>2 DEF Opens
<1>7. Filled(c, t, T, F, F0, L)
  BY <1>2 DEF Filled
<1>8. AsBefore(c, t, F, F0, L)
  <2>1. c.args # <<>> => Yet(c, t) = Yet(c, s)
    BY <1>1 DEF Yet, words
  <2> QED  BY <2>1 DEF TeeOK, AsBefore
<1> QED  BY <1>2, <1>5, <1>6, <1>7, <1>8 DEF TeeOK, Operated, Turn

\* The last turn or the opening is over.
LEMMA TeeEnds ==
  ASSUME NEW c, NEW s, NEW t, NEW T, NEW F, NEW F0, NEW L, TeeOK(c, s, T, F, F0, L), s.at # "start", s.args = <<>>,
         s.at = "write" => Len(s.todo) = 1, t.at \in {"read", "exit"}, t.args = s.args, t.fds = s.fds, t.ret \in {s.ret, 1}
  PROVE  TeeOK(c, t, T, F, F0, L)
<1>1. Operated(c, t)
  <2>1. Rests(c, s) /\ Opens(c, s)
    BY DEF TeeOK, Operated
  <2>2. Rests(c, t)
    BY <2>1 DEF Rests
  <2>3. Opens(c, t)
    BY <2>1 DEF Opens
  <2> QED  BY <2>2, <2>3 DEF Operated
<1>2. Filled(c, t, T, F, F0, L)
  <2>1. \A i : Due(s, Len(T), i) = Len(T) /\ Due(t, Len(T), i) = Len(T)
    BY NotToCome
  <2> QED  BY <2>1 DEF TeeOK, Filled
<1>3. AsBefore(c, t, F, F0, L)
  BY DEF TeeOK, AsBefore, Yet
<1> QED  BY <1>1, <1>2, <1>3 DEF TeeOK, Turn

\* What is left behind the next operand.
Behind(c, s, words) ==
  /\ IsSeq(words) /\ Len(words) \in Nat /\ Len(words) = Len(s.args) - 1 /\ Len(words) < Len(OrDash(c.args))
  /\ \A i \in 1..Len(words) : words[i] = OrDash(c.args)[Len(OrDash(c.args)) - Len(words) + i]
  /\ Head(s.args) = OrDash(c.args)[Len(OrDash(c.args)) - Len(words)]

LEMMA NextOperand ==
  ASSUME NEW c, NEW s, Rests(c, s), IsSeq(s.args), IsSeq(c.args), s.args # <<>>
  PROVE  Behind(c, s, Tail(s.args))
<1> DEFINE words == Tail(s.args)
           all == OrDash(c.args)
           n == Len(all)
<1>1. n \in Nat
  <2>1. IsSeq(all)
    BY OneIsSeq DEF OrDash
  <2> QED  BY <2>1, SeqFacts
<1>2. /\ Len(s.args) >= 1 /\ Head(s.args) = s.args[1] /\ IsSeq(words) /\ Len(words) = Len(s.args) - 1
      /\ \A i \in 1..Len(words) : words[i] = s.args[i + 1]
  BY TailFacts
<1>3. Len(words) \in Nat /\ Len(s.args) \in Nat
  BY <1>2, SeqFacts
<1>4. Len(s.args) <= n /\ \A i \in 1..Len(s.args) : s.args[i] = all[n - Len(s.args) + i]
  BY DEF Rests
<1> HIDE DEF all, n
<1> DEFINE k == Len(words)
           a == Len(s.args)
<1>5. k \in Nat /\ a \in Nat /\ a = k + 1 /\ a <= n
  <2>1. k = a - 1 /\ k \in Nat /\ a \in Nat /\ a <= n
    BY <1>2, <1>3, <1>4
  <2> HIDE DEF k, a
  <2> QED  BY <2>1
<1> HIDE DEF k, a
<1>6. ASSUME NEW i \in 1..k PROVE words[i] = all[n - k + i]
  <2>1. i + 1 \in 1..a /\ n - a + (i + 1) = n - k + i
    BY <1>1, <1>5
  <2>2. words[i] = s.args[i + 1] /\ s.args[i + 1] = all[n - a + (i + 1)]
    BY <1>2, <1>4, <2>1 DEF k, a
  <2> QED  BY <2>1, <2>2
<1>7. Head(s.args) = all[n - k]
  <2>1. 1 \in 1..a /\ n - a + 1 = n - k
    BY <1>1, <1>5
  <2>2. Head(s.args) = s.args[1] /\ s.args[1] = all[n - a + 1]
    BY <1>2, <1>4, <2>1 DEF k, a
  <2> QED  BY <2>1, <2>2
<1>8. k < n
  BY <1>1, <1>5
<1> QED  BY <1>2, <1>3, <1>6, <1>7, <1>8 DEF Behind, all, n, k

\* An operand cannot be opened.
LEMMA TeeMisses ==
  ASSUME NEW c, NEW s, NEW t, NEW T, NEW F, NEW F0, NEW L, TeeOK(c, s, T, F, F0, L), IsSeq(s.args), IsSeq(c.args),
         s.at = "open", s.args # <<>>, t.at = "open", t.args = Tail(s.args), t.fds = s.fds, t.ret = 1
  PROVE  TeeOK(c, t, T, F, F0, L)
<1>1. Rests(c, s) /\ Opens(c, s)
  BY DEF TeeOK, Operated
<1> DEFINE words == Tail(s.args)
           all == OrDash(c.args)
<1>2. /\ IsSeq(words) /\ Len(words) \in Nat /\ Len(words) = Len(s.args) - 1 /\ Len(words) < Len(all)
      /\ \A i \in 1..Len(words) : words[i] = all[Len(all) - Len(words) + i]
      /\ Head(s.args) = all[Len(all) - Len(words)]
  BY <1>1, NextOperand DEF Behind
<1>3. Len(all) \in Nat
  <2>1. IsSeq(all)
    BY OneIsSeq DEF OrDash
  <2> QED  BY <2>1, SeqFacts
<1>4. Rests(c, t)
  <2>1. Len(words) <= Len(all)
    BY <1>2, <1>3
  <2> QED  BY <1>2, <2>1 DEF Rests
<1>5. Opens(c, t)
  <2>1. /\ c.args = <<>> => s.fds = <<>>
        /\ IsInjective(c.args) =>
             \A i, j \in 1..Len(s.fds) : i # j /\ s.fds[i].name # "failed" => s.fds[i].name # s.fds[j].name
    BY <1>1 DEF Opens
  <2>2. ASSUME NEW i \in 1..Len(s.fds), s.fds[i].name # "failed"
        PROVE  s.fds[i].append = Appends(c) /\ \E j \in 1..(Len(c.args) - Len(words)) : s.fds[i].name = c.args[j]
    <3>1. s.fds[i].append = Appends(c) /\ \E j \in 1..(Len(c.args) - Len(s.args)) : s.fds[i].name = c.args[j]
      BY <1>1, <2>2 DEF Opens
    <3>2. Len(c.args) \in Nat /\ Len(s.args) \in Nat
      BY SeqFacts
    <3>3. 1..(Len(c.args) - Len(s.args)) \subseteq 1..(Len(c.args) - Len(words))
      <4> DEFINE k == Len(words)
                 a == Len(s.args)
                 n == Len(c.args)
      <4>1. k = a - 1 /\ k \in Nat /\ a \in Nat /\ n \in Nat
        BY <1>2, <3>2
      <4> HIDE DEF k, a, n
      <4>2. 1..(n - a) \subseteq 1..(n - k)
        BY <4>1
      <4> QED  BY <4>2 DEF k, a, n
    <3> HIDE DEF words
    <3> QED  BY <3>1, <3>3
  <2> HIDE DEF words
  <2> QED  BY <2>1, <2>2 DEF Opens, words
<1>6. Filled(c, t, T, F, F0, L)
  <2>1. \A i : Due(s, Len(T), i) = Len(T) /\ Due(t, Len(T), i) = Len(T)
    BY NotToCome
  <2> QED  BY <2>1 DEF TeeOK, Filled
<1>7. AsBefore(c, t, F, F0, L)
  <2>1. Yet(c, t) \subseteq Yet(c, s)
    <3>1. \A i \in 1..Len(words) : i + 1 \in 1..Len(s.args) /\ words[i] = s.args[i + 1]
      <4>1. \A i \in 1..Len(words) : words[i] = s.args[i + 1]
        BY TailFacts
      <4>2. Len(s.args) \in Nat
        BY SeqFacts
      <4> HIDE DEF words
      <4> QED  BY <1>2, <4>1, <4>2
    <3>2. DOMAIN words = 1..Len(words) /\ DOMAIN s.args = 1..Len(s.args)
      BY <1>2, SeqFacts
    <3> HIDE DEF words
    <3> QED  BY <3>1, <3>2 DEF Yet, ToSet, words
  <2> QED  BY <2>1 DEF TeeOK, AsBefore
<1>8. Turn(t, T)
  BY DEF TeeOK, Turn
<1> QED  BY <1>4, <1>5, <1>6, <1>7, <1>8 DEF TeeOK, Operated

\* The names behind the next operand are others, if none is given twice.
LEMMA OthersAreLeft ==
  ASSUME NEW c, NEW s, Rests(c, s), IsSeq(s.args), IsSeq(c.args), s.args # <<>>, c.args # <<>>, IsInjective(c.args),
         NEW f \in ToSet(Tail(s.args))
  PROVE  f # Head(s.args) /\ f \in ToSet(s.args)
<1> DEFINE words == Tail(s.args)
           k == Len(words)
           n == Len(c.args)
<1>1. /\ IsSeq(words) /\ Len(words) \in Nat /\ Len(words) = Len(s.args) - 1 /\ Len(words) < Len(OrDash(c.args))
      /\ \A i \in 1..Len(words) : words[i] = OrDash(c.args)[Len(OrDash(c.args)) - Len(words) + i]
      /\ Head(s.args) = OrDash(c.args)[Len(OrDash(c.args)) - Len(words)]
  BY NextOperand DEF Behind
<1>2. OrDash(c.args) = c.args
  BY DEF OrDash
<1>3. n \in Nat /\ k \in Nat /\ k < n /\ DOMAIN c.args = 1..n /\ DOMAIN words = 1..k
  BY <1>1, <1>2, SeqFacts
<1>4. (\A i \in 1..k : words[i] = c.args[n - k + i]) /\ Head(s.args) = c.args[n - k]
  BY <1>1, <1>2
<1>5. DOMAIN s.args = 1..Len(s.args) /\ Len(s.args) \in Nat /\ k = Len(s.args) - 1 /\ \A i \in 1..k : words[i] = s.args[i + 1]
  BY <1>1, TailFacts, SeqFacts
<1>6. PICK i \in DOMAIN words : words[i] = f
  BY DEF ToSet
<1> DEFINE a == Len(s.args)
<1> HIDE DEF words, k, n, a
<1>7. i \in 1..k /\ n - k + i \in 1..n /\ n - k \in 1..n /\ n - k + i # n - k
  BY <1>3, <1>6
<1>8. f = c.args[n - k + i]
  BY <1>4, <1>6, <1>7
<1>9. f # Head(s.args)
  BY <1>3, <1>4, <1>7, <1>8 DEF IsInjective
<1>10. f = s.args[i + 1] /\ i + 1 \in DOMAIN s.args
  <2>1. a \in Nat /\ k = a - 1 /\ DOMAIN s.args = 1..a
    BY <1>5 DEF a
  <2>2. i + 1 \in 1..a
    BY <1>7, <2>1
  <2> QED  BY <1>5, <1>6, <1>7, <2>1, <2>2
<1> QED  BY <1>9, <1>10 DEF ToSet

\* An operand is opened, and the first turn is still to come.
LEMMA TeeCreates ==
  ASSUME NEW c, NEW s, NEW t, NEW T, NEW F, NEW F0, NEW L, TeeOK(c, s, T, F, F0, L), IsSeq(s.args), IsSeq(c.args), IsSeq(s.fds),
         s.at = "open", s.args # <<>>, c.args # <<>>, t.at = "open", t.args = Tail(s.args), t.ret = s.ret,
         t.fds = Append(s.fds, Opened(Head(s.args), Appends(c))),
         NEW G, DOMAIN G = DOMAIN F \cup {Head(s.args)}, \A g \in DOMAIN F \ {Head(s.args)} : G[g] = F[g],
         G[Head(s.args)] = IF ~Appends(c) \/ Head(s.args) \notin DOMAIN F THEN <<>> ELSE F[Head(s.args)],
         \A g \in DOMAIN F0 : IsSeq(F0[g])
  PROVE  TeeOK(c, t, T, G, F0, L)
<1>1. Rests(c, s) /\ Opens(c, s) /\ T = <<>>
  BY DEF TeeOK, Operated, Turn
<1> DEFINE words == Tail(s.args)
<1>2. /\ IsSeq(words) /\ Len(words) \in Nat /\ Len(words) = Len(s.args) - 1 /\ Len(words) < Len(OrDash(c.args))
      /\ \A i \in 1..Len(words) : words[i] = OrDash(c.args)[Len(OrDash(c.args)) - Len(words) + i]
      /\ Head(s.args) = OrDash(c.args)[Len(OrDash(c.args)) - Len(words)]
  <2>1. Behind(c, s, words)
    BY <1>1, NextOperand
  <2> HIDE DEF words
  <2> QED  BY <2>1 DEF Behind
<1> DEFINE new == Head(s.args)
           m == Len(s.fds)
           k == Len(words)
           n == Len(c.args)
<1>3. OrDash(c.args) = c.args
  BY DEF OrDash
<1>4. n \in Nat /\ k \in Nat /\ k < n /\ m \in Nat /\ Len(s.args) \in Nat /\ Len(s.args) = k + 1 /\ n - Len(s.args) + 1 = n - k
  <2>1. n \in Nat /\ k \in Nat /\ k < n /\ m \in Nat /\ Len(s.args) \in Nat /\ k = Len(s.args) - 1
    BY <1>2, <1>3, SeqFacts
  <2> DEFINE a == Len(s.args)
  <2>2. n \in Nat /\ k \in Nat /\ k < n /\ m \in Nat /\ a \in Nat /\ k = a - 1
    BY <2>1
  <2> HIDE DEF n, k, m, a
  <2>3. a = k + 1 /\ n - a + 1 = n - k
    BY <2>2
  <2> QED  BY <2>2, <2>3 DEF a
<1>5. /\ IsSeq(t.fds) /\ Len(t.fds) = m + 1 /\ t.fds[m + 1] = Opened(new, Appends(c)) /\ \A i \in 1..m : t.fds[i] = s.fds[i]
  BY MoreFacts
<1>6. /\ t.fds[m + 1].name = new /\ t.fds[m + 1].off = 0 /\ t.fds[m + 1].append = Appends(c)
      /\ Head(s.args) = c.args[n - k]
  BY <1>2, <1>3, <1>5 DEF Opened
<1>7. ASSUME NEW i \in 1..Len(t.fds) PROVE i \in 1..m \/ i = m + 1
  BY <1>4, <1>5
<1>8. IsInjective(c.args) => \A i \in 1..m : s.fds[i].name # "failed" => s.fds[i].name # new
  <2> SUFFICES ASSUME IsInjective(c.args), NEW i \in 1..m, s.fds[i].name # "failed", s.fds[i].name = new PROVE FALSE
    OBVIOUS
  <2>1. PICK j \in 1..(n - Len(s.args)) : s.fds[i].name = c.args[j]
    BY <1>1 DEF Opens
  <2>2. DOMAIN c.args = 1..n
    BY SeqFacts
  <2> HIDE DEF n, k, m, new
  <2>3. j \in 1..n /\ n - k \in 1..n /\ j # n - k
    BY <1>4
  <2> QED  BY <1>6, <2>1, <2>2, <2>3 DEF IsInjective, new
<1>9. Rests(c, t)
  <2>1. Len(words) <= Len(OrDash(c.args))
    BY <1>3, <1>4
  <2> QED  BY <1>2, <2>1 DEF Rests
<1>10. Opens(c, t)
  <2>1. s.ret = 0 => m = n - Len(s.args)
    BY <1>1 DEF Opens
  <2>2. s.ret = 0 => m + 1 = n - k
    <3> HIDE DEF n, k, m
    <3> QED  BY <1>4, <2>1
  <2>3. ASSUME NEW i \in 1..Len(t.fds), t.fds[i].name # "failed"
        PROVE  t.fds[i].append = Appends(c) /\ \E j \in 1..(n - k) : t.fds[i].name = c.args[j]
    <3>1. CASE i \in 1..m
      <4>1. s.fds[i].append = Appends(c) /\ \E j \in 1..(n - Len(s.args)) : s.fds[i].name = c.args[j]
        BY <1>1, <1>5, <2>3, <3>1 DEF Opens
      <4>2. 1..(n - Len(s.args)) \subseteq 1..(n - k)
        <5> HIDE DEF n, k, m
        <5> QED  BY <1>4
      <4> HIDE DEF n, k, m
      <4> QED  BY <1>5, <3>1, <4>1, <4>2
    <3>2. CASE i = m + 1
      <4> HIDE DEF n, k, m, new
      <4>1. n - k \in 1..(n - k)
        BY <1>4
      <4> QED  BY <1>6, <3>2, <4>1 DEF new
    <3> QED  BY <1>7, <3>1, <3>2
  <2>4. ASSUME IsInjective(c.args), NEW i \in 1..Len(t.fds), NEW j \in 1..Len(t.fds), i # j, t.fds[i].name # "failed"
        PROVE  t.fds[i].name # t.fds[j].name
    <3>1. \A x, y \in 1..m : x # y /\ s.fds[x].name # "failed" => s.fds[x].name # s.fds[y].name
      BY <1>1, <2>4 DEF Opens
    <3>2. (i \in 1..m \/ i = m + 1) /\ (j \in 1..m \/ j = m + 1)
      BY <1>7
    <3>3. \A x \in 1..m : t.fds[x] = s.fds[x]
      BY <1>5
    <3>4. t.fds[m + 1].name = new
      BY <1>6
    <3>5. \A x \in 1..m : s.fds[x].name # "failed" => s.fds[x].name # new
      BY <1>8, <2>4
    <3> HIDE DEF m, new
    <3> QED  BY <2>4, <3>1, <3>2, <3>3, <3>4, <3>5
  <2>5. c.args = <<>> => t.fds = <<>>
    OBVIOUS
  <2>6. t.ret = 0 => Len(t.fds) = n - k
    BY <1>5, <2>2
  <2>7. Len(c.args) - Len(t.args) = n - k
    OBVIOUS
  <2> HIDE DEF n, k, m, new
  <2> QED  BY <2>3, <2>4, <2>5, <2>6, <2>7 DEF Opens
<1>11. Filled(c, t, T, G, F0, L)
  <2>1. Len(T) = 0 /\ \A i : Due(s, Len(T), i) = 0 /\ Due(t, Len(T), i) = 0
    <3>1. Len(T) = 0
      BY <1>1, EmptyIsSeq, SeqFacts
    <3>2. \A i : Due(s, Len(T), i) = Len(T) /\ Due(t, Len(T), i) = Len(T)
      BY NotToCome
    <3> QED  BY <3>1, <3>2
  <2>2. \A old : IsSeq(old) => old \o SubSeq(T, 1, 0) = old
    <3>1. SubSeq(T, 1, 0) = <<>>
      BY NoPart
    <3> QED  BY <3>1, NothingJoins
  <2>3. Starts(<<>>, T, 0)
    <3>1. <<>> = SubSeq(T, 1, 0) /\ Len(<<>>) = 0
      BY NoPart, EmptyIsSeq, SeqFacts
    <3> QED  BY <2>1, <3>1 DEF Starts
  <2>4. IsSeq(Former(c, F0, new))
    BY FormerIsSeq
  <2>5. new \in L /\ Simple(c) => Has(G[new], T, Former(c, F0, new), Appends(c), 0)
    <3>1. CASE ~Appends(c)
      <4>1. G[new] = <<>> /\ 0 <= 0
        BY <3>1
      <4>2. Starts(<<>>, T, 0)
        BY <2>3
      <4> HIDE DEF new
      <4> QED  BY <3>1, <4>1, <4>2 DEF Has
    <3>2. ASSUME Appends(c), IsInjective(c.args), new \in L PROVE Has(G[new], T, Former(c, F0, new), Appends(c), 0)
      <4>1. new \in ToSet(s.args)
        <5>1. 1 \in DOMAIN s.args /\ new = s.args[1]
          <6>1. DOMAIN s.args = 1..Len(s.args) /\ new = s.args[1] /\ Len(s.args) >= 1 /\ Len(s.args) \in Nat
            BY TailFacts, SeqFacts
          <6> QED  BY <6>1
        <5> QED  BY <5>1 DEF ToSet
      <4>2. (new \in DOMAIN F <=> new \in DOMAIN F0) /\ (new \in DOMAIN F => F[new] = F0[new])
        BY <3>2, <4>1 DEF TeeOK, AsBefore, Yet
      <4>3. G[new] = Former(c, F0, new)
        BY <3>2, <4>2 DEF Former
      <4> QED  BY <2>2, <2>4, <3>2, <4>3 DEF Has
    <3> QED  BY <3>1, <3>2 DEF Simple
  <2>6. ASSUME NEW i \in 1..Len(t.fds), t.fds[i].name \in L, Simple(c)
        PROVE  /\ t.fds[i].off = Due(t, Len(T), i) /\ t.fds[i].name \in DOMAIN G
               /\ Has(G[t.fds[i].name], T, Former(c, F0, t.fds[i].name), Appends(c), t.fds[i].off)
    <3>1. CASE i = m + 1
      <4>1. t.fds[i].name = new /\ t.fds[i].off = 0
        BY <1>6, <3>1
      <4> QED  BY <2>1, <2>5, <2>6, <4>1
    <3>2. CASE i \in 1..m
      <4>1. t.fds[i] = s.fds[i]
        BY <1>5, <3>2
      <4>2. /\ s.fds[i].off = 0 /\ s.fds[i].name \in DOMAIN F
            /\ Has(F[s.fds[i].name], T, Former(c, F0, s.fds[i].name), Appends(c), 0)
        BY <2>1, <2>6, <3>2, <4>1 DEF TeeOK, Filled
      <4>3. CASE s.fds[i].name # new
        BY <2>1, <4>1, <4>2, <4>3
      <4>4. CASE s.fds[i].name = new
        BY <2>1, <2>5, <2>6, <4>1, <4>2, <4>4
      <4> QED  BY <4>3, <4>4
    <3> QED  BY <1>7, <3>1, <3>2
  <2> QED  BY <2>6 DEF Filled
<1>12. AsBefore(c, t, G, F0, L)
  <2> SUFFICES ASSUME Appends(c), IsInjective(c.args), NEW f \in L \cap Yet(c, t)
               PROVE  (f \in DOMAIN G <=> f \in DOMAIN F0) /\ (f \in DOMAIN G => G[f] = F0[f])
    BY DEF AsBefore
  <2>1. f \in ToSet(Tail(s.args))
    BY DEF Yet
  <2>2. f # Head(s.args) /\ f \in ToSet(s.args)
    BY <1>1, <2>1, OthersAreLeft
  <2>3. (f \in DOMAIN F <=> f \in DOMAIN F0) /\ (f \in DOMAIN F => F[f] = F0[f])
    BY <2>2 DEF TeeOK, AsBefore, Yet
  <2> QED  BY <2>2, <2>3
<1>13. Turn(t, T)
  BY <1>1 DEF Turn
<1> QED  BY <1>9, <1>10, <1>11, <1>12, <1>13 DEF TeeOK, Operated

\* Without operands, "-" is opened, to which nothing is ever written.
LEMMA TeeCreatesNone ==
  ASSUME NEW c, NEW s, NEW t, NEW T, NEW F, NEW F0, NEW L, TeeOK(c, s, T, F, F0, L), IsSeq(s.args), IsSeq(c.args),
         s.at = "open", s.args # <<>>, c.args = <<>>, t.at = "open", t.args = Tail(s.args), t.fds = s.fds, NEW G
  PROVE  TeeOK(c, t, T, G, F0, L)
<1>1. Rests(c, s) /\ Opens(c, s) /\ Turn(s, T)
  BY DEF TeeOK, Operated
<1>2. s.fds = <<>> /\ Len(s.fds) = 0
  <2>1. s.fds = <<>>
    BY <1>1 DEF Opens
  <2> QED  BY <2>1, EmptyIsSeq, SeqFacts
<1>3. Rests(c, t)
  <2> DEFINE words == Tail(s.args)
             all == OrDash(c.args)
  <2>1. Behind(c, s, words)
    BY <1>1, NextOperand
  <2>2. Len(all) \in Nat
    <3>1. IsSeq(all)
      BY OneIsSeq DEF OrDash
    <3> QED  BY <3>1, SeqFacts
  <2>3. t.args = words /\ t.at = "open"
    OBVIOUS
  <2> HIDE DEF words
  <2>4. Len(words) <= Len(all)
    BY <2>1, <2>2 DEF Behind
  <2> QED  BY <2>1, <2>3, <2>4 DEF Rests, Behind
<1>4. 1..0 = {}
  OBVIOUS
<1>5. Opens(c, t)
  BY <1>2, <1>4 DEF Opens
<1>6. Filled(c, t, T, G, F0, L)
  BY <1>2, <1>4 DEF Filled
<1>7. AsBefore(c, t, G, F0, L)
  BY DEF AsBefore
<1> QED  BY <1>1, <1>3, <1>5, <1>6, <1>7 DEF TeeOK, Operated, Turn

\* A turn begins: all calls are still to come.
LEMMA TeeReads ==
  ASSUME NEW c, NEW s, NEW t, NEW T, NEW F, NEW F0, NEW L, TeeOK(c, s, T, F, F0, L), LocalOK(c, s), s.at = "read",
         NEW bytes, IsSeq(T), IsSeq(bytes), Takes(s, t, bytes), "failed" \notin L, \A f \in DOMAIN F : IsSeq(F[f])
  PROVE  TeeOK(c, t, T \o bytes, F, F0, L)
<1> DEFINE U == T \o bytes
           n == Len(T)
           m == Len(bytes)
<1>1. Rests(c, s) /\ Opens(c, s) /\ s.args = <<>>
  BY DEF TeeOK, Operated, Rests
<1>2. /\ t.at = "write" /\ t.moved = 0 /\ t.todo[1].bytes = bytes /\ t.fds = s.fds /\ t.args = s.args /\ t.ret = s.ret
      /\ \A k \in 1..Len(s.fds) : s.fds[k].name # "failed" => \E i \in 1..(Len(t.todo) - 1) : t.todo[i].fd = k
  BY DEF Takes
<1>3. n \in Nat /\ m \in Nat /\ Len(U) = n + m /\ IsSeq(U)
  BY SeqFacts, JoinFacts
<1>4. Operated(c, t)
  <2>1. Rests(c, t)
    BY <1>1, <1>2 DEF Rests
  <2>2. Opens(c, t)
    BY <1>1, <1>2 DEF Opens
  <2> QED  BY <1>2, <2>1, <2>2 DEF Operated
<1>5. Turn(t, U)
  <2>1. SubSeq(U, Len(U) - m + 1, Len(U)) = bytes
    BY EndOfJoin
  <2> HIDE DEF U, m
  <2>2. m <= Len(U)
    BY <1>3
  <2> QED  BY <1>2, <2>1, <2>2 DEF Turn, m
<1>6. Filled(c, t, U, F, F0, L)
  <2> SUFFICES ASSUME NEW i \in 1..Len(t.fds), t.fds[i].name \in L, Simple(c)
               PROVE  /\ t.fds[i].off = Due(t, Len(U), i) /\ t.fds[i].name \in DOMAIN F
                      /\ Has(F[t.fds[i].name], U, Former(c, F0, t.fds[i].name), Appends(c), t.fds[i].off)
    BY DEF Filled
  <2> DEFINE f == s.fds[i].name
             off == s.fds[i].off
             old == Former(c, F0, f)
  <2>1. i \in 1..Len(s.fds) /\ t.fds[i] = s.fds[i] /\ f \in L /\ f # "failed"
    BY <1>2
  <2>2. /\ off = Due(s, n, i) /\ f \in DOMAIN F
        /\ Has(F[f], T, old, Appends(c), off)
    BY <2>1 DEF TeeOK, Filled
  <2>3. off = n
    BY <2>2, NotToCome
  <2>4. Due(t, Len(U), i) = n
    <3>1. ToCome(t, i)
      BY <1>2, <2>1 DEF ToCome
    <3>2. Due(t, Len(U), i) = Len(U) - m + 0
      BY <1>2, <3>1 DEF Due
    <3> HIDE DEF U, m, n
    <3> QED  BY <1>3, <3>2
  <2>5. Has(F[f], U, old, Appends(c), off)
    <3>1. Appends(c) \in BOOLEAN /\ off \in Nat /\ off <= Len(T) /\ IsSeq(F[f])
      BY <1>3, <2>2, <2>3 DEF Appends
    <3> HIDE DEF old, off, f
    <3> QED  BY <2>2, <3>1, HasStays
  <2> QED  BY <2>1, <2>2, <2>3, <2>4, <2>5
<1>7. AsBefore(c, t, F, F0, L)
  BY <1>2 DEF TeeOK, AsBefore, Yet
<1> QED  BY <1>4, <1>5, <1>6, <1>7 DEF TeeOK

\* How the calls that are to come, and with them what is due, change with the first of them.
Furthers(s, t, n, k) ==
  /\ s.todo[1].fd # 0 =>
       Due(s, n, s.todo[1].fd) = n - Len(s.todo[1].bytes) + s.moved /\ Due(t, n, s.todo[1].fd) = Due(s, n, s.todo[1].fd) + k
  /\ \A i \in 1..Len(s.fds) : i # s.todo[1].fd => Due(t, n, i) = Due(s, n, i)
  /\ t.at = "write" => t.todo[1].bytes = s.todo[1].bytes

LEMMA DueMoves ==
  ASSUME NEW c, NEW s, NEW t, LocalOK(c, s), CopyOK(s), s.at = "write", NEW n \in Int, NEW k \in Nat,
         GoesOn(s, t, k) \/ (Shifts(s, t) /\ k = Len(s.todo[1].bytes) - s.moved)
  PROVE  Furthers(s, t, n, k)
<1> SUFFICES
       /\ s.todo[1].fd # 0 =>
            Due(s, n, s.todo[1].fd) = n - Len(s.todo[1].bytes) + s.moved /\ Due(t, n, s.todo[1].fd) = Due(s, n, s.todo[1].fd) + k
       /\ \A i \in 1..Len(s.fds) : i # s.todo[1].fd => Due(t, n, i) = Due(s, n, i)
       /\ t.at = "write" => t.todo[1].bytes = s.todo[1].bytes
  BY DEF Furthers
<1> DEFINE b == s.todo[1].bytes
           d == s.todo[1].fd
           l == Len(s.todo)
<1>1. /\ IsSeq(b) /\ Len(b) \in Nat /\ s.moved \in Nat /\ s.moved <= Len(b)
      /\ l \in Nat /\ l >= 1 /\ CallOK(Len(s.fds), s.todo[1]) /\ IsSeq(s.fds) /\ Len(s.fds) \in Nat
      /\ d = 0 <=> l = 1
      /\ d # 0 => d \in 1..Len(s.fds) /\ s.fds[d].name # "failed"
      /\ s.todo # <<>> /\ IsSeq(s.todo) /\ IsSeq(Tail(s.todo)) /\ Len(Tail(s.todo)) = l - 1
  BY CopyFacts
<1>2. /\ \A i \in 1..l : s.todo[i].bytes = b
      /\ \A i, j \in 1..(l - 1) : i < j => s.todo[i].fd < s.todo[j].fd
      /\ \A i \in 1..Len(Tail(s.todo)) : Tail(s.todo)[i] = s.todo[i + 1]
  BY <1>1, TailFacts DEF CopyOK, CopyCalls
<1>3. \A i \in 1..(l - 1) : s.todo[i].fd \in Nat
  <2>1. \A i \in 1..l : s.todo[i].fd \in 0..Len(s.fds)
    BY DEF CopyOK, CopyCalls, CallOK
  <2> HIDE DEF l
  <2> QED  BY <1>1, <2>1
<1>4. CASE l = 1
  <2>1. d = 0
    BY <1>1, <1>4
  <2>2. \A i : ~ToCome(s, i) /\ Due(s, n, i) = n
    BY <1>4, NotToCome
  <2>3. t.at = "write" => t.todo = s.todo
    BY <1>4 DEF GoesOn, Shifts
  <2>4. \A i : ~ToCome(t, i) /\ Due(t, n, i) = n
    BY <1>4, <2>3, NotToCome
  <2> QED  BY <2>1, <2>2, <2>3, <2>4
<1>5. CASE l # 1
  <2> DEFINE e == s.todo[2].fd
             r == Tail(s.todo)
  <2>1. 1 \in 1..(l - 1) /\ 2 \in 1..l /\ 1 \in 1..l
    <3> HIDE DEF l
    <3> QED  BY <1>1, <1>5
  <2>2. d # 0 /\ ToCome(s, d)
    BY <1>1, <1>5, <2>1 DEF ToCome
  <2>3. Due(s, n, d) = n - Len(b) + s.moved
    BY <2>2 DEF Due
  <2>4. CASE GoesOn(s, t, k)
    <3>1. t.at = "write" /\ t.todo = s.todo /\ t.moved = s.moved + k
      BY <2>4 DEF GoesOn
    <3>2. \A i : ToCome(t, i) <=> ToCome(s, i)
      BY <3>1 DEF ToCome
    <3>3. Due(t, n, d) = n - Len(b) + (s.moved + k)
      BY <2>2, <3>1, <3>2 DEF Due
    <3>4. Due(t, n, d) = Due(s, n, d) + k
      <4> HIDE DEF b
      <4> QED  BY <1>1, <2>3, <3>3
    <3>5. \A i : i # d => Due(t, n, i) = Due(s, n, i)
      BY <3>1, <3>2 DEF Due
    <3> QED  BY <2>3, <3>1, <3>4, <3>5
  <2>5. CASE Shifts(s, t) /\ k = Len(b) - s.moved
    <3>1. t.at = "write" /\ t.todo = r /\ t.moved = 0
      BY <1>5, <2>5 DEF Shifts
    <3>2. t.todo[1].bytes = b
      <4>1. 1 \in 1..Len(r) /\ 1 + 1 = 2
        BY <1>1, <2>1
      <4>2. r[1] = s.todo[2]
        BY <1>2, <4>1
      <4> QED  BY <1>2, <2>1, <3>1, <4>2
    <3>3. ASSUME NEW i \in Nat, i # d PROVE ToCome(t, i) <=> ToCome(s, i)
      <4>1. ASSUME ToCome(t, i) PROVE ToCome(s, i)
        <5>1. PICK j \in 1..(Len(r) - 1) : r[j].fd = i
          BY <3>1, <4>1 DEF ToCome
        <5>2. j \in 1..Len(r) /\ j + 1 \in 1..(l - 1)
          <6> HIDE DEF l, r
          <6> QED  BY <1>1, <5>1 DEF r
        <5>3. s.todo[j + 1].fd = i
          BY <1>2, <5>1, <5>2
        <5> QED  BY <5>2, <5>3 DEF ToCome
      <4>2. ASSUME ToCome(s, i) PROVE ToCome(t, i)
        <5>1. PICK j \in 1..(l - 1) : s.todo[j].fd = i
          BY <4>2 DEF ToCome
        <5>2. j # 1
          BY <3>3, <5>1
        <5>3. (j - 1) \in 1..Len(r) /\ (j - 1) \in 1..(Len(r) - 1) /\ (j - 1) + 1 = j
          <6> HIDE DEF l, r
          <6> QED  BY <1>1, <5>1, <5>2 DEF r
        <5>4. r[j - 1].fd = i
          BY <1>2, <5>1, <5>3
        <5> QED  BY <3>1, <5>3, <5>4 DEF ToCome
      <4> QED  BY <4>1, <4>2
    <3>4. ~ToCome(t, d)
      <4> SUFFICES ASSUME ToCome(t, d) PROVE FALSE
        OBVIOUS
      <4>1. PICK j \in 1..(Len(r) - 1) : r[j].fd = d
        BY <3>1 DEF ToCome
      <4>2. j \in 1..Len(r) /\ j + 1 \in 1..(l - 1) /\ 1 < j + 1
        <5> HIDE DEF l, r
        <5> QED  BY <1>1, <4>1 DEF r
      <4>3. s.todo[j + 1].fd = d
        BY <1>2, <4>1, <4>2
      <4>4. s.todo[1].fd < s.todo[j + 1].fd /\ s.todo[1].fd \in Nat
        BY <1>2, <1>3, <2>1, <4>2
      <4> QED  BY <4>3, <4>4
    <3>5. Due(t, n, d) = n
      BY <3>4 DEF Due
    <3>6. Due(t, n, d) = Due(s, n, d) + k
      <4>1. k = Len(b) - s.moved
        BY <2>5
      <4> HIDE DEF b
      <4> QED  BY <1>1, <2>3, <3>5, <4>1
    <3>7. ASSUME NEW i \in 1..Len(s.fds), i # d PROVE Due(t, n, i) = Due(s, n, i)
      <4>1. ToCome(t, i) <=> ToCome(s, i)
        BY <3>3, <3>7
      <4>2. ToCome(s, i) => Due(s, n, i) = n - Len(b) + 0
        BY <3>7 DEF Due
      <4>3. ToCome(t, i) => Due(t, n, i) = n - Len(b) + 0
        BY <3>1, <3>2 DEF Due
      <4>4. ~ToCome(s, i) => Due(s, n, i) = n /\ Due(t, n, i) = n
        BY <4>1 DEF Due
      <4> QED  BY <4>1, <4>2, <4>3, <4>4
    <3> QED  BY <2>3, <3>2, <3>6, <3>7
  <2> QED  BY <2>4, <2>5
<1> QED  BY <1>4, <1>5

\* What the rest of the turn is: the end of what has been read.
GivesPart(T, b, m, k, off) ==
  /\ off \in Nat /\ off + k <= Len(T) /\ Len(SubSeq(b, m + 1, Len(b))) = Len(b) - m
  /\ SubSeq(SubSeq(b, m + 1, Len(b)), 1, k) = SubSeq(T, off + 1, off + k)

LEMMA NextBytes ==
  ASSUME NEW T, IsSeq(T), NEW b, IsSeq(b), Len(b) <= Len(T), b = SubSeq(T, Len(T) - Len(b) + 1, Len(T)),
         NEW m \in Nat, m <= Len(b), NEW k \in 1..Len(SubSeq(b, m + 1, Len(b)))
  PROVE  GivesPart(T, b, m, k, Len(T) - Len(b) + m)
<1> DEFINE n == Len(T)
           l == Len(b)
           off == n - l + m
           rest == SubSeq(b, m + 1, l)
<1>1. n \in Nat /\ l \in Nat /\ l <= n
  BY SeqFacts
<1>2. Len(rest) = l - m
  <2>1. m + 1 \in Int /\ l \in Int
    BY <1>1
  <2>2. Len(rest) = IF m + 1 <= l THEN l - (m + 1) + 1 ELSE 0
    BY <2>1, PartFacts
  <2> HIDE DEF rest, l
  <2> QED  BY <1>1, <2>2 DEF l
<1>3. k \in Nat /\ k >= 1 /\ m + k <= l
  <2>1. k \in 1..Len(rest) /\ m <= l
    OBVIOUS
  <2> HIDE DEF rest, l
  <2> QED  BY <1>1, <1>2, <2>1
<1>4. b = SubSeq(T, n - l + 1, n)
  OBVIOUS
<1> HIDE DEF n, l
<1>5. rest = SubSeq(T, off + 1, n)
  <2>1. /\ n - l + 1 \in Nat \ {0} /\ m + 1 \in Nat \ {0} /\ l \in Nat \ {0} /\ (n - l + 1) + l - 1 <= n /\ n \in Nat
        /\ (n - l + 1) + (m + 1) - 1 = off + 1 /\ (n - l + 1) + l - 1 = n
    BY <1>1, <1>3
  <2>2. SubSeq(SubSeq(T, n - l + 1, n), m + 1, l) = SubSeq(T, (n - l + 1) + (m + 1) - 1, (n - l + 1) + l - 1)
    BY <2>1, PartWithin
  <2> HIDE DEF off
  <2> QED  BY <1>4, <2>1, <2>2
<1>6. SubSeq(rest, 1, k) = SubSeq(T, off + 1, off + k)
  <2>1. off + 1 \in Nat \ {0} /\ k \in Nat /\ n \in Nat /\ (off + 1) + k - 1 <= n /\ (off + 1) + k - 1 = off + k
    BY <1>1, <1>3
  <2>2. SubSeq(SubSeq(T, off + 1, n), 1, k) = SubSeq(T, off + 1, (off + 1) + k - 1)
    BY <2>1, PartOfPart
  <2> HIDE DEF off, rest
  <2> QED  BY <1>5, <2>1, <2>2
<1>7. off \in Nat /\ off + k <= n
  BY <1>1, <1>3
<1> QED  BY <1>2, <1>6, <1>7 DEF GivesPart, n, l

LEMMA OpensStays ==
  ASSUME NEW c, NEW s, NEW t, Opens(c, s), IsSeq(s.fds), IsSeq(t.fds), Len(t.fds) = Len(s.fds), t.args = s.args, t.ret \in {s.ret, 1},
         \A i \in 1..Len(s.fds) : t.fds[i].name # "failed" => t.fds[i].name = s.fds[i].name /\ t.fds[i].append = s.fds[i].append
  PROVE  Opens(c, t)
<1>1. t.ret = 0 => Len(t.fds) = IF c.args = <<>> THEN 0 ELSE Len(c.args) - Len(t.args)
  <2>1. t.ret = 0 => s.ret = 0
    OBVIOUS
  <2>2. s.ret = 0 => Len(s.fds) = IF c.args = <<>> THEN 0 ELSE Len(c.args) - Len(s.args)
    BY DEF Opens
  <2> QED  BY <2>1, <2>2
<1>2. c.args = <<>> => t.fds = <<>>
  <2>1. c.args = <<>> => Len(s.fds) = 0
    BY EmptyIsSeq, SeqFacts DEF Opens
  <2> QED  BY <2>1, SeqFacts
<1>3. ASSUME NEW i \in 1..Len(t.fds), t.fds[i].name # "failed"
      PROVE  t.fds[i].append = Appends(c) /\ \E j \in 1..(Len(c.args) - Len(t.args)) : t.fds[i].name = c.args[j]
  <2>1. i \in 1..Len(s.fds) /\ t.fds[i].name = s.fds[i].name /\ t.fds[i].append = s.fds[i].append
    BY <1>3
  <2> QED  BY <1>3, <2>1 DEF Opens
<1>4. ASSUME IsInjective(c.args), NEW i \in 1..Len(t.fds), NEW j \in 1..Len(t.fds), i # j, t.fds[i].name # "failed"
      PROVE  t.fds[i].name # t.fds[j].name
  <2>1. i \in 1..Len(s.fds) /\ j \in 1..Len(s.fds) /\ t.fds[i].name = s.fds[i].name
        /\ (t.fds[j].name # "failed" => t.fds[j].name = s.fds[j].name)
    BY <1>4
  <2> QED  BY <1>4, <2>1 DEF Opens
<1> QED  BY <1>1, <1>2, <1>3, <1>4 DEF Opens

\* A call moves on.
Remaining(s) == SubSeq(s.todo[1].bytes, s.moved + 1, Len(s.todo[1].bytes))
Puts(s, x, F, G) ==
  LET fd == s.fds[s.todo[1].fd]
  IN  /\ DOMAIN G = DOMAIN F
      /\ s.todo[1].fd = 0 => G = F
      /\ s.todo[1].fd # 0 => /\ \A g \in DOMAIN F : g # fd.name => G[g] = F[g]
                             /\ fd.name \in DOMAIN F => G[fd.name] = Extended(F[fd.name], fd.append, fd.off, x)

LEMMA TeePushes ==
  ASSUME NEW c, NEW s, NEW t, NEW T, NEW F, NEW F0, NEW L, TeeOK(c, s, T, F, F0, L), LocalOK(c, s), CopyOK(s), s.at = "write",
         IsSeq(T), "failed" \notin L, \A f \in DOMAIN F : IsSeq(F[f]), \A f \in DOMAIN F0 : IsSeq(F0[f]),
         NEW k \in 1..Len(Remaining(s)), Pushed(s, t, k), Same(s, t), t.ret = s.ret,
         GoesOn(s, t, k) \/ (k = Len(Remaining(s)) /\ Shifts(s, t)), NEW G, Puts(s, SubSeq(Remaining(s), 1, k), F, G)
  PROVE  TeeOK(c, t, T, G, F0, L)
<1> DEFINE b == s.todo[1].bytes
           d == s.todo[1].fd
           n == Len(T)
<1>1. /\ IsSeq(b) /\ Len(b) \in Nat /\ s.moved \in Nat /\ s.moved <= Len(b)
      /\ Len(s.todo) \in Nat /\ Len(s.todo) >= 1 /\ CallOK(Len(s.fds), s.todo[1]) /\ IsSeq(s.fds) /\ Len(s.fds) \in Nat
      /\ d = 0 <=> Len(s.todo) = 1
      /\ d # 0 => d \in 1..Len(s.fds) /\ s.fds[d].name # "failed"
      /\ s.todo # <<>> /\ IsSeq(s.todo) /\ IsSeq(Tail(s.todo)) /\ Len(Tail(s.todo)) = Len(s.todo) - 1
  BY CopyFacts
<1>2. Rests(c, s) /\ Opens(c, s) /\ s.args = <<>> /\ n \in Nat /\ Len(b) <= n /\ b = SubSeq(T, n - Len(b) + 1, n)
  BY SeqFacts DEF TeeOK, Operated, Rests, Turn
<1> DEFINE off == n - Len(b) + s.moved
           rest == Remaining(s)
           x == SubSeq(rest, 1, k)
<1>3. off \in Nat /\ off + k <= n /\ Len(rest) = Len(b) - s.moved /\ x = SubSeq(T, off + 1, off + k) /\ k \in Nat
  <2> DEFINE m == s.moved
  <2>1. IsSeq(b) /\ Len(b) <= Len(T) /\ b = SubSeq(T, Len(T) - Len(b) + 1, Len(T)) /\ m \in Nat /\ m <= Len(b)
    BY <1>1, <1>2
  <2>2. k \in 1..Len(SubSeq(b, m + 1, Len(b))) /\ rest = SubSeq(b, m + 1, Len(b))
    BY DEF Remaining
  <2>3. n - Len(b) + m = off
    OBVIOUS
  <2> HIDE DEF b, m
  <2>4. /\ off \in Nat /\ off + k <= Len(T) /\ Len(SubSeq(b, m + 1, Len(b))) = Len(b) - m
        /\ SubSeq(SubSeq(b, m + 1, Len(b)), 1, k) = SubSeq(T, off + 1, off + k)
    <3> HIDE DEF off, n, x
    <3>1. Len(T) - Len(b) + m = off
      BY <2>3 DEF n
    <3>2. GivesPart(T, b, m, k, Len(T) - Len(b) + m)
      BY <2>1, <2>2, NextBytes
    <3> QED  BY <3>1, <3>2 DEF GivesPart
  <2>5. k \in Nat
    OBVIOUS
  <2> QED  BY <2>2, <2>3, <2>4, <2>5 DEF m
<1>4. /\ d # 0 => Due(s, n, d) = off /\ Due(t, n, d) = off + k
      /\ \A i \in 1..Len(s.fds) : i # d => Due(t, n, i) = Due(s, n, i)
      /\ t.at = "write" => t.todo[1].bytes = b
  <2>0. n \in Int /\ k \in Nat
    BY <1>2, <1>3
  <2>1. GoesOn(s, t, k) \/ (Shifts(s, t) /\ k = Len(b) - s.moved)
    <3> HIDE DEF b
    <3> QED  BY <1>3
  <2> HIDE DEF n
  <2>2. Furthers(s, t, n, k)
    BY <2>0, <2>1, DueMoves
  <2> QED  BY <2>2 DEF Furthers, n
<1>5. /\ IsSeq(t.fds) /\ Len(t.fds) = Len(s.fds)
      /\ \A i \in 1..Len(s.fds) : t.fds[i].name = s.fds[i].name /\ t.fds[i].append = s.fds[i].append
      /\ \A i \in 1..Len(s.fds) : s.fds[i].off \in Nat /\ t.fds[i].off = s.fds[i].off + IF i = d THEN k ELSE 0
  <2>1. \A i \in 1..Len(s.fds) : s.fds[i].off \in Nat
    BY DEF LocalOK, Handles, FdOK
  <2> HIDE DEF b, n, off, x
  <2> QED  BY <2>1 DEF Pushed
<1>6. t.args = s.args /\ t.at \in {"read", "write"}
  BY DEF Same, GoesOn, Shifts
<1>7. Operated(c, t)
  <2> HIDE DEF b, n, off, x, d
  <2>1. Rests(c, t)
    BY <1>2, <1>6 DEF Rests
  <2>2. Opens(c, t)
    <3>1. \A i \in 1..Len(s.fds) : t.fds[i].name = s.fds[i].name /\ t.fds[i].append = s.fds[i].append
      BY <1>5
    <3> QED  BY <1>1, <1>2, <1>5, <1>6, <3>1, OpensStays
  <2> QED  BY <1>6, <2>1, <2>2 DEF Operated
<1>8. Turn(t, T)
  <2> HIDE DEF b
  <2> QED  BY <1>2, <1>4, <1>6 DEF Turn
<1>9. AsBefore(c, t, G, F0, L)
  <2>1. Yet(c, t) = {}
    BY <1>2, <1>6 DEF Yet, ToSet
  <2> QED  BY <2>1 DEF AsBefore
<1>10. DOMAIN G = DOMAIN F
  BY DEF Puts
<1>11. Filled(c, t, T, G, F0, L)
  <2> SUFFICES ASSUME NEW i \in 1..Len(t.fds), t.fds[i].name \in L, Simple(c)
               PROVE  /\ t.fds[i].off = Due(t, n, i) /\ t.fds[i].name \in DOMAIN G
                      /\ Has(G[t.fds[i].name], T, Former(c, F0, t.fds[i].name), Appends(c), t.fds[i].off)
    BY DEF Filled
  <2> DEFINE g == s.fds[i].name
             o == s.fds[i].off
             old == Former(c, F0, g)
  <2>1. i \in 1..Len(s.fds) /\ t.fds[i].name = g /\ g \in L /\ g # "failed"
    BY <1>5
  <2>2. o = Due(s, n, i) /\ g \in DOMAIN F /\ Has(F[g], T, old, Appends(c), o)
    BY <2>1 DEF TeeOK, Filled
  <2>3. o \in Nat /\ IsSeq(old) /\ IsSeq(F[g]) /\ Appends(c) \in BOOLEAN
    BY <1>5, <2>1, <2>2, FormerIsSeq DEF Appends
  <2>4. CASE d = 0
    <3>1. G = F /\ i # d
      BY <2>1, <2>4 DEF Puts
    <3>2. Due(t, n, i) = Due(s, n, i) /\ t.fds[i].off = o
      <4>1. Due(t, n, i) = Due(s, n, i)
        BY <1>4, <2>1, <3>1
      <4>2. t.fds[i].off = o + 0
        BY <1>5, <2>1, <3>1
      <4> HIDE DEF o
      <4> QED  BY <2>3, <4>1, <4>2
    <3> QED  BY <1>10, <2>1, <2>2, <3>1, <3>2
  <2>5. CASE d # 0 /\ i = d
    <3>1. s.fds[d].append = Appends(c)
      BY <1>2, <2>1, <2>5 DEF Opens
    <3>2. o = off /\ t.fds[i].off = off + k /\ Due(t, n, i) = off + k
      BY <1>4, <1>5, <2>1, <2>2, <2>5
    <3>3. G[g] = Extended(F[g], Appends(c), off, SubSeq(T, off + 1, off + k))
      BY <1>3, <2>2, <2>5, <3>1, <3>2 DEF Puts
    <3>4. Has(G[g], T, old, Appends(c), off + k)
      <4>1. Has(F[g], T, old, Appends(c), off) /\ off \in Nat /\ k \in Nat /\ off + k <= Len(T)
        BY <1>3, <2>2, <3>2
      <4> DEFINE a == Appends(c)
                 y == F[g]
                 z == G[g]
      <4>2. /\ Has(y, T, old, a, off) /\ IsSeq(old) /\ IsSeq(y) /\ a \in BOOLEAN
            /\ z = Extended(y, a, off, SubSeq(T, off + 1, off + k)) /\ IsSeq(T)
        BY <2>3, <3>3, <4>1
      <4> HIDE DEF off, old, g, x, b, d, o, a, y, z
      <4>3. Has(z, T, old, a, off + k)
        BY <4>1, <4>2, HasMore
      <4> QED  BY <4>3 DEF a, z
    <3> QED  BY <1>10, <2>1, <2>2, <3>2, <3>4
  <2>6. CASE d # 0 /\ i # d
    <3>1. Due(t, n, i) = Due(s, n, i) /\ t.fds[i].off = o
      <4>1. Due(t, n, i) = Due(s, n, i)
        BY <1>4, <2>1, <2>6
      <4>2. t.fds[i].off = o + 0
        BY <1>5, <2>1, <2>6
      <4> HIDE DEF o
      <4> QED  BY <2>3, <4>1, <4>2
    <3>2. CASE s.fds[d].name # g
      <4>1. G[g] = F[g]
        BY <2>2, <2>6, <3>2 DEF Puts
      <4> QED  BY <1>10, <2>1, <2>2, <3>1, <4>1
    <3>3. CASE s.fds[d].name = g
      <4>1. d \in 1..Len(s.fds)
        BY <1>1, <2>6
      <4>2. ~Appends(c)
        <5>1. IsInjective(c.args) => s.fds[i].name # s.fds[d].name
          BY <1>2, <2>1, <2>6, <4>1 DEF Opens
        <5> QED  BY <3>3, <5>1 DEF Simple
      <4>3. s.fds[d].append = Appends(c) /\ s.fds[d].off = off /\ Has(F[g], T, old, Appends(c), off)
        <5>1. s.fds[d].append = Appends(c)
          BY <1>2, <2>1, <3>3, <4>1 DEF Opens
        <5>2. s.fds[d].off = Due(s, n, d) /\ Has(F[g], T, old, Appends(c), s.fds[d].off)
          BY <2>1, <3>3, <4>1 DEF TeeOK, Filled
        <5>3. s.fds[d].off = off
          BY <1>4, <2>6, <5>2
        <5> HIDE DEF off
        <5> QED  BY <5>1, <5>2, <5>3
      <4>4. G[g] = Extended(F[g], Appends(c), off, SubSeq(T, off + 1, off + k))
        BY <1>3, <2>2, <2>6, <3>3, <4>3 DEF Puts
      <4>5. Starts(F[g], T, o)
        BY <2>2, <4>2 DEF Has
      <4>6. Starts(G[g], T, o)
        <5>1. off \in Nat /\ k \in Nat /\ off + k <= Len(T) /\ Has(F[g], T, old, Appends(c), off)
          BY <1>3, <4>3
        <5> DEFINE y == F[g]
                   z == G[g]
        <5>2. IsSeq(y) /\ Starts(y, T, off) /\ Starts(y, T, o) /\ IsSeq(T) /\ o \in Nat /\ Overwritten(z, y, T, off, k)
          BY <2>3, <4>2, <4>4, <4>5, <5>1 DEF Has, Extended, Overwritten
        <5> HIDE DEF off, old, g, x, b, d, o, y, z
        <5>3. Starts(z, T, o)
          BY <5>1, <5>2, StartsMore
        <5> QED  BY <5>3 DEF z
      <4>7. Has(G[g], T, old, Appends(c), o)
        BY <4>2, <4>6 DEF Has
      <4> QED  BY <1>10, <2>1, <2>2, <3>1, <4>7
    <3> QED  BY <3>2, <3>3
  <2> QED  BY <2>4, <2>5, <2>6
<1> QED  BY <1>7, <1>8, <1>9, <1>11 DEF TeeOK

\* A call fails: its output is not looked at any more, the others are.
LEMMA TeeDrops ==
  ASSUME NEW c, NEW s, NEW t, NEW T, NEW F, NEW F0, NEW L, TeeOK(c, s, T, F, F0, L), LocalOK(c, s), CopyOK(s), s.at = "write",
         IsSeq(T), "failed" \notin L, s.moved = 0, Dropped(s, t), Same(s, t), t.ret = 1, Shifts(s, t)
  PROVE  TeeOK(c, t, T, F, F0, L)
<1> DEFINE b == s.todo[1].bytes
           d == s.todo[1].fd
           n == Len(T)
<1>1. IsSeq(b) /\ Len(b) \in Nat /\ n \in Nat /\ Rests(c, s) /\ Opens(c, s) /\ s.args = <<>>
  <2>1. LET call == s.todo[1] IN
         /\ IsSeq(call.bytes) /\ Len(call.bytes) \in Nat /\ s.moved \in Nat /\ s.moved <= Len(call.bytes)
         /\ Len(s.todo) \in Nat /\ Len(s.todo) >= 1 /\ CallOK(Len(s.fds), call) /\ IsSeq(s.fds) /\ Len(s.fds) \in Nat
         /\ call.fd = 0 <=> Len(s.todo) = 1
         /\ call.fd # 0 => call.fd \in 1..Len(s.fds) /\ s.fds[call.fd].name # "failed"
         /\ s.todo # <<>> /\ IsSeq(s.todo) /\ IsSeq(Tail(s.todo)) /\ Len(Tail(s.todo)) = Len(s.todo) - 1
    BY CopyFacts
  <2>2. Rests(c, s) /\ Opens(c, s) /\ s.args = <<>> /\ n \in Nat
    BY SeqFacts DEF TeeOK, Operated, Rests
  <2> QED  BY <2>1, <2>2
<1>2. /\ \A i \in 1..Len(s.fds) : i # d => Due(t, n, i) = Due(s, n, i)
      /\ t.at = "write" => t.todo[1].bytes = b
  <2> DEFINE k == Len(b)
  <2>1. n \in Int /\ k \in Nat /\ k = Len(s.todo[1].bytes) - s.moved
    BY <1>1
  <2> HIDE DEF n, k
  <2>2. Furthers(s, t, n, k)
    BY <2>1, DueMoves
  <2> QED  BY <2>2 DEF Furthers
<1>3. /\ IsSeq(t.fds) /\ Len(t.fds) = Len(s.fds) /\ t.fds[d].name = "failed"
      /\ \A i \in 1..Len(s.fds) : i # d => t.fds[i] = s.fds[i]
  BY DEF Dropped
<1>4. t.args = s.args /\ t.at \in {"read", "write"}
  BY DEF Same, Shifts
<1> HIDE DEF d
<1>5. Operated(c, t)
  <2>1. Rests(c, t)
    BY <1>1, <1>4 DEF Rests
  <2>2. Opens(c, t)
    <3>1. \A i \in 1..Len(s.fds) : t.fds[i].name # "failed" =>
             t.fds[i].name = s.fds[i].name /\ t.fds[i].append = s.fds[i].append
      BY <1>3
    <3>2. t.ret \in {s.ret, 1} /\ IsSeq(s.fds)
      BY DEF LocalOK, Shape
    <3> QED  BY <1>1, <1>3, <1>4, <3>1, <3>2, OpensStays
  <2> QED  BY <1>4, <2>1, <2>2 DEF Operated
<1>6. Turn(t, T)
  <2>1. Len(b) <= Len(T) /\ b = SubSeq(T, Len(T) - Len(b) + 1, Len(T))
    BY DEF TeeOK, Turn
  <2> HIDE DEF b
  <2> QED  BY <1>2, <1>4, <2>1 DEF Turn
<1>7. AsBefore(c, t, F, F0, L)
  <2>1. Yet(c, t) = {}
    BY <1>1, <1>4 DEF Yet, ToSet
  <2> QED  BY <2>1 DEF AsBefore
<1>8. Filled(c, t, T, F, F0, L)
  <2> SUFFICES ASSUME NEW i \in 1..Len(t.fds), t.fds[i].name \in L, Simple(c)
               PROVE  /\ t.fds[i].off = Due(t, n, i) /\ t.fds[i].name \in DOMAIN F
                      /\ Has(F[t.fds[i].name], T, Former(c, F0, t.fds[i].name), Appends(c), t.fds[i].off)
    BY DEF Filled
  <2>1. i \in 1..Len(s.fds) /\ i # d
    BY <1>3
  <2>2. t.fds[i] = s.fds[i] /\ Due(t, n, i) = Due(s, n, i)
    BY <1>2, <1>3, <2>1
  <2> QED  BY <2>1, <2>2 DEF TeeOK, Filled
<1> QED  BY <1>5, <1>6, <1>7, <1>8 DEF TeeOK

(***************************************************************************)
(* The steps of tee.                                                       *)
(***************************************************************************)
Apart(p) == {f \in FileName : Alone(p, f)}
HeardBy(p) == SubSeq(pipe[p], 1, heard[p])
TeeGood(p) == TeeOK(Cmd(p), proc[p], HeardBy(p), file, setting.files, Apart(p))
AtEnd(p)   == proc[p].at = "exit" /\ proc[p].ret = 0 => May("read") \/ NoMore(p, "stdin")

LEMMA TeeKnows ==
  ASSUME Typed, NEW p \in Proc, Cmd(p).name = "tee"
  PROVE  LET s == proc[p] IN
         /\ Passes(p) /\ LocalOK(Cmd(p), s) /\ Shape(s) /\ Where(Cmd(p), s, DOMAIN file) /\ DOMAIN proc = Proc /\ StreamsOK
         /\ IsSeq(s.args) /\ IsSeq(s.fds) /\ IsSeq(Cmd(p).args) /\ s.in = "stdin"
         /\ \A f \in DOMAIN file : IsSeq(file[f])
         /\ \A f \in DOMAIN setting.files : IsSeq(setting.files[f])
         /\ IsSeq(pipe[p]) /\ Len(pipe[p]) \in Nat /\ heard[p] \in Nat /\ heard[p] <= Len(pipe[p])
         /\ IsSeq(HeardBy(p)) /\ p \in DOMAIN heard /\ p # p + 1
         /\ "failed" \notin Apart(p) /\ "stdout" \notin Apart(p)
<1> DEFINE s == proc[p]
<1>1. LocalOK(Cmd(p), s) /\ Shape(s) /\ Where(Cmd(p), s, DOMAIN file) /\ DOMAIN proc = Proc /\ StreamsOK
  BY DEF Typed, LocalOK
<1>2. Passes(p)
  BY DEF Passes, Copies
<1>3. IsSeq(Cmd(p).args) /\ Setting(setting)
  BY SettingFacts
<1>4. \A f \in DOMAIN setting.files : IsSeq(setting.files[f])
  BY <1>3, SeqOfAny DEF Setting
<1>5. s.in = "stdin"
  BY <1>1 DEF Where
<1>6. IsSeq(pipe[p]) /\ heard[p] \in 0..Len(pipe[p]) /\ p \in 1..N
  BY <1>1, ProcIs DEF StreamsOK
<1>7. Len(pipe[p]) \in Nat /\ heard[p] \in Nat /\ heard[p] <= Len(pipe[p]) /\ p # p + 1
  BY <1>6, SeqFacts
<1>8. IsSeq(HeardBy(p))
  BY <1>7, PartIsSeq DEF HeardBy
<1>9. "failed" \notin Apart(p) /\ "stdout" \notin Apart(p)
  BY StreamAssumption DEF Apart
<1>10. \A f \in DOMAIN file : IsSeq(file[f])
  BY <1>1 DEF StreamsOK
<1> HIDE DEF s
<1> QED  BY <1>1, <1>2, <1>3, <1>4, <1>5, <1>6, <1>7, <1>8, <1>9, <1>10 DEF Shape, Proc, s

\* What a step of p makes of it.
TeeNow(p) == TeeOK(Cmd(p), proc'[p], SubSeq(pipe'[p], 1, heard'[p]), file', setting.files, Apart(p))

LEMMA TeeStarts ==
  ASSUME Typed, NEW p \in Proc, Cmd(p).name = "tee", TeeGood(p), Begin(p)
  PROVE  TeeNow(p)
<1> DEFINE c == Cmd(p)
           s == proc[p]
<1>1. Shape(s) /\ s.at = "start" /\ DOMAIN proc = Proc /\ IsSeq(c.args) /\ IsSeq(s.fds)
  BY TeeKnows DEF Begin, At
<1>2. PICK m : Silent(p, [s EXCEPT !.at = "open", !.args = OrDash(c.args), !.mem = m])
  BY <1>1 DEF Begin
<1> DEFINE t == [s EXCEPT !.at = "open", !.args = OrDash(c.args), !.mem = m]
<1>3. t.at = "open" /\ t.args = OrDash(c.args) /\ t.fds = s.fds
  BY <1>1 DEF Shape
<1>4. proc'[p] = t /\ UNCHANGED <<pipe, heard, file>>
  BY <1>1, <1>2 DEF Silent, Becomes, streams
<1> HIDE DEF t
<1>5. TeeOK(c, s, HeardBy(p), file, setting.files, Apart(p))
  BY DEF TeeGood
<1> HIDE DEF c, s
<1>6. TeeOK(c, t, HeardBy(p), file, setting.files, Apart(p))
  BY <1>1, <1>3, <1>5, TeeBegins
<1> QED  BY <1>4, <1>6 DEF TeeNow, HeardBy, c

LEMMA TeeLeaves ==
  ASSUME Typed, NEW p \in Proc, Cmd(p).name = "tee", TeeGood(p), proc[p].at \notin {"start", "write"}, proc[p].args = <<>>,
         NEW t, t.at \in {"read", "exit"}, t.args = proc[p].args, t.fds = proc[p].fds, t.ret \in {proc[p].ret, 1}, Silent(p, t)
  PROVE  TeeNow(p)
<1> DEFINE c == Cmd(p)
           s == proc[p]
<1>1. DOMAIN proc = Proc
  BY DEF Typed
<1>2. proc'[p] = t /\ UNCHANGED <<pipe, heard, file>>
  BY <1>1 DEF Silent, Becomes, streams
<1>3. TeeOK(c, s, HeardBy(p), file, setting.files, Apart(p)) /\ s.at # "start" /\ s.args = <<>> /\ s.at # "write"
      /\ t.args = s.args /\ t.fds = s.fds /\ t.ret \in {s.ret, 1}
  BY DEF TeeGood
<1> HIDE DEF c, s
<1>4. TeeOK(c, t, HeardBy(p), file, setting.files, Apart(p))
  BY <1>3, TeeEnds
<1> QED  BY <1>2, <1>4 DEF TeeNow, HeardBy, c

LEMMA TeeOpensOne ==
  ASSUME Typed, NEW p \in Proc, Cmd(p).name = "tee", TeeGood(p), OpenOutput(p)
  PROVE  TeeNow(p)
<1> DEFINE c == Cmd(p)
           s == proc[p]
           f == Head(s.args)
           a == Given(p, "append")
           fds == IF c.args = <<>> THEN s.fds ELSE Append(s.fds, Opened(f, a))
           t == [s EXCEPT !.args = Tail(@), !.fds = fds]
           r == [s EXCEPT !.args = Tail(@), !.ret = 1]
           g == [s EXCEPT !.at = "read"]
           e == Ends(s, 1)
<1>1. /\ Shape(s) /\ s.at = "open" /\ DOMAIN proc = Proc /\ IsSeq(c.args) /\ IsSeq(s.fds) /\ IsSeq(s.args)
      /\ TeeOK(c, s, HeardBy(p), file, setting.files, Apart(p)) /\ \A n \in DOMAIN setting.files : IsSeq(setting.files[n])
  BY TeeKnows DEF OpenOutput, At, TeeGood
<1>2. /\ g.at = "read" /\ g.args = s.args /\ g.fds = s.fds /\ g.ret = s.ret
      /\ e.at = "exit" /\ e.args = s.args /\ e.fds = s.fds /\ e.ret = 1
      /\ r.at = "open" /\ r.args = Tail(s.args) /\ r.fds = s.fds /\ r.ret = 1
  BY <1>1 DEF Shape, Ends
<1>3. t.at = "open" /\ t.args = Tail(s.args) /\ t.fds = fds /\ t.ret = s.ret
  BY <1>1 DEF Shape
<1>4. \/ s.args = <<>> /\ (Silent(p, e) \/ Silent(p, g))
      \/ s.args # <<>> /\ Silent(p, r)
      \/ s.args # <<>> /\ Create(f, ~a) /\ Becomes(p, [s EXCEPT !.args = Tail(@), !.fds =
           IF c.args = <<>> THEN @ ELSE Append(@, Opened(f, a))])
  BY DEF OpenOutput
<1>5. [s EXCEPT !.args = Tail(@), !.fds = IF c.args = <<>> THEN @ ELSE Append(@, Opened(f, a))] = t
  BY <1>1 DEF Shape
<1> HIDE DEF t, r, g, e, fds
<1>6. CASE s.args = <<>> /\ (Silent(p, e) \/ Silent(p, g))
  BY <1>1, <1>2, <1>6, TeeLeaves
<1>7. CASE s.args # <<>> /\ Silent(p, r)
  <2>1. proc'[p] = r /\ UNCHANGED <<pipe, heard, file>>
    BY <1>1, <1>7 DEF Silent, Becomes, streams
  <2> HIDE DEF c, s
  <2>2. TeeOK(c, r, HeardBy(p), file, setting.files, Apart(p))
    BY <1>1, <1>2, <1>7, TeeMisses
  <2> QED  BY <2>1, <2>2 DEF TeeNow, HeardBy, c
<1>8. CASE s.args # <<>> /\ Create(f, ~a) /\ Becomes(p, t)
  <2>1. proc'[p] = t /\ UNCHANGED <<pipe, heard>>
    BY <1>1, <1>8 DEF Create, Becomes
  <2>2. PICK G : G = file'
    OBVIOUS
  <2>3. /\ DOMAIN G = DOMAIN file \cup {f} /\ \A n \in DOMAIN file \ {f} : G[n] = file[n]
        /\ G[f] = IF ~Appends(c) \/ f \notin DOMAIN file THEN <<>> ELSE file[f]
    BY <1>8, <2>2 DEF Create, Appends, Given
  <2>4. TeeOK(c, t, HeardBy(p), G, setting.files, Apart(p))
    <3>1. CASE c.args = <<>>
      <4>1. t.fds = s.fds
        BY <1>3, <3>1 DEF fds
      <4> HIDE DEF c, s
      <4> QED  BY <1>1, <1>3, <1>8, <3>1, <4>1, TeeCreatesNone
    <3>2. CASE c.args # <<>>
      <4>1. t.fds = Append(s.fds, Opened(Head(s.args), Appends(c)))
        BY <1>3, <3>2 DEF fds, Appends, Given
      <4> DEFINE T == HeardBy(p)
                 F0 == setting.files
                 L == Apart(p)
      <4>2. TeeOK(c, s, T, file, F0, L) /\ \A n \in DOMAIN F0 : IsSeq(F0[n])
        BY <1>1
      <4> HIDE DEF c, s, T, F0, L
      <4>3. TeeOK(c, t, T, G, F0, L)
        BY <1>1, <1>3, <1>8, <2>3, <3>2, <4>1, <4>2, TeeCreates
      <4> QED  BY <4>3 DEF T, F0, L
    <3> QED  BY <3>1, <3>2
  <2> QED  BY <2>1, <2>2, <2>4 DEF TeeNow, HeardBy
<1> QED  BY <1>4, <1>5, <1>6, <1>7, <1>8

LEMMA TeeTakes ==
  ASSUME Typed, NEW p \in Proc, Cmd(p).name = "tee", TeeGood(p), CopyOK(proc[p]), Read(p)
  PROVE  TeeNow(p)
<1> DEFINE c == Cmd(p)
           s == proc[p]
           d == pipe[p]
           h == heard[p]
<1>1. /\ Passes(p) /\ LocalOK(c, s) /\ s.at = "read" /\ IsSeq(d) /\ Len(d) \in Nat /\ h \in Nat /\ h <= Len(d)
      /\ IsSeq(HeardBy(p)) /\ "failed" \notin Apart(p) /\ \A f \in DOMAIN file : IsSeq(file[f])
      /\ TeeOK(c, s, HeardBy(p), file, setting.files, Apart(p))
  BY TeeKnows DEF Read, At, TeeGood
<1>2. PICK k \in 1..(Len(d) - h) :
           /\ heard'[p] = h + k /\ UNCHANGED <<pipe, file, ended>>
           /\ Takes(s, proc'[p], SubSeq(d, h + 1, h + k))
  BY <1>1, CopierReads
<1>3. PICK t : t = proc'[p]
  OBVIOUS
<1> DEFINE bytes == SubSeq(d, h + 1, h + k)
           T == HeardBy(p)
           F == file
           F0 == setting.files
           L == Apart(p)
<1>4. IsSeq(bytes) /\ Takes(s, t, bytes)
  <2>1. h + 1 \in Int /\ h + k \in Int
    BY <1>1
  <2>2. IsSeq(bytes)
    BY <2>1, PartIsSeq
  <2> QED  BY <1>2, <1>3, <2>2
<1>5. T \o bytes = SubSeq(d, 1, h + k)
  <2>1. 1 \in Nat /\ h \in Nat /\ h + k \in Nat /\ 1 <= 1 /\ 1 <= h + 1 /\ h <= h + k
    BY <1>1
  <2> HIDE DEF d, h
  <2>2. SubSeq(d, 1, h) \o SubSeq(d, h + 1, h + k) = SubSeq(d, 1, h + k)
    BY <1>1, <2>1, PartsJoin
  <2> QED  BY <2>2 DEF HeardBy, d, h
<1>6. TeeOK(c, t, T \o bytes, F, F0, L)
  <2>1. TeeOK(c, s, T, F, F0, L) /\ IsSeq(T) /\ "failed" \notin L /\ \A f \in DOMAIN F : IsSeq(F[f])
    BY <1>1
  <2> HIDE DEF c, s, d, h, bytes, T, F, F0, L
  <2> QED  BY <1>1, <1>4, <2>1, TeeReads
<1> HIDE DEF bytes, T
<1> QED  BY <1>2, <1>3, <1>5, <1>6 DEF TeeNow

\* What tee writes to a file, or fails to.
LEMMA TeePutsOne ==
  ASSUME Typed, NEW p \in Proc, Cmd(p).name = "tee", CopyOK(proc[p]), proc[p].at = "write", NEW x,
         Put(p, Fd(proc[p], proc[p].todo[1].fd), x)
  PROVE  Puts(proc[p], x, file, file') /\ UNCHANGED heard /\ pipe'[p] = pipe[p]
<1> DEFINE s == proc[p]
           n == s.todo[1].fd
           fd == s.fds[n]
<1>1. LocalOK(Cmd(p), s) /\ p # p + 1
  BY TeeKnows
<1>2. n # 0 => n \in 1..Len(s.fds)
  BY <1>1, CopyFacts
<1>3. CASE n = 0
  <2>1. Fd(s, n).name = "stdout"
    BY <1>3 DEF Fd, Stdout
  <2>0. p \in DOMAIN pipe
    BY ProcIs DEF Typed, StreamsOK
  <2>2. file' = file /\ heard' = heard /\ pipe'[p] = pipe[p]
    BY <1>1, <2>0, <2>1 DEF Put
  <2> QED  BY <1>3, <2>2 DEF Puts
<1>4. CASE n # 0
  <2>1. Fd(s, n) = fd
    BY <1>4 DEF Fd
  <2>2. FdOK(Cmd(p), fd)
    BY <1>1, <1>2, <1>4 DEF LocalOK, Handles
  <2>3. fd.name # "stdout"
    BY <2>2 DEF FdOK
  <2> HIDE DEF n, fd, s
  <2>4. /\ file' = [file EXCEPT ![fd.name] = Patched(@, IF fd.append THEN Len(@) ELSE fd.off, x)]
        /\ heard' = heard /\ pipe' = pipe
    BY <2>1, <2>3 DEF Put, s, n
  <2>5. DOMAIN file' = DOMAIN file /\ \A g \in DOMAIN file : g # fd.name => file'[g] = file[g]
    BY <2>4
  <2>6. fd.name \in DOMAIN file => file'[fd.name] = Extended(file[fd.name], fd.append, fd.off, x)
    BY <2>4 DEF Extended
  <2> QED  BY <1>4, <2>4, <2>5, <2>6 DEF Puts, s, n, fd
<1> QED  BY <1>3, <1>4

LEMMA TeeWrites ==
  ASSUME Typed, NEW p \in Proc, Cmd(p).name = "tee", TeeGood(p), CopyOK(proc[p]), Write(p), ~May("short"), proc'[p].ret # Killed
  PROVE  TeeNow(p)
<1> DEFINE c == Cmd(p)
           s == proc[p]
           rest == Remaining(s)
           T == HeardBy(p)
           F == file
           F0 == setting.files
           L == Apart(p)
<1>1. /\ Passes(p) /\ LocalOK(c, s) /\ s.at = "write" /\ IsSeq(T) /\ "failed" \notin L /\ \A f \in DOMAIN F : IsSeq(F[f])
      /\ TeeOK(c, s, T, F, F0, L) /\ \A f \in DOMAIN F0 : IsSeq(F0[f])
  BY TeeKnows DEF Write, At, TeeGood
<1>2. PICK t : t = proc'[p]
  OBVIOUS
<1>3. PICK G : G = file'
  OBVIOUS
<1>4. Pushes(p, s, t) \/ Fails(p, s, t)
  BY <1>1, <1>2, CopierWrites
<1>5. CASE Pushes(p, s, t)
  <2>1. PICK k \in 1..Len(rest) :
          /\ Put(p, Fd(s, s.todo[1].fd), SubSeq(rest, 1, k)) /\ Pushed(s, t, k) /\ Same(s, t) /\ t.ret = s.ret
          /\ \/ k < Len(rest) /\ GoesOn(s, t, k)
             \/ (k = Len(rest) \/ May("short")) /\ Shifts(s, t)
    BY <1>5 DEF Pushes, Remaining
  <2>2. Puts(s, SubSeq(rest, 1, k), F, file') /\ heard' = heard /\ pipe'[p] = pipe[p]
    BY <1>1, <2>1, TeePutsOne
  <2>3. Puts(s, SubSeq(rest, 1, k), F, G)
    BY <1>3, <2>2
  <2>4. GoesOn(s, t, k) \/ (k = Len(rest) /\ Shifts(s, t))
    BY <2>1
  <2>5. CopyOK(s)
    OBVIOUS
  <2>6. TeeOK(c, t, T, G, F0, L)
    <3>1. k \in 1..Len(Remaining(s)) /\ (GoesOn(s, t, k) \/ (k = Len(Remaining(s)) /\ Shifts(s, t)))
          /\ Puts(s, SubSeq(Remaining(s), 1, k), F, G)
      BY <2>3, <2>4
    <3> HIDE DEF c, s, T, F, F0, L
    <3> QED  BY <1>1, <2>1, <2>5, <3>1, TeePushes
  <2> HIDE DEF T
  <2> QED  BY <1>2, <1>3, <2>2, <2>6 DEF TeeNow, HeardBy, T
<1>6. CASE Fails(p, s, t)
  <2>1. /\ s.moved = 0 /\ UNCHANGED streams /\ Same(s, t) /\ t.ret = 1
        /\ \/ Dropped(s, t) /\ Shifts(s, t)
           \/ s.todo[1].fd = 0 /\ t.at = "exit" /\ t.moved = 0 /\ t.fds = s.fds
    BY <1>6 DEF Fails
  <2>2. CopyOK(s)
    OBVIOUS
  <2>3. ASSUME Dropped(s, t), Shifts(s, t) PROVE TeeOK(c, t, T, F, F0, L)
    <3> HIDE DEF c, s, T, F, F0, L
    <3> QED  BY <1>1, <2>1, <2>2, <2>3, TeeDrops
  <2>4. ASSUME s.todo[1].fd = 0, t.at = "exit", t.moved = 0, t.fds = s.fds PROVE TeeOK(c, t, T, F, F0, L)
    <3>1. Len(s.todo) = 1 /\ s.at # "start"
      BY <1>1, <2>2, <2>4, CopyFacts
    <3>2. t.args = s.args /\ s.args = <<>>
      <4>1. Rests(c, s)
        BY <1>1, <3>1 DEF TeeOK, Operated
      <4> QED  BY <1>1, <2>1, <4>1 DEF Same, Rests
    <3> HIDE DEF c, s, T, F, F0, L
    <3>3. TeeOK(c, t, T, F, F0, L)
      BY <1>1, <2>1, <2>4, <3>1, <3>2, TeeEnds
    <3> QED  BY <3>3
  <2>5. TeeOK(c, t, T, F, F0, L)
    BY <2>1, <2>3, <2>4
  <2>6. file' = file /\ pipe' = pipe /\ heard' = heard
    BY <2>1 DEF streams
  <2> HIDE DEF s
  <2> QED  BY <1>2, <2>5, <2>6 DEF TeeNow, HeardBy
<1> QED  BY <1>4, <1>5, <1>6

\* A status of 0, in a step of p.
EndNow(p) == proc'[p].at = "exit" /\ proc'[p].ret = 0 => May("read") \/ NoMore(p, "stdin")'

LEMMA TeeOpensStatus ==
  ASSUME Typed, NEW p \in Proc, OpenOutput(p)
  PROVE  EndNow(p)
<1> DEFINE c == Cmd(p)
           s == proc[p]
           t == proc'[p]
<1>1. Shape(s) /\ s.at = "open" /\ DOMAIN proc = Proc
  BY DEF Typed, OpenOutput, At, LocalOK
<1>2. \/ t = Ends(s, 1)
      \/ t = [s EXCEPT !.at = "read"]
      \/ t = [s EXCEPT !.args = Tail(@), !.ret = 1]
      \/ t = [s EXCEPT !.args = Tail(@), !.fds = IF c.args = <<>> THEN @
                                                 ELSE Append(@, Opened(Head(s.args), Given(p, "append")))]
  BY <1>1 DEF OpenOutput, Silent, Becomes
<1>3. t.at # "exit" \/ t.ret = 1
  BY <1>1, <1>2 DEF Ends, Shape
<1> HIDE DEF t
<1> QED  BY <1>3 DEF EndNow, t

LEMMA TeeReadsAll ==
  ASSUME Typed, NEW p \in Proc, Cmd(p).name = "tee", TeeGood(p) \/ May("short"), ReadEnds(p)
  PROVE  (TeeGood(p) => TeeNow(p)) /\ EndNow(p)
<1> DEFINE s == proc[p]
           t == Ends(s, s.ret)
<1>1. /\ Shape(s) /\ s.at = "read" /\ s.in = "stdin" /\ DOMAIN proc = Proc
      /\ Passes(p) /\ Cmd(p).name \in {"cat", "tee"}
  BY TeeKnows DEF ReadEnds, At
<1>2. Silent(p, t) /\ (May("read") \/ NoMore(p, "stdin"))
  <2> HIDE DEF t
  <2>0. Silent(p, Ends(s, s.ret))
    <3>1. Silent(p, Ends(s, s.ret)) \/ (Cmd(p).name = "cat" /\ \E e \in BOOLEAN : Silent(p, Left(p, s, s.mem, e)))
      BY <1>1, PassesFacts DEF ReadEnds, May
    <3> QED  BY <3>1
  <2>1. PICK error \in {FALSE} \cup {May("read")} : error \/ NoMore(p, s.in)
    BY DEF ReadEnds
  <2>2. (error = FALSE \/ error = May("read")) /\ (error \/ NoMore(p, "stdin"))
    BY <1>1, <2>1
  <2> QED  BY <2>0, <2>2 DEF t
<1>3. t.at = "exit" /\ t.args = s.args /\ t.fds = s.fds /\ t.ret = s.ret
  BY <1>1 DEF Shape, Ends
<1> HIDE DEF t
<1>4. ASSUME TeeGood(p) PROVE TeeNow(p)
  <2>1. s.args = <<>>
    BY <1>1, <1>4 DEF TeeGood, TeeOK, Operated, Rests
  <2> QED  BY <1>1, <1>2, <1>3, <1>4, <2>1, TeeLeaves
<1>5. NoMore(p, "stdin") => NoMore(p, "stdin")'
  BY <1>2 DEF Silent, streams, NoMore, Waiting
<1> QED  BY <1>2, <1>4, <1>5 DEF EndNow

LEMMA TeeLast ==
  ASSUME Typed, NEW p \in Proc, Cmd(p).name = "tee", CopyOK(proc[p]), AtEnd(p), Exit(p)
  PROVE  (TeeGood(p) => TeeNow(p)) /\ EndNow(p)
<1>1. Quits(p) /\ UNCHANGED <<setting, proc, meant>>
  BY DEF Exit, CopyOK
<1>2. NoMore(p, "stdin") => NoMore(p, "stdin")'
  BY <1>1 DEF Quits, NoMore, Waiting
<1>3. TeeGood(p) => TeeNow(p)
  BY <1>1 DEF Quits, TeeGood, TeeNow, HeardBy
<1> QED  BY <1>1, <1>2, <1>3 DEF EndNow, AtEnd

LEMMA TeeWritesStatus ==
  ASSUME Typed, NEW p \in Proc, Cmd(p).name = "tee", CopyOK(proc[p]), Write(p), proc'[p].ret # Killed
  PROVE  EndNow(p)
<1> DEFINE s == proc[p]
           t == proc'[p]
<1>1. Passes(p)
  BY TeeKnows
<1>2. Pushes(p, s, t) \/ Fails(p, s, t)
  BY <1>1, CopierWrites
<1>3. t.at # "exit" \/ t.ret = 1
  BY <1>2 DEF Pushes, Fails, GoesOn, Shifts
<1> QED  BY <1>3 DEF EndNow

\* Every step of tee, unless it is killed.
LEMMA TeeSteps ==
  ASSUME Typed, NEW p \in Proc, Cmd(p).name = "tee", CopyOK(proc[p]), AtEnd(p), ~May("short") => TeeGood(p), Step(p),
         proc'[p].ret # Killed
  PROVE  (~May("short") => TeeNow(p)) /\ EndNow(p)
<1> DEFINE s == proc[p]
<1>1. /\ Passes(p) /\ s.at \notin {"seek", "pour", "report"} /\ DOMAIN proc = Proc
  BY TeeKnows DEF Typed, Where, Place
<1>2. Begin(p) \/ OpenOutput(p) \/ Read(p) \/ ReadEnds(p) \/ Write(p) \/ Exit(p)
  BY <1>1 DEF Step, OpenInput, OpenDd, SeekDd, Finish, Yes, Pour, NextChunk, Round, PrintReport, At
<1>3. CASE Begin(p)
  <2>1. Shape(s)
    BY TeeKnows
  <2>2. PICK m : Silent(p, [s EXCEPT !.at = "open", !.args = OrDash(Cmd(p).args), !.mem = m])
    BY <1>3 DEF Begin
  <2>3. proc'[p].at = "open"
    BY <1>1, <2>1, <2>2 DEF Silent, Becomes, Shape
  <2> QED  BY <1>3, <2>3, TeeStarts DEF EndNow
<1>4. CASE OpenOutput(p)
  BY <1>4, TeeOpensOne, TeeOpensStatus
<1>5. CASE Read(p)
  <2>1. proc'[p].at = "write"
    <3>1. \E k \in 1..(Len(pipe[p]) - heard[p]) :
            /\ heard'[p] = heard[p] + k /\ UNCHANGED <<pipe, file, ended>>
            /\ Takes(proc[p], proc'[p], SubSeq(pipe[p], heard[p] + 1, heard[p] + k))
      BY <1>1, <1>5, CopierReads
    <3> QED  BY <3>1 DEF Takes
  <2> QED  BY <1>5, <2>1, TeeTakes DEF EndNow
<1>6. CASE ReadEnds(p)
  BY <1>6, TeeReadsAll
<1>7. CASE Write(p)
  BY <1>7, TeeWrites, TeeWritesStatus
<1>8. CASE Exit(p)
  BY <1>8, TeeLast
<1> QED  BY <1>2, <1>3, <1>4, <1>5, <1>6, <1>7, <1>8

\* The steps of the others.
LEMMA OthersSpare ==
  ASSUME Typed, NEW q \in Proc, Elsewhere(q), q \notin ended, NEW p \in Proc, q # p, Cmd(p).name = "tee", proc'[p] = proc[p]
  PROVE  (TeeGood(p) => TeeNow(p)) /\ (NoMore(p, "stdin") => NoMore(p, "stdin")')
<1> DEFINE d == pipe[p]
           h == heard[p]
<1>1. p \in 1..N /\ p \in 1..(N + 1) /\ q \in 1..N /\ N \in Nat
  BY ProcIs DEF Typed
<1>2. heard'[p] = h /\ (p # q + 1 => pipe'[p] = d) /\ ended \subseteq ended'
  BY <1>1 DEF Elsewhere
<1>3. SubSeq(pipe'[p], 1, h) = SubSeq(d, 1, h)
  <2>1. CASE p # q + 1
    BY <1>2, <2>1
  <2>2. CASE p = q + 1
    <3>1. PICK x : IsSeq(x) /\ pipe'[p] = d \o x
      BY <2>2 DEF Elsewhere
    <3>2. IsSeq(d) /\ h \in 0..Len(d)
      BY <1>1 DEF Typed, StreamsOK
    <3> HIDE DEF d, h
    <3>3. SubSeq(d \o x, 1, h) = SubSeq(d, 1, h)
      BY <3>1, <3>2, PrefixStays
    <3> QED  BY <3>1, <3>3
  <2> QED  BY <2>1, <2>2
<1>4. ASSUME TeeGood(p) PROVE TeeNow(p)
  <2> DEFINE c == Cmd(p)
             s == proc[p]
             T == HeardBy(p)
             F == file
             F0 == setting.files
             L == Apart(p)
  <2>1. PICK G : G = file'
    OBVIOUS
  <2>2. ASSUME NEW f \in L PROVE (f \in DOMAIN G <=> f \in DOMAIN F) /\ (f \in DOMAIN F => G[f] = F[f])
    <3>1. f \notin Outs(Cmd(q)) /\ f # "failed"
      BY TeeKnows DEF Apart, Alone
    <3> QED  BY <2>1, <3>1 DEF Elsewhere
  <2>3. TeeOK(c, s, T, F, F0, L)
    BY <1>4 DEF TeeGood
  <2> HIDE DEF c, s, T, F, F0, L
  <2>4. TeeOK(c, s, T, G, F0, L)
    BY <2>2, <2>3, TeeStays
  <2> HIDE DEF d, h
  <2> QED  BY <1>2, <1>3, <2>1, <2>4 DEF TeeNow, HeardBy, c, s, T, F0, L, d, h
<1>5. ASSUME NoMore(p, "stdin") PROVE NoMore(p, "stdin")'
  <2>1. p = 1 \/ p - 1 \in ended
    BY <1>5 DEF NoMore
  <2>2. p # q + 1
    BY <1>1, <2>1
  <2>3. pipe'[p] = d /\ heard'[p] = h
    BY <1>2, <2>2
  <2>4. Waiting(p, "stdin")' = Waiting(p, "stdin")
    BY <2>3 DEF Waiting
  <2> QED  BY <1>2, <1>5, <2>1, <2>4 DEF NoMore
<1> QED  BY <1>4, <1>5

TeeInv ==
  /\ CopyInv
  /\ \A p \in Proc : Cmd(p).name = "tee" /\ proc[p].ret # Killed => AtEnd(p) /\ (~May("short") => TeeGood(p))

LEMMA TeeInit == Init => TeeInv
<1> SUFFICES ASSUME Init PROVE TeeInv
  OBVIOUS
<1>1. CopyInv
  BY CopyInit
<1>2. ASSUME NEW p \in Proc PROVE AtEnd(p) /\ TeeGood(p)
  <2>1. proc[p] = Idle /\ heard[p] = 0 /\ file = setting.files
    BY DEF Init, Proc
  <2>2. Idle.at = "start" /\ Idle.fds = <<>>
    BY DEF Idle
  <2>3. HeardBy(p) = <<>> /\ Len(<<>>) = 0
    <3>1. SubSeq(pipe[p], 1, 0) = <<>>
      BY NoPart
    <3> QED  BY <2>1, <3>1, EmptyIsSeq DEF HeardBy
  <2> HIDE DEF Idle
  <2>4. Operated(Cmd(p), Idle) /\ Turn(Idle, <<>>) /\ AsBefore(Cmd(p), Idle, file, setting.files, Apart(p))
    BY <2>1, <2>2 DEF Operated, Turn, AsBefore
  <2>5. Filled(Cmd(p), Idle, <<>>, file, setting.files, Apart(p))
    BY <2>2, <2>3 DEF Filled
  <2> QED  BY <2>1, <2>2, <2>3, <2>4, <2>5 DEF AtEnd, TeeGood, TeeOK
<1> QED  BY <1>1, <1>2 DEF TeeInv

LEMMA TeeNext == ASSUME TeeInv, [Next]_vars PROVE TeeInv'
<1>1. CopyInv /\ CopyInv' /\ Typed
  BY CopyNext DEF TeeInv, CopyInv
<1>2. CASE UNCHANGED vars
  <2>1. ASSUME NEW q \in Proc PROVE Cmd(q)' = Cmd(q) /\ TeeGood(q)' = TeeGood(q) /\ AtEnd(q)' = AtEnd(q) /\ proc'[q] = proc[q]
    BY <1>2 DEF vars, streams, Cmd, TeeGood, AtEnd, May, HeardBy, Apart, Alone, Proc, NoMore, Waiting
  <2>2. Proc' = Proc /\ May("short")' = May("short")
    BY <1>2 DEF vars, streams, Proc, May
  <2> QED  BY <1>1, <2>1, <2>2 DEF TeeInv
<1>3. ASSUME NEW q \in Proc, Step(q) PROVE TeeInv'
  <2>1. /\ Elsewhere(q) /\ setting' = setting
        /\ Proc' = Proc /\ \A p \in Proc : p # q => proc'[p] = proc[p]
    BY <1>1, <1>3, AfterStep
  <2>2. q \notin ended
    BY <1>3 DEF Step, Begin, OpenInput, OpenOutput, OpenDd, SeekDd, Finish, Read, ReadEnds, Yes, Pour, NextChunk, Round,
         PrintReport, Write, Exit, At
  <2>3. \A p \in Proc : Cmd(p)' = Cmd(p) /\ Apart(p)' = Apart(p)
    BY <2>1 DEF Cmd, Apart, Alone
  <2>4. May("short")' = May("short") /\ May("read")' = May("read")
    BY <2>1 DEF May
  <2>5. ASSUME NEW p \in Proc, Cmd(p).name = "tee", proc'[p].ret # Killed PROVE (~May("short") => TeeNow(p)) /\ EndNow(p)
    <3>1. CASE p # q
      <4>1. proc'[p] = proc[p]
        BY <2>1, <3>1
      <4>2. AtEnd(p) /\ (~May("short") => TeeGood(p))
        BY <2>5, <4>1 DEF TeeInv
      <4>3. (TeeGood(p) => TeeNow(p)) /\ (NoMore(p, "stdin") => NoMore(p, "stdin")')
        BY <1>1, <2>1, <2>2, <2>5, <3>1, <4>1, OthersSpare
      <4> QED  BY <4>1, <4>2, <4>3 DEF AtEnd, EndNow
    <3>2. CASE p = q
      <4>1. proc[p].ret # Killed
        BY <1>1, <1>3, <2>5, <3>2, KilledStays
      <4>2. AtEnd(p) /\ (~May("short") => TeeGood(p))
        BY <2>5, <4>1 DEF TeeInv
      <4>3. CopyOK(proc[p])
        BY <1>1, <2>5, <4>1 DEF CopyInv, Passes, Copies
      <4> QED  BY <1>1, <1>3, <2>5, <3>2, <4>2, <4>3, TeeSteps
    <3> QED  BY <3>1, <3>2
  <2>6. \A p \in Proc : TeeGood(p)' = TeeNow(p)
    BY <2>1, <2>3 DEF TeeGood, TeeNow, HeardBy
  <2>7. \A p \in Proc : AtEnd(p)' = EndNow(p)
    BY <2>4 DEF AtEnd, EndNow
  <2>8. ASSUME NEW p \in Proc', Cmd(p)'.name = "tee", proc'[p].ret # Killed PROVE AtEnd(p)' /\ (~May("short")' => TeeGood(p)')
    BY <2>1, <2>3, <2>4, <2>5, <2>6, <2>7, <2>8
  <2> QED  BY <1>1, <2>8 DEF TeeInv
<1>4. CASE Interrupt
  <2>1. Proc' = Proc /\ UNCHANGED streams /\ setting' = setting
    BY <1>4 DEF Interrupt, streams, Proc
  <2>2. ASSUME NEW p \in Proc, Cmd(p).name = "tee", proc'[p].ret # Killed PROVE AtEnd(p)' /\ (~May("short")' => TeeGood(p)')
    <3>1. proc'[p] = proc[p] \/ proc'[p] = Dies(proc[p])
      BY <1>4 DEF Interrupt
    <3>2. Dies(proc[p]).ret = Killed
      BY <1>1, DiesRest DEF Typed, LocalOK
    <3>3. proc'[p] = proc[p]
      BY <2>2, <3>1, <3>2
    <3>4. AtEnd(p) /\ (~May("short") => TeeGood(p))
      BY <2>2, <3>3 DEF TeeInv
    <3>5. TeeGood(p)' = TeeGood(p) /\ AtEnd(p)' = AtEnd(p) /\ May("short")' = May("short")
      BY <2>1, <3>3 DEF streams, Cmd, TeeGood, AtEnd, May, HeardBy, Apart, Alone, NoMore, Waiting
    <3> QED  BY <3>4, <3>5
  <2>3. \A p \in Proc : Cmd(p)' = Cmd(p)
    BY <2>1 DEF Cmd
  <2> QED  BY <1>1, <2>1, <2>2, <2>3 DEF TeeInv
<1> QED  BY <1>2, <1>3, <1>4 DEF Next, Done

LEMMA FilesHaveAll ==
  ASSUME TeeInv, NEW p \in Proc, Cmd(p).name = "tee", ~May("short"), proc[p].ret # Killed, proc[p].at \in {"read", "exit"},
         NEW i \in DOMAIN proc[p].fds, proc[p].fds[i].name # "failed", Alone(p, proc[p].fds[i].name), Simple(Cmd(p)),
         Operated(Cmd(p), proc[p]), proc[p].at # "start"
  PROVE  file[proc[p].fds[i].name] = Former(Cmd(p), setting.files, proc[p].fds[i].name) \o HeardBy(p)
<1> DEFINE c == Cmd(p)
           s == proc[p]
           f == s.fds[i].name
           T == HeardBy(p)
           F0 == setting.files
<1>1. /\ LocalOK(c, s) /\ IsSeq(s.fds) /\ IsSeq(T) /\ IsSeq(c.args) /\ CommandOK(c)
      /\ (\A g \in DOMAIN F0 : IsSeq(F0[g])) /\ (\A g \in DOMAIN file : IsSeq(file[g]))
      /\ TeeOK(c, s, T, file, F0, Apart(p))
  <2>1. Typed /\ TeeGood(p)
    BY DEF TeeInv, CopyInv
  <2> QED  BY <2>1, TeeKnows, SettingFacts DEF TeeGood
<1>2. i \in 1..Len(s.fds)
  BY <1>1, SeqFacts
<1>3. f \in Apart(p)
  <2>1. c.args # <<>>
    <3>1. IsSeq(<<>>) /\ Len(<<>>) = 0
      BY EmptyIsSeq
    <3>2. c.args = <<>> => s.fds = <<>>
      BY DEF Operated, Opens
    <3>3. ~(i \in 1..0)
      OBVIOUS
    <3> QED  BY <1>2, <3>1, <3>2, <3>3
  <2>2. f \in Outs(c)
    <3>1. FdOK(c, s.fds[i])
      BY <1>1, <1>2 DEF LocalOK, Handles
    <3> QED  BY <3>1 DEF FdOK
  <2>3. f \in FileName
    BY <1>1, <2>1, <2>2 DEF Outs, OrDash, CommandOK
  <2> QED  BY <2>3 DEF Apart
<1>4. Has(file[f], T, Former(c, F0, f), Appends(c), Len(T)) /\ f \in DOMAIN file
  <2>1. Due(s, Len(T), i) = Len(T)
    BY NotToCome
  <2> QED  BY <1>1, <1>2, <1>3, <2>1 DEF TeeOK, Filled
<1>5. SubSeq(T, 1, Len(T)) = T /\ <<>> \o T = T /\ Len(T) \in Nat
  BY <1>1, WholePart, NothingJoins, SeqFacts
<1> HIDE DEF c, s, f, T, F0
<1>6. CASE Appends(c)
  BY <1>4, <1>5, <1>6 DEF Has, c, s, f, T, F0
<1>7. CASE ~Appends(c)
  <2> DEFINE text == file[f]
  <2>1. Starts(text, T, Len(T))
    BY <1>4, <1>7 DEF Has
  <2>2. Len(T) <= Len(text) /\ Len(text) <= Len(T) /\ text = SubSeq(T, 1, Len(text))
    BY <2>1 DEF Starts
  <2>3. text = T
    <3> HIDE DEF text
    <3>1. text = SubSeq(T, 1, Len(text))
      BY <2>2
    <3>2. Len(text) \in Nat
      BY <1>1, <1>4, SeqFacts DEF text, f
    <3> QED  BY <1>5, <2>2, <3>1, <3>2
  <2>4. Former(c, F0, f) = <<>>
    BY <1>7 DEF Former
  <2>5. file[f] = Former(c, F0, f) \o T
    BY <1>5, <2>3, <2>4
  <2> QED  BY <2>5 DEF c, s, f, T, F0
<1> QED  BY <1>6, <1>7

\* TeeReachesAll for every pipeline, every input, every size of the buffers and pipes and
\* every interleaving, interrupts and refused calls included: an output that fails
\* (tee.c:60) is left out and the others get all that tee reads, behind what they had
\* with -a, and a status of 0 is only given when the input has ended and no output failed.
THEOREM TeeReached == Spec => []TeeReachesAll
<1>1. TeeInv => TeeReachesAll
  <2> SUFFICES ASSUME TeeInv, NEW p \in Proc, Cmd(p).name = "tee", ~May("short"), proc[p].ret # Killed
               PROVE  LET s == proc[p]
                          old(f) == IF Given(p, "append") /\ f \in DOMAIN setting.files THEN setting.files[f] ELSE <<>>
                      IN  /\ s.at \in {"read", "exit"} =>
                               \A i \in DOMAIN s.fds : s.fds[i].name # "failed" /\ Alone(p, s.fds[i].name) /\ (Given(p, "append") => IsInjective(Cmd(p).args)) =>
                                 file[s.fds[i].name] = old(s.fds[i].name) \o SubSeq(pipe[p], 1, heard[p])
                          /\ p \in ended /\ s.ret = 0 =>
                               /\ Len(s.fds) = Len(Cmd(p).args) /\ pipe[p + 1] = SubSeq(pipe[p], 1, heard[p])
                               /\ May("read") \/ NoMore(p, "stdin")
    BY DEF TeeReachesAll
  <2> DEFINE c == Cmd(p)
             s == proc[p]
             old(f) == IF Given(p, "append") /\ f \in DOMAIN setting.files THEN setting.files[f] ELSE <<>>
  <2>1. /\ Typed /\ CopyOK(s) /\ Kept(p) /\ AtEnd(p) /\ LocalOK(c, s)
        /\ Operated(c, s)
    <3>1. Typed /\ TeeGood(p) /\ AtEnd(p)
      BY DEF TeeInv, CopyInv
    <3>2. Passes(p)
      BY DEF Passes, Copies
    <3> QED  BY <3>1, <3>2 DEF TeeInv, CopyInv, TeeGood, TeeOK, Typed
  <2>2. ASSUME s.at \in {"read", "exit"}, NEW i \in DOMAIN s.fds, s.fds[i].name # "failed", Alone(p, s.fds[i].name),
               Given(p, "append") => IsInjective(Cmd(p).args)
        PROVE  file[s.fds[i].name] = old(s.fds[i].name) \o SubSeq(pipe[p], 1, heard[p])
    <3>1. Simple(c)
      BY <2>2 DEF Simple, Appends, Given
    <3>2. file[s.fds[i].name] = Former(c, setting.files, s.fds[i].name) \o HeardBy(p)
      BY <2>1, <2>2, <3>1, FilesHaveAll
    <3>3. Former(c, setting.files, s.fds[i].name) = old(s.fds[i].name)
      BY DEF Former, Appends, Given
    <3> HIDE DEF s, c, old
    <3> QED  BY <3>2, <3>3 DEF HeardBy
  <2>3. ASSUME p \in ended, s.ret = 0
        PROVE  /\ Len(s.fds) = Len(c.args) /\ pipe[p + 1] = SubSeq(pipe[p], 1, heard[p])
               /\ May("read") \/ NoMore(p, "stdin")
    <3>1. s.at = "exit"
      BY <2>1, <2>3 DEF Typed
    <3>2. Len(s.fds) = Len(c.args)
      <4>1. s.args = <<>> /\ Len(s.fds) = IF c.args = <<>> THEN 0 ELSE Len(c.args) - Len(s.args)
        BY <2>1, <2>3, <3>1 DEF Operated, Rests, Opens
      <4>2. Len(<<>>) = 0 /\ IsSeq(c.args)
        BY <2>1, EmptyIsSeq, SettingFacts
      <4>3. Len(c.args) \in Nat
        BY <4>2, SeqFacts
      <4> HIDE DEF c, s
      <4>4. Len(s.args) = 0 /\ (c.args = <<>> => Len(c.args) = 0)
        BY <4>1, <4>2
      <4> QED  BY <4>1, <4>3, <4>4
    <3>3. pipe[p + 1] = SubSeq(pipe[p], 1, heard[p])
      <4>1. InHand(s) = <<>>
        BY <2>1, <3>1, InHandIs
      <4>2. Counts(p, s)
        BY <2>3 DEF Counts
      <4>3. IsSeq(pipe[p + 1])
        BY <2>1, ProcIs DEF Typed, StreamsOK
      <4>4. pipe[p + 1] \o <<>> = pipe[p + 1]
        BY <4>3, NothingJoins
      <4> HIDE DEF s
      <4> QED  BY <2>1, <4>1, <4>2, <4>4 DEF Kept, s
    <3>4. May("read") \/ NoMore(p, "stdin")
      BY <2>1, <2>3, <3>1 DEF AtEnd
    <3> QED  BY <3>2, <3>3, <3>4
  <2> HIDE DEF s, c, old
  <2> QED  BY <2>2, <2>3 DEF s, c, old
<1> QED  BY <1>1, TeeInit, TeeNext, PTL DEF Spec
===============================================================================
