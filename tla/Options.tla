------------------------------- MODULE Options -------------------------------
(***************************************************************************)
(* src/main.c: from the words of the command line to a call of a command's *)
(* main function.  main() finds the command by the name it was called      *)
(* with, parse_opts() and its helpers take the options off the words.      *)
(* Indices are those of C: Arg(0) is the name of the program.              *)
(***************************************************************************)
EXTENDS Integers, Sequences

CONSTANTS Word,       \* the words of a command line
          Letters,    \* Letters[w]: what follows the "-" of a word that starts with one "-"
          LongName,   \* LongName[w]: what a word that starts with "--" spells up to its "="
          Attached,   \* Attached[w]: what it spells behind the "=", if it has one
          Base,       \* Base[w]: the part of the word w behind its last "/"
          Numeral, Octal,     \* what words spell for strtol(, 0) and strtoul(, 8)
          IntBits, LongBits,  \* the widths of int and long
          Flag, Slot, \* the bits of flags, and the variables for values of options
          Commands,   \* the table of table.c
          Lines       \* the command lines

NULL == "NULL"

Short(w) == w \in DOMAIN Letters
Long(w)  == w \in DOMAIN LongName
Dashed(w) == Short(w) \/ Long(w)

Information == {"--help", "--version", "--man"}

Types == {"noarg", "str", "int", "size", "mode"}

Option == [c : STRING, str : Word \cup {NULL}, flags : SUBSET Flag, arg_type : Types,
           value : Slot \cup {NULL}]
Command == [name : Word, usage : BOOLEAN, options : Seq(Option)]

\* The long integers; one that does not fit is outside of this model.
InLong(n) == -(2 ^ (LongBits - 1)) <= n /\ n < 2 ^ (LongBits - 1)

ASSUME WordAssumption ==
  /\ {"--", "tutils"} \cup Information \subseteq Word /\ NULL \notin Word \cup Slot
  /\ Letters \in [DOMAIN Letters -> Seq(STRING)] /\ DOMAIN Letters \subseteq Word
  /\ LongName \in [DOMAIN LongName -> Word] /\ DOMAIN LongName \subseteq Word
  /\ Attached \in [DOMAIN Attached -> Word] /\ DOMAIN Attached \subseteq DOMAIN LongName
  /\ DOMAIN Letters \cap DOMAIN LongName = {}
  /\ {"--"} \cup Information \subseteq DOMAIN LongName
  /\ Base \in [Word -> Word]
  /\ Lines \subseteq Seq(Word)

ASSUME NumberAssumption ==
  /\ IntBits \in Nat \ {0} /\ LongBits \in Nat \ {0}
  /\ \A w \in DOMAIN Numeral : Numeral[w] \in Int /\ InLong(Numeral[w])
  /\ \A w \in DOMAIN Octal : Octal[w] \in Int /\ InLong(Octal[w])

\* No two commands of table.c have the same name.
ASSUME TableAssumption ==
  /\ Commands \in Seq(Command)
  /\ \A k \in DOMAIN Commands : Commands[k].name # "tutils"
  /\ \A j, k \in DOMAIN Commands : Commands[j].name = Commands[k].name => j = k

VARIABLES line,      \* the command line as the kernel hands it over
          at,        \* where main() is
          args,      \* its argv, without "tutils" if the command was the next word
          progname,
          cmd,       \* the place of the command in the table, or 0
          word,      \* the word at hand
          letter, skip_next,  \* parse_short_opt's l, and its flag
          flags, value

optVars == <<line, at, args, progname, cmd, word, letter, skip_next, flags, value>>
main == <<line, args, progname, cmd>>

argc == Len(args)
Arg(k) == args[k + 1]
Options == IF cmd = 0 THEN <<>> ELSE Commands[cmd].options

(***************************************************************************)
(* The first option in the table with a letter, or with a long name.       *)
(***************************************************************************)
IsLetter(j, c) == Options[j].c = c /\ \A k \in 1..(j - 1) : Options[k].c # c
IsName(j, str) == Options[j].str = str /\ \A k \in 1..(j - 1) : Options[k].str # str

(***************************************************************************)
(* parse_arg: what a text is worth for an option of some type.  An int     *)
(* keeps the low bits of what strtol() returns, an unsigned type makes a   *)
(* large number of a negative one.                                         *)
(***************************************************************************)
Wrap(n, bits) == ((n + 2 ^ (bits - 1)) % (2 ^ bits)) - 2 ^ (bits - 1)

IsFit(type, text) ==
  /\ text # NULL
  /\ type \in {"int", "size"} => text \in DOMAIN Numeral
  /\ type = "mode" => text \in DOMAIN Octal

Converted(type, text) ==
  CASE type = "int"  -> <<type, Wrap(Numeral[text], IntBits)>>
    [] type = "size" -> <<type, Numeral[text] % (2 ^ LongBits)>>
    [] type = "mode" -> <<type, Octal[text] % (2 ^ IntBits)>>
    [] OTHER         -> <<type, text>>

NextWord(k) == IF k < argc - 1 THEN Arg(k + 1) ELSE NULL

\* The type invariant: parse_opts looks at no word behind the last one, so that the
\* operands of the command are words of the command line, and parse_short_opt looks
\* at no letter behind the word's '\0'.
TypeOK ==
  /\ line \in Seq(Word)
  /\ at \in {"start", "search", "word", "letters", "run", "informed", "refused"}
  /\ args \in Seq(Word) /\ progname \in Word
  /\ cmd \in 0..Len(Commands)
  /\ word \in Nat \ {0} /\ skip_next \in {0, 1}
  /\ flags \subseteq Flag
  /\ DOMAIN value = Slot
  /\ at \in {"word", "letters", "run"} => cmd # 0 /\ argc > 0 /\ word <= argc
  /\ at = "letters" => /\ word < argc /\ word + skip_next < argc
                       /\ Short(Arg(word)) /\ letter \in 1..(Len(Letters[Arg(word)]) + 1)

OptInit ==
  /\ line \in Lines
  /\ at = "start"
  /\ args = line /\ progname = "tutils"
  /\ cmd = 0 /\ word = 1 /\ letter = 1 /\ skip_next = 0
  /\ flags = {} /\ value = [s \in Slot |-> <<>>]

-------------------------------------------------------------------------------
(***************************************************************************)
(* main and find_command.                                                  *)
(***************************************************************************)
CalledAs == IF argc = 0 THEN "tutils" ELSE Base[Arg(0)]

\* "tutils COMMAND ..." is the same as "COMMAND ..."; what follows "tutils" is not cut
\* at its "/".
NamesCommand ==
  /\ at = "start"
  /\ CalledAs = "tutils" /\ argc >= 2 /\ ~Dashed(Arg(1))
  /\ at' = "search" /\ args' = Tail(args) /\ progname' = Arg(1)
  /\ UNCHANGED <<line, cmd, word, letter, skip_next, flags, value>>

IsCommand ==
  /\ at = "start"
  /\ ~(CalledAs = "tutils" /\ argc >= 2 /\ ~Dashed(Arg(1)))
  /\ at' = "search" /\ progname' = CalledAs
  /\ UNCHANGED <<line, args, cmd, word, letter, skip_next, flags, value>>

\* A command without a usage and without options (test) gets all words.
Parses(k) == Commands[k].usage \/ Commands[k].options # <<>>

\* bsearch() finds the command in a table that is "in alphabetic order" (table.c:3).
CommandFound ==
  /\ at = "search"
  /\ \E k \in DOMAIN Commands :
       /\ Commands[k].name = progname
       /\ cmd' = k
       /\ at' = IF Parses(k) THEN "word" ELSE "run"
  /\ UNCHANGED <<line, args, progname, word, letter, skip_next, flags, value>>

CommandUnknown ==
  /\ at = "search" /\ \A k \in DOMAIN Commands : Commands[k].name # progname
  /\ at' = "refused"
  /\ UNCHANGED <<main, word, letter, skip_next, flags, value>>

-------------------------------------------------------------------------------
(***************************************************************************)
(* parse_opts and parse_long_opt.                                          *)
(***************************************************************************)
OperandsBegin ==
  /\ at = "word"
  /\ IF word = argc THEN TRUE ELSE ~Dashed(Arg(word)) \/ (Short(Arg(word)) /\ Options = <<>>)
  /\ at' = "run"
  /\ UNCHANGED <<main, word, letter, skip_next, flags, value>>

AtLong == at = "word" /\ word < argc /\ Long(Arg(word))
OptionWord  == Arg(word) \notin {"--"} \cup Information

DashDash ==
  /\ AtLong /\ Arg(word) = "--"
  /\ at' = "run" /\ word' = word + 1
  /\ UNCHANGED <<main, letter, skip_next, flags, value>>

Informs ==
  /\ AtLong /\ Arg(word) \in Information
  /\ at' = "informed"
  /\ UNCHANGED <<main, word, letter, skip_next, flags, value>>

LongUnknown ==
  /\ AtLong /\ OptionWord /\ \A j \in DOMAIN Options : ~IsName(j, LongName[Arg(word)])
  /\ at' = "refused"
  /\ UNCHANGED <<main, word, letter, skip_next, flags, value>>

\* The text of an option: behind its "=", or the next word, or NULL at the end.
HasText(k) == Arg(k) \in DOMAIN Attached
TextOf(k)  == IF HasText(k) THEN Attached[Arg(k)] ELSE NextWord(k)

\* A text behind the "=" of an option that takes none is dropped.
LongFlag ==
  /\ AtLong /\ OptionWord
  /\ \E j \in DOMAIN Options :
       /\ IsName(j, LongName[Arg(word)]) /\ Options[j].value = NULL
       /\ flags' = flags \cup Options[j].flags
  /\ word' = word + 1
  /\ UNCHANGED <<main, at, letter, skip_next, value>>

Assign(j, text) == value' = [value EXCEPT ![Options[j].value] = Converted(Options[j].arg_type, text)]

LongValue ==
  /\ AtLong /\ OptionWord
  /\ \E j \in DOMAIN Options :
       /\ IsName(j, LongName[Arg(word)]) /\ Options[j].value # NULL
       /\ IsFit(Options[j].arg_type, TextOf(word))
       /\ flags' = flags \cup Options[j].flags
       /\ Assign(j, TextOf(word))
  /\ word' = IF HasText(word) THEN word + 1 ELSE word + 2
  /\ UNCHANGED <<main, at, letter, skip_next>>

LongBadValue ==
  /\ AtLong /\ OptionWord
  /\ \E j \in DOMAIN Options :
       /\ IsName(j, LongName[Arg(word)]) /\ Options[j].value # NULL
       /\ ~IsFit(Options[j].arg_type, TextOf(word))
  /\ at' = "refused"
  /\ UNCHANGED <<main, word, letter, skip_next, flags, value>>

(***************************************************************************)
(* parse_short_opt.  All letters of one word that take a value get the     *)
(* same next word, wherever they stand.  A word "-" has no letters, and is *)
(* passed over.                                                            *)
(***************************************************************************)
LettersBegin ==
  /\ at = "word" /\ word < argc /\ Short(Arg(word)) /\ Options # <<>>
  /\ at' = "letters" /\ letter' = 1 /\ skip_next' = 0
  /\ UNCHANGED <<main, word, flags, value>>

AtLetter == at = "letters" /\ letter <= Len(Letters[Arg(word)])
Letter   == Letters[Arg(word)][letter]

LetterUnknown ==
  /\ AtLetter /\ \A j \in DOMAIN Options : ~IsLetter(j, Letter)
  /\ at' = "refused"
  /\ UNCHANGED <<main, word, letter, skip_next, flags, value>>

LetterFlag ==
  /\ AtLetter
  /\ \E j \in DOMAIN Options :
       /\ IsLetter(j, Letter) /\ Options[j].value = NULL
       /\ flags' = flags \cup Options[j].flags
  /\ letter' = letter + 1
  /\ UNCHANGED <<main, at, word, skip_next, value>>

LetterValue ==
  /\ AtLetter
  /\ \E j \in DOMAIN Options :
       /\ IsLetter(j, Letter) /\ Options[j].value # NULL
       /\ IsFit(Options[j].arg_type, NextWord(word))
       /\ flags' = flags \cup Options[j].flags
       /\ Assign(j, NextWord(word))
  /\ letter' = letter + 1 /\ skip_next' = 1
  /\ UNCHANGED <<main, at, word>>

LetterBadValue ==
  /\ AtLetter
  /\ \E j \in DOMAIN Options :
       /\ IsLetter(j, Letter) /\ Options[j].value # NULL
       /\ ~IsFit(Options[j].arg_type, NextWord(word))
  /\ at' = "refused"
  /\ UNCHANGED <<main, word, letter, skip_next, flags, value>>

LettersEndHere ==
  /\ at = "letters" /\ letter > Len(Letters[Arg(word)])
  /\ at' = "word" /\ word' = word + 1
  /\ UNCHANGED <<main, letter, skip_next, flags, value>>

LettersEnd ==
  /\ at = "letters" /\ letter > Len(Letters[Arg(word)])
  /\ at' = "word" /\ word' = word + 1 + skip_next
  /\ UNCHANGED <<main, letter, skip_next, flags, value>>

OptNext ==
  \/ NamesCommand \/ IsCommand \/ CommandFound \/ CommandUnknown
  \/ OperandsBegin \/ DashDash \/ Informs \/ LongUnknown \/ LongFlag \/ LongValue \/ LongBadValue
  \/ LettersBegin \/ LetterUnknown \/ LetterFlag \/ LetterValue \/ LetterBadValue \/ LettersEnd

OptSpec == OptInit /\ [][OptNext]_optVars

-------------------------------------------------------------------------------
(***************************************************************************)
(* What a command line means, without going through it: a reading is the   *)
(* set of the places at which its options stand.                           *)
(***************************************************************************)

\* The options that the word at k names: <<p, j>> is option j, named by its letter p.
NamedAt(k) ==
  IF Short(Arg(k))
  THEN {g \in (DOMAIN Letters[Arg(k)]) \X (DOMAIN Options) : IsLetter(g[2], Letters[Arg(k)][g[1]])}
  ELSE {g \in {1} \X (DOMAIN Options) : IsName(g[2], LongName[Arg(k)])}

Valued(g) == Options[g[2]].value # NULL

\* The word at k, with the next one where it is taken as a value, is in order.
IsOption(k) ==
  /\ k < argc
  /\ IF Short(Arg(k)) THEN Options # <<>> ELSE Long(Arg(k)) /\ Arg(k) \notin {"--"} \cup Information
  /\ \A p \in (IF Short(Arg(k)) THEN DOMAIN Letters[Arg(k)] ELSE {1}) : \E g \in NamedAt(k) : g[1] = p
  /\ \A g \in NamedAt(k) : Valued(g) => IsFit(Options[g[2]].arg_type, TextOf(k))

After(k) == IF ~HasText(k) /\ \E g \in NamedAt(k) : Valued(g) THEN k + 2 ELSE k + 1

\* The options stand at the places S, one behind the other, and end at `end`; a "-" counts
\* as one that names none.
Reading(S, end) ==
  /\ 1 \in S \cup {end}
  /\ \A k \in S : k < end /\ IsOption(k) /\ After(k) \in S \cup {end}
  /\ \A k \in (S \cup {end}) \ {1} : \E j \in S : k = After(j)

\* The uses of options at the places S: <<k, g>> for each g that the word at k names.
Uses(S) == UNION {{<<k, g>> : g \in NamedAt(k)} : k \in S}
Used(a) == Options[a[2][2]]

NotAfter(a, b) == a[1] < b[1] \/ (a[1] = b[1] /\ a[2][1] <= b[2][1])

\* What uses U make of flags and of the variables: the last one that sets a variable
\* wins, and one that none sets keeps its value.
FlagsFrom(U) == flags = UNION {Used(a).flags : a \in U}

ValueFrom(U, s) ==
  \/ value[s] = <<>> /\ \A a \in U : Used(a).value # s
  \/ \E a \in U :
       /\ Used(a).value = s
       /\ \A b \in U : Used(b).value = s => NotAfter(b, a)
       /\ value[s] = Converted(Used(a).arg_type, TextOf(a[1]))

\* A "-" is no option but an operand, the standard input (cat.c:27, head.c:20).
LoneDash(k) == Short(Arg(k)) /\ Letters[Arg(k)] = <<>>

Meant(S, end) == Reading(S, end) /\ \A k \in S : ~LoneDash(k)

\* What can stand behind the options, and where the operands start then.
Stops(end) ==
  \/ end = argc \/ Arg(end) = "--" \/ ~Dashed(Arg(end)) \/ LoneDash(end)
  \/ Short(Arg(end)) /\ Options = <<>>

First(end) == IF end = argc THEN end ELSE IF Arg(end) = "--" THEN end + 1 ELSE end

AsksForInformation(end) == end < argc /\ Arg(end) \in Information

\* A "-" stands where an option may stand.
DashAhead ==
  \E k \in 1..(argc - 1) :
    LoneDash(k) /\ \E S \in SUBSET (1..argc), end \in 1..argc : Reading(S, end) /\ k \in S

\* A command is called with the flags, the values and the operands that a reading of its
\* words gives, in which each word is an option, the value of an option or an operand;
\* and nothing is refused that has a reading. This leaves out the lines on which the first
\* operand is a "-": parse_short_opt takes it for an option without letters and drops it
\* (lines 213 and 238), and the options go on behind it.
ReadsAsMeant ==
  ~DashAhead =>
    /\ at = "run" /\ Parses(cmd) =>
         \E S \in SUBSET (1..argc), end \in 1..argc :
           /\ Meant(S, end) /\ Stops(end) /\ word = First(end)
           /\ FlagsFrom(Uses(S)) /\ \A s \in Slot : ValueFrom(Uses(S), s)
    /\ at = "informed" => AsksForInformation(word) /\ \E S \in SUBSET (1..argc) : Meant(S, word)
    /\ at = "refused" /\ cmd # 0 =>
         \A S \in SUBSET (1..argc), end \in 1..argc :
           Meant(S, end) => ~(Stops(end) \/ AsksForInformation(end))
===============================================================================
