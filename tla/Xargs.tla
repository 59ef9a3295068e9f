--------------------------------- MODULE Xargs ---------------------------------
(***************************************************************************)
(* src/xargs.c: the words of the standard input become the arguments of    *)
(* one command after the other.  The input is a sequence of characters; a  *)
(* command that runs is an action whose outcome is anything a child can    *)
(* come to.                                                                *)
(***************************************************************************)
EXTENDS Integers, SequencesExt

CONSTANTS LineMax,   \* LINE_MAX, the size of the line buffer
          Settings   \* command lines with their input, see below

(***************************************************************************)
(* The input spells lines of words, each word in one of the ways the scan  *)
(* of xargs.c knows: bare, between quotes (with \ before " and \ in double *)
(* ones), or with a \ before every character.  A quote may be left open, a  *)
(* line may have no word or a blank at its end, and the last newline may   *)
(* be left out.                                                            *)
(***************************************************************************)
Newline == "\n"
Blank   == {" ", "\t"}

Spelled(word, style) ==
  LET escape(S) == FlattenSeq([i \in DOMAIN word |->
                     IF word[i] \in S THEN <<"\\", word[i]>> ELSE <<word[i]>>])
  IN  CASE style = "bare"    -> word
        [] style = "single"  -> <<"'">> \o word \o <<"'">>
        [] style = "double"  -> <<"\"">> \o escape({"\"", "\\"}) \o <<"\"">>
        [] style = "escaped" -> escape(Range(word))
        [] style = "open"    -> <<"'">> \o word

LineText(line) ==
  FlattenSeq([i \in DOMAIN line |->
    IF i = 1 THEN Spelled(line[i].word, line[i].style)
             ELSE <<" ">> \o Spelled(line[i].word, line[i].style)])

Trail == {<<>>} \cup {<<b>> : b \in Blank}

Text(lines, trails, newline) ==
  LET text == FlattenSeq([i \in DOMAIN lines |->
                Append(LineText(lines[i]) \o trails[i], Newline)])
  IN  IF newline \/ text = <<>> THEN text ELSE Front(text)

Meant(lines) == [i \in DOMAIN FlattenSeq(lines) |-> FlattenSeq(lines)[i].word]

Style == {"bare", "single", "double", "escaped", "open"}
Setting(s) ==
  /\ s.lines \in Seq(Seq([word : Seq(STRING), style : Style])) /\ s.newline \in BOOLEAN
  /\ s.trails \in Seq(Trail) /\ Len(s.trails) = Len(s.lines)
  /\ s.flags \subseteq {"max_lines", "max_args"}
  /\ s.max_args \in Int /\ s.max_lines \in Int

ASSUME LineMaxAssumption == LineMax \in Nat /\ LineMax >= 2
ASSUME SettingsAssumption == \A s \in Settings : Setting(s)

VARIABLES setting,    \* the options and what the input spells
          input,      \* what fgets has not returned yet
          at,         \* the place in xargs_main
          words,      \* the words of the line that add_arg has not got yet
          after,      \* where the loop goes after this line
          args,       \* the arguments in cur_argv behind those of xargs itself
          used_args, used_lines, ret,
          ran         \* every command so far: its arguments and how it ended

vars == <<setting, input, at, words, after, args, used_args, used_lines, ret, ran>>

-------------------------------------------------------------------------------
(***************************************************************************)
(* A line: fgets() returns it with its newline, or LINE_MAX - 1 characters *)
(* of it.                                                                  *)
(***************************************************************************)
Line(text) ==
  LET ends == {i \in DOMAIN text : text[i] = Newline \/ i = LineMax - 1} \cup {Len(text)}
  IN  SubSeq(text, 1, CHOOSE i \in ends : \A j \in ends : i <= j)

(***************************************************************************)
(* The scan of a line.  space is prev_is_space: "start" for its first      *)
(* value, "no" for 0, or the character that ended the last word.           *)
(***************************************************************************)
Begin == [quote |-> "", escaped |-> FALSE, space |-> "start", word |-> <<>>, words |-> <<>>]

Keep(s, c) == [s EXCEPT !.escaped = FALSE, !.space = "no", !.word = Append(@, c)]
EndWord(s, c) == [s EXCEPT !.space = c, !.word = <<>>, !.words = Append(@, s.word)]

ScanWithoutQuotes(s, c) ==
  CASE s.escaped                   -> Keep(s, c)
    [] ~s.escaped /\ c = "\\"      -> [s EXCEPT !.escaped = TRUE]
    [] ~s.escaped /\ c \in Blank \cup {Newline} ->
         IF s.space = "no" THEN EndWord(s, c) ELSE s
    [] OTHER                       -> Keep(s, c)

Scan(s, c) ==
  CASE s.escaped -> Keep(s, c)
    [] ~s.escaped /\ s.quote = "'" ->
         IF c = "'" THEN [s EXCEPT !.quote = "", !.space = "no"] ELSE Keep(s, c)
    [] ~s.escaped /\ s.quote # "'" /\ c = "\"" ->
         [s EXCEPT !.quote = IF @ = "" THEN c ELSE "", !.space = "no"]
    [] ~s.escaped /\ s.quote = "" /\ c = "'" -> [s EXCEPT !.quote = c]
    [] ~s.escaped /\ s.quote # "'" /\ c = "\\" -> [s EXCEPT !.escaped = TRUE]
    [] ~s.escaped /\ s.quote = "" /\ c \in Blank \cup {Newline} ->
         IF s.space = "no" THEN EndWord(s, c) ELSE s
    [] OTHER -> Keep(s, c)

\* (s is bound by a set so that TLC evaluates each prefix once, also in ENABLED.)
Scanned(text) ==
  LET scanned[i \in 0..Len(text)] ==
        IF i = 0 THEN Begin
                 ELSE CHOOSE t \in {Scan(s, text[i]) : s \in {scanned[i - 1]}} : TRUE
  IN  scanned[Len(text)]

\* The words of a line, the last of which the end of the line may end.
WordsOf(s) == IF s.space = "no" THEN Append(s.words, s.word) ELSE s.words

-------------------------------------------------------------------------------

Init ==
  /\ setting \in Settings
  /\ input = Text(setting.lines, setting.trails, setting.newline)
  /\ at = "read" /\ after = "read"
  /\ words = <<>> /\ args = <<>> /\ ran = <<>>
  /\ used_args = 0 /\ used_lines = 0 /\ ret = 0

Given(flag) == flag \in setting.flags

\* A line of blanks that has no newline is passed over.
SkipBlanks ==
  /\ at = "read" /\ input # <<>>
  /\ Range(Line(input)) \subseteq Blank
  /\ input' = SubSeq(input, Len(Line(input)) + 1, Len(input))
  /\ UNCHANGED <<setting, at, words, after, args, used_args, used_lines, ret, ran>>

\* Any other line is counted and scanned.  At max_lines there is only a TODO:
\* the counters start over and the command is not run.
ReadLine ==
  /\ at = "read" /\ input # <<>> /\ ~(Range(Line(input)) \subseteq Blank)
  /\ input' = SubSeq(input, Len(Line(input)) + 1, Len(input))
  /\ LET full == Given("max_lines") /\ used_lines + 1 >= setting.max_lines
     IN  /\ used_lines' = IF full THEN 0 ELSE used_lines + 1
         /\ used_args'  = IF full THEN 0 ELSE used_args
  /\ \E scan \in {Scanned(Line(input))} :
       /\ words' = IF scan.quote = "" THEN WordsOf(scan) ELSE scan.words
       /\ after' = IF scan.quote # "" THEN "unmatched"
                   ELSE IF scan.space = Newline THEN "read" ELSE "last"
  /\ at' = "add"
  /\ UNCHANGED <<setting, args, ret, ran>>

AddArgLate ==
  /\ at = "add" /\ words # <<>>
  /\ words' = Tail(words)
  /\ args' = Append(args, Head(words))
  /\ used_args' = used_args + 1
  /\ at' = IF Given("max_args") /\ used_args > setting.max_args THEN "run" ELSE "add"
  /\ UNCHANGED <<setting, input, after, used_lines, ret, ran>>

\* add_arg: the command runs as soon as it has max_args arguments.
AddArg ==
  /\ at = "add" /\ words # <<>>
  /\ words' = Tail(words)
  /\ args' = Append(args, Head(words))
  /\ used_args' = used_args + 1
  /\ at' = IF Given("max_args") /\ used_args + 1 >= setting.max_args THEN "run" ELSE "add"
  /\ UNCHANGED <<setting, input, after, used_lines, ret, ran>>

\* The line is done: read on, or leave the loop, or give up on a quote.
EndLine ==
  /\ at = "add" /\ words = <<>> /\ after = "read"
  /\ at' = "read"
  /\ UNCHANGED <<setting, input, words, after, args, used_args, used_lines, ret, ran>>

Unmatched ==
  /\ at = "add" /\ words = <<>> /\ after = "unmatched"
  /\ at' = "exited" /\ ret' = 1
  /\ UNCHANGED <<setting, input, words, after, args, used_args, used_lines, ran>>

LeaveLoopDropsRest ==
  /\ (at = "read" /\ input = <<>>) \/ (at = "add" /\ words = <<>> /\ after = "last")
  /\ at' = "exited"
  /\ UNCHANGED <<setting, input, words, after, args, used_args, used_lines, ret, ran>>

LeaveLoop ==
  /\ (at = "read" /\ input = <<>>) \/ (at = "add" /\ words = <<>> /\ after = "last")
  /\ at' = IF used_args > 0 THEN "last_run" ELSE "exited"
  /\ UNCHANGED <<setting, input, words, after, args, used_args, used_lines, ret, ran>>

(***************************************************************************)
(* execute_cmd: the child ends with status 0, with 127 because there is no *)
(* such command, in any other way, or there is no child.                   *)
(***************************************************************************)
Outcome == {"ok", "missing", "failed", "no_child"}

Ran(outcome) == ran' = Append(ran, [args |-> args, outcome |-> outcome])

RunGoesOn(outcome) ==
  /\ at \in {"run", "last_run"} /\ outcome \in {"ok", "failed"}
  /\ Ran(outcome)
  /\ ret' = IF outcome = "failed" THEN 123 ELSE 0
  /\ at' = IF at = "run" THEN "add" ELSE "exited"
  /\ args' = <<>> /\ used_args' = 0 /\ used_lines' = 0
  /\ UNCHANGED <<setting, input, words, after>>

Run(outcome) ==
  /\ at \in {"run", "last_run"} /\ outcome \in {"ok", "failed"}
  /\ Ran(outcome)
  /\ ret' = IF outcome = "failed" THEN 123 ELSE ret
  /\ at' = IF at = "run" THEN "add" ELSE "exited"
  /\ args' = <<>> /\ used_args' = 0 /\ used_lines' = 0
  /\ UNCHANGED <<setting, input, words, after>>

RunQuits(outcome) ==
  /\ at \in {"run", "last_run"} /\ outcome \in {"missing", "no_child"}
  /\ Ran(outcome)
  /\ ret' = IF outcome = "missing" THEN 127 ELSE 126
  /\ at' = "exited"
  /\ UNCHANGED <<setting, input, words, after, args, used_args, used_lines>>

Done == at = "exited" /\ UNCHANGED vars

Next ==
  \/ SkipBlanks \/ ReadLine \/ AddArg \/ EndLine \/ Unmatched \/ LeaveLoop
  \/ \E outcome \in Outcome : Run(outcome) \/ RunQuits(outcome)
  \/ Done

Spec == Init /\ [][Next]_vars

-------------------------------------------------------------------------------
(***************************************************************************)
(* What xargs promises.                                                    *)
(***************************************************************************)
Exited == at = "exited"
Executed == FlattenSeq([i \in DOMAIN ran |-> ran[i].args])
Special == Blank \cup {Newline, "\\", "'", "\""}
WellSpelled(w) ==
  /\ Newline \notin Range(w.word) /\ w.style # "open"
  /\ w.style \in {"bare", "escaped"} => w.word # <<>>
  /\ w.style = "bare"   => Range(w.word) \cap Special = {}
  /\ w.style = "single" => "'" \notin Range(w.word)
WellFormed ==
  \A i \in DOMAIN setting.lines :
    /\ Len(LineText(setting.lines[i]) \o setting.trails[i]) < LineMax - 1
    /\ \A k \in DOMAIN setting.lines[i] : WellSpelled(setting.lines[i][k])
Handed == Executed \o (IF at = "exited" /\ ret > 123 THEN <<>> ELSE args) \o words

\* A line that ends the input: it has no word, or a blank behind its last word.
Stops(i) == setting.lines[i] = <<>> \/ setting.trails[i] # <<>>

\* At every moment the arguments handed out, those waiting in cur_argv and the
\* words scanned are the beginning of what the input spells: no argument is
\* altered, lost, repeated or moved by the scan, by a batch that ends in the
\* middle of a line or by a failing command.
ArgumentsInOrder == WellFormed => IsPrefix(Handed, Meant(setting.lines))

\* Unless a command is missing or the input malformed, xargs has made every word of
\* the lines up to and including the first that ends the input an argument of exactly
\* one command when it returns, and no other word (without -L).  The line that ends
\* the input is the first without a word or with a blank behind its last word (line
\* 199), or the last of all.
AllExecuted ==
  Exited /\ ret \in {0, 123} /\ WellFormed /\ ~Given("max_lines") =>
    \E n \in 0..Len(setting.lines) :
      /\ Executed = Meant(SubSeq(setting.lines, 1, n))
      /\ n < Len(setting.lines) => n > 0 /\ Stops(n)
      /\ \A i \in 1..(n - 1) : ~Stops(i)

\* "ignore empty lines" (line 132): the words behind a line without a word are
\* arguments like those before it.
EmptyLinesIgnored ==
  Exited /\ ret \in {0, 123} /\ WellFormed /\ ~Given("max_lines")
    /\ (\A i \in DOMAIN setting.trails : setting.trails[i] = <<>>) =>
    Executed = Meant(setting.lines)

\* With -n N every command but the last gets exactly N arguments, and the last
\* at most N (lines 103-109); N <= 0 counts as 1.
FullBatches ==
  setting.flags = {"max_args"} =>
    LET n == IF setting.max_args < 1 THEN 1 ELSE setting.max_args
    IN  \A i \in DOMAIN ran :
          /\ Len(ran[i].args) <= n
          /\ i < Len(ran) => Len(ran[i].args) = n

\* The exit status tells how the commands ended: 127 or 126 as soon as one is
\* missing or cannot be started, and no command runs after it; 123 if some
\* other command failed, however many succeeded since; 0 only if all did.
StatusTells ==
  /\ \A i \in DOMAIN ran : ran[i].outcome \in {"missing", "no_child"} => i = Len(ran) /\ Exited
  /\ Exited /\ ret # 1 =>
       ret = CASE \E i \in DOMAIN ran : ran[i].outcome = "missing"  -> 127
               [] \E i \in DOMAIN ran : ran[i].outcome = "no_child" -> 126
               [] \A i \in DOMAIN ran : ran[i].outcome = "ok"       -> 0
               [] OTHER                                             -> 123

===============================================================================
