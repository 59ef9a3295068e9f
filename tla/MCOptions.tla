------------------------------ MODULE MCOptions ------------------------------
(* Small tables and command lines for Options. *)
EXTENDS Options, SequencesExt, TLC

Flagged(c, str, fl) == [c |-> c, str |-> str, flags |-> fl, arg_type |-> "noarg", value |-> NULL]
Takes(c, str, fl, type, var) == [c |-> c, str |-> str, flags |-> fl, arg_type |-> type, value |-> var]

\* Cut from the tables of basename.c, stat.c, xargs.c, head.c and mkdir.c: options of
\* which one is implied by another, that share a variable, without a letter, without a
\* long name, of each type.
Stat == <<Takes("c", "--format", {"format"}, "str", "fmt"),
          Takes("", "--printf", {"printf"}, "str", "fmt"),
          Flagged("t", NULL, {"terse"}),
          Takes("n", "--lines", {"lines", "terse"}, "int", "lines"),
          Takes("m", "--mode", {}, "mode", "mode"),
          Takes("s", "--seek", {"seek"}, "size", "seek"),
          Flagged("t", "--cached", {})>>

Entry(name, usage, options) == [name |-> name, usage |-> usage, options |-> options]

MCCommands == <<Entry("[", FALSE, <<>>), Entry("dd", TRUE, <<>>), Entry("ls", TRUE, <<Flagged("t", NULL, {"terse"})>>),
                Entry("stat", TRUE, Stat), Entry("tr", TRUE, Tail(Stat))>>

MCWord == {"-", "--", "--cached", "--cached=x", "--format", "--help", "--lines",
           "--lines=9", "--man", "--mode", "--mode=x", "--printf", "--seek",
           "--version", "--zz", "-1", "-c", "-m", "-nc", "-t", "-tn", "-z", "9",
           "[", "a", "bin/stat", "bin/tutils", "dd", "de", "ls", "stat", "tr",
           "tutils", "x", "yes"}

Names == {"[", "dd", "ls", "stat", "tr"}
Texts == {"9", "-1", "x"}
MCLetters == "-" :> <<>> @@ "-t" :> <<"t">> @@ "-c" :> <<"c">> @@ "-tn" :> <<"t", "n">> @@ "-nc" :> <<"n", "c">>
             @@ "-m" :> <<"m">> @@ "-z" :> <<"z">> @@ "-1" :> <<"1">>
MCLong == [w \in {"--", "--help", "--version", "--man", "--cached", "--format", "--printf", "--seek", "--lines",
                 "--mode"} |-> w]
          @@ "--lines=9" :> "--lines" @@ "--mode=x" :> "--mode" @@ "--cached=x" :> "--cached" @@ "--zz" :> "--zz"
MCAttached == "--lines=9" :> "9" @@ "--mode=x" :> "x" @@ "--cached=x" :> "x"
MCBase == [w \in MCWord |-> CASE w = "bin/stat" -> "stat" [] w = "bin/tutils" -> "tutils" [] OTHER -> w]

MCNumeral == "9" :> 9 @@ "-1" :> -1
MCOctal == "-1" :> -1

Tails == BoundedSeq(DOMAIN MCLetters \cup DOMAIN MCLong \cup Texts, 2)
Rich  == BoundedSeq({"-", "-t", "-c", "-nc", "--", "--printf", "--lines=9", "--man", "9", "x"}, 4)
MCLines == {<<"bin/stat">> \o t : t \in Tails \cup Rich}
           \cup {<<n>> \o t : n \in Names, t \in BoundedSeq({"-t", "--", "--help", "--zz", "9"}, 2)}
           \cup {<<n>> : n \in MCWord} \cup {<<t, n>> : t \in {"tutils", "bin/tutils"}, n \in MCWord}
           \cup {<<>>}
===============================================================================
