-------------------------------- MODULE MCFind --------------------------------
(* Small command lines and trees for Find. *)
EXTENDS Find

Operators == NotWords \cup AndWords \cup OrWords \cup {"(", ")"}
Globs     == {"a*", "?", "*b"}
MCWord == Operators \cup Primary \cup Globs \cup {".", "a", "b", "a/", "d", "f", "l", "x", "2"}

\* What starts with "-" is spelled no further than its meaning asks for.
MCSpell == [w \in MCWord |->
  CASE w = "a/"    -> <<"a", "/">>
    [] w = "a*"    -> <<"a", "*">>
    [] w = "*b" -> <<"*", "b">>
    [] w \in (Operators \ {"(", ")", "!"}) \cup Primary -> <<"-", w>>
    [] OTHER       -> <<w>>]

MCChar == MCWord \cup {"/", "-", "*"}
MCNumeral == "2" :> 2
MCUid == "2" :> 2 @@ "a" :> 1
MCUsers == {0, 1}
MCLeads == [w \in MCWord |-> CASE w \in {"a", "a/"} -> <<"a">>
                               [] w \in {"b", "x"} -> <<w>>
                               [] OTHER -> <<>>]

A == <<"a">>
B == <<"b">>
AA == <<"a", "a">>
AB == <<"a", "b">>
AAB == <<"a", "a", "b">>

Tree(entries) == (<<>> :> Dir) @@ entries
Empty  == <<>> :> Dir
Nested == Tree(A :> Dir @@ AA :> Dir @@ AAB :> File(1) @@ AB :> File(2))
Linked == Tree(A :> Dir @@ AA :> Link(<<>>) @@ AB :> File(1) @@ B :> File(1))

Owner == <<>> :> 0 @@ A :> 1 @@ B :> 2 @@ AA :> 1 @@ AB :> 2 @@ AAB :> 3

Meet(line, t, fresh, faults) ==
  [argv |-> line, tree |-> t, owner |-> Owner, fresh |-> fresh, faults |-> faults]
Calm(line, t) == Meet(line, t, {}, {})

\* The parser: all short command lines, and every primary with what may follow it.
Lines == BoundedSeq({"(", ")", "!", "-o", "-a", "-print", "-name", "x"}, 4) \cup
         BoundedSeq({"(", ")", "-o", "-print"}, 6)
Single == {<<p>> \o rest : p \in Primary,
             rest \in {<<>>, <<"x">>, <<"2">>, <<"d">>, <<"a", "-o", "-print">>}}
Parsing == {Calm(l, Empty) : l \in Lines} \cup {Calm(l, Linked) : l \in Single}

\* The walk over a quiet tree.
Paths == {<<>>, <<"a">>, <<"a/">>, <<"a", "b">>, <<"a", ".">>}
Exprs == {<<>>, <<"-name", "b">>, <<"-name", "a*">>, <<"-path", "*b">>, <<"-type", "f">>,
          <<"-type", "l">>, <<"-links", "2">>, <<"-user", "2">>, <<"!", "-nouser">>,
          <<"(", "-name", "?", "-o", "-type", "f", ")", "!", "-user", "2">>,
          <<"-name", "a", "-o", "-type", "f", "-print">>, <<"-type", "d", "-o", "-prune">>}
Walking == {Calm(p \o e, t) : p \in Paths, e \in Exprs, t \in {Nested, Linked}}

\* The walk while other programs come and go.
Hostile == {Meet(p \o e, t, fresh, faults) :
              p \in {<<"a">>, <<"a", "b">>}, e \in {<<>>, <<"!", "-type", "d">>}, t \in {Nested, Linked},
              fresh \in {{AA}, {AB, B}, {AA, AAB}}, faults \in {{}, {"lstat", "opendir"}}}

MCSettings == Parsing \cup Walking \cup Hostile

\* One -print of one's own.
Printing == {Calm(p \o <<"-print">>, Linked) : p \in {<<>>, <<"b">>}}
===============================================================================
