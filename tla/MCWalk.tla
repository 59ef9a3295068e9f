-------------------------------- MODULE MCWalk --------------------------------
(* Small trees and command lines for Walk. *)
EXTENDS Walk

MCUsers    == [root |-> 0, bob |-> 1]
MCSpelling == ("." :> <<46>>) @@ (".." :> <<46, 46>>) @@ (".h" :> <<46, 104>>)
              @@ [a |-> <<97>>, bb |-> <<98, 98>>, c |-> <<99>>, ccc |-> <<99, 99, 99>>, d |-> <<100>>]

A == <<"a">>
C == <<"c">>
D == <<"d">>
In(n) == Append(D, n)

(* A directory with a file, a hidden file, a directory in it, and a link out of it. *)
Flat == (<<>> :> Dir) @@ (A :> File(1)) @@ (D :> Dir) @@ (In("a") :> File(2)) @@ (In("bb") :> File(3)) @@ (In(".h") :> File(4))
Deep == Flat @@ (C :> Dir) @@ (Append(C, "a") :> File(5)) @@ (In("c") :> Link(C)) @@ (In("d") :> Dir)
             @@ (Append(In("d"), "a") :> File(6))

Rw == {<<"u", "r">>, <<"u", "w">>, <<"g", "r">>}
At(mode, gid, size, m, c, a) == [mode |-> mode, uid |-> 0, gid |-> gid, size |-> size, mtime |-> m, ctime |-> c, atime |-> a]

(* Sizes and times of which no two orders agree; a bit more than 1, 2 and 3 units. *)
Attr(q) ==
  CASE q = <<>>       -> At(Bits, 0, 4096, 1, 1, 1)
    [] q = A          -> At(Rw, 0, 1023, 3, 1, 2)
    [] q = In("a")    -> At(Rw, 0, 1999, 3, 4, 2)
    [] q = In("bb")   -> At({}, 1, 1048576, 2, 4, 5)
    [] q = In("ccc")  -> At(Rw, 1, 1999, 1, 2, 3)
    [] q = In(".h")   -> At({<<"u", "s">>, <<"g", "s">>, <<"g", "x">>, Sticky}, 0, 0, 9, 9, 9)
    [] OTHER          -> At(Rw \cup {<<"u", "x">>}, 0, 7, 4, 3, 1)

NoText == [number |-> -1, name |-> ""]
Num(n) == [number |-> n, name |-> ""]
User(n) == [number |-> -1, name |-> n]

Ls(flags, args) == [name |-> "ls", flags |-> flags, args |-> args, mode |-> <<>>, means |-> <<>>,
                    owner |-> NoText, group |-> NoText, words |-> <<>>]
Chmod(flags, mode, args) == [Ls(flags, args) EXCEPT !.name = "chmod", !.mode = mode]
Says(flags, means, args) == [Chmod(flags, Written(means), args) EXCEPT !.means = means]
Chown(flags, owner, group, args) == [Ls(flags, args) EXCEPT !.name = "chown", !.owner = owner, !.group = group]

Case(t, cmds, fresh, gone, faults, screen) ==
  LET all == DOMAIN t \cup DOMAIN fresh
  IN  [tree |-> t, attr |-> [q \in all |-> Attr(q)], cmds |-> cmds, fresh |-> fresh, gone |-> gone, faults |-> faults, screen |-> screen]
NoFresh == [q \in {} |-> Dir]
Lone(t, cmd) == Case(t, <<cmd>>, NoFresh, {}, {}, 0)

(* chmod alone: every clause, pairs of them, and what is not a clause. *)
Plain  == {Gives(w, o, q) : w \in {"", "a", "u", "g", "o"}, o \in {"+", "-"}, q \in {{}, {"r", "w"}, {"x", "s"}, {"t"}}}
          \cup {Gives(w, "=", q) : w \in {"", "a"}, q \in {{"r"}, {"w", "x", "t"}}}
          \cup {Octal(n) : n \in {<<"7", "5", "5">>, <<"0">>, <<"6", "4", "1", "2">>, <<"0", "4", "6", "0", "0">>}}
Odd    == {<<"8">>, <<"u", "8">>, <<"+", "9">>, <<"u", "=", "r", "w">>, <<"u", "g", "+", "r">>, <<",">>, <<"u", "7", "7">>,
           <<"a", "+", "r", ",">>, <<"7", "x", "+", "r">>}
Files  == {<<>>, <<A>>, <<In("bb"), <<"ccc">>, In(".h")>>}
Modess == {Lone(Flat, Says({}, <<c>>, a)) : c \in Plain, a \in Files}
          \cup {Lone(Flat, Says({}, <<c, e>>, <<In(".h")>>)) : c \in Plain, e \in {Gives("u", "-", {"r", "s"}), Gives("", "+", {"x"}), Octal(<<"1", "7">>)}}
          \cup {Lone(Flat, Chmod({}, m, <<A, D>>)) : m \in Odd}

Owners == {Num(5), User("bob"), User("nobody")}
Owns   == {Lone(t, Chown(fl, o, g, a)) : t \in {Flat, Deep}, fl \in {{}, {"chgrp"}}, o \in Owners, g \in {Num(7)},
                                         a \in {<<A, In("c")>>, <<In("bb"), <<"ccc">>>>, <<In(".h"), <<>>, In(".h")>>}}

(* -R, alone and with others. *)
R == {"recursive"}
Xs == <<Gives("u", "+", {"x"})>>
Ws == <<Gives("g", "-", {"r"}), Gives("o", "+", {"w"})>>
Recursive ==
  {Lone(Deep, c) : c \in {Says(R, Xs, <<D>>), Says(R, Xs, <<<<"ccc">>, D>>), Says(R, <<Octal(<<"7", "0", "0">>)>>, <<D>>),
                          Chown(R, Num(5), NoText, <<<<"ccc">>, D>>), Chown(R \cup {"chgrp"}, Num(5), Num(7), <<D>>)}}
Race ==
  {Case(Flat, <<Says({}, Xs, <<A, In("bb")>>), c>>, NoFresh, {}, {}, 0) :
     c \in {Says({}, Ws, <<In("bb"), A>>), Says({}, <<Octal(<<"6", "0", "0">>)>>, <<A>>), Chown({}, User("bob"), NoText, <<A, In("bb")>>)}}
  \cup {Case(Flat, <<Says({}, <<Gives("g", o, {"x", "s"})>>, <<In(".h"), A>>), Chown({}, User("bob"), NoText, <<A, In(".h")>>)>>,
             NoFresh, {}, {}, 0) : o \in {"+", "-"}}
  \cup {Case(Deep, <<Says(R, Xs, <<D>>), Chown({"chgrp"}, Num(5), Num(7), <<In("c"), In("a")>>)>>, NoFresh, {}, {}, 0),
        Case(Flat, <<Says({}, Xs, <<D, In("a"), A>>), Says(R, Ws, <<D>>)>>, NoFresh, {In("a")}, {"stat", "set", "opendir"}, 0)}

(* ls alone, with every option and on terminals of every width. *)
Small  == (<<>> :> Dir) @@ (D :> Dir) @@ (In("a") :> File(2)) @@ (In("ccc") :> File(3)) @@ (In(".h") :> File(4)) @@ (In("c") :> Link(D))
Dirs   == {<<>>, <<D>>, <<D, A>>, <<In("c"), D>>}
LsSets == {{}, {"almost"}, {"reverse"}, {"size"}, {"size", "reverse"}, {"time"}, {"time", "reverse", "almost"}, {"ctime"},
           {"atime"}, {"ctime", "atime"}, {"no_sort"}, {"list"}, {"list", "human", "almost"}, {"list", "ctime"}}
Lists  == {Lone(Small, Ls(fl, a)) : fl \in LsSets, a \in Dirs} \cup {Lone(Small, Ls({"all"}, <<D>>))}
Wide   == {Case(Deep, <<Ls({}, <<D>>)>>, NoFresh, {}, {}, w) : w \in 1..16}

(* ls while entries come and go, and calls are refused. *)
Changing ==
  {Case(Flat, <<Ls(fl, <<D>>)>>, In("ccc") :> File(7), {In("bb")}, {}, 6) : fl \in {{}, {"size", "reverse"}}}
  \cup {Case(Flat, <<Ls({"list"}, <<D>>)>>, In("ccc") :> File(7), {In("ccc")}, {}, 0)}
  \cup {Case(Flat, <<Ls(fl, <<D, A>>)>>, NoFresh, {In("a")}, {"opendir", "lstat"}, 0) : fl \in {{"almost"}, {"time"}}}

(* test: every short line of words of each kind, and more parentheses. *)
MCLetter  == ("-e" :> "e") @@ ("-f" :> "f") @@ ("-d" :> "d") @@ ("-n" :> "n") @@ ("-z" :> "z") @@ ("-u" :> "u") @@ ("-N" :> "N") @@ ("-h" :> "h") @@ ("-2" :> "2")
MCNumeral == ("1" :> 1) @@ ("01" :> 1) @@ ("-2" :> (0 - 2)) @@ ("-12" :> (0 - 12))
MCLeads   == [a |-> A, c |-> In("c"), d |-> D, e |-> In("ccc"), u |-> In(".h")]
MCMe      == [uid |-> 0, gid |-> 0]

TestOf(name, words) == [Ls({}, <<>>) EXCEPT !.name = name, !.words = words]
UpTo(n, S) == UNION {[1..k -> S] : k \in 0..n}
Cores == {<<op, w>> : op \in {"-e", "-f", "-d", "-n", "-z", "-u", "-N", "-h"}, w \in {"a", "c", "d", "e", "u", ""}}
         \cup {<<a, op, b>> : a \in DOMAIN MCNumeral, b \in DOMAIN MCNumeral \cup {"a"}, op \in {"=", "!=", "-eq", "-ne", "-lt", "-le", "-gt", "-ge"}}
Tests ==
  {Lone(Deep, TestOf("test", w)) : w \in UpTo(4, {"(", ")", "-f", "a", "="}) \cup Cores}
  \cup {Lone(Deep, TestOf(name, Around(2, e) \o more)) : name \in {"test", "["}, e \in {<<"-d", "c">>, <<"1", "-le", "01">>, <<"a", "=">>}, more \in {<<>>, <<"]">>, <<")", "]">>}}
  \cup {Case(Flat, <<TestOf("[", <<"-f", "a", "]">>)>>, NoFresh, {A}, {"stat"}, 0)}

MCSettings == Tests \cup Modess \cup Owns \cup Recursive \cup Race \cup Lists \cup Wide \cup Changing

===============================================================================
