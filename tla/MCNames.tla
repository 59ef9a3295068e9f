-------------------------------- MODULE MCNames --------------------------------
(* Small trees and command lines for Names. *)
EXTENDS Names

A == <<"a">>
B == <<"b">>
C == <<"c">>
D == <<"d">>
E == <<"e">>
In(dir, n) == Append(dir, n)

Tree(nodes) == (<<>> :> Dir) @@ nodes

\* Two files, a link to a directory, and the directory with
\* an older file, a link and an empty directory.
Mixed == Tree(A :> File(1) @@ B :> File(2) @@ C :> Link(D) @@ D :> Dir
              @@ In(D, "a") :> File(3) @@ In(D, "b") :> Link(A) @@ In(D, "d") :> Dir)
\* A chain of directories with a file at its end, and room beside it.
Chain == Tree(A :> Dir @@ In(A, "b") :> Dir @@ <<"a", "b", "d">> :> Dir @@ B :> File(2))
Pair  == Tree(A :> File(1) @@ B :> File(2) @@ D :> Dir @@ In(D, "a") :> File(3))
Bare  == Tree(A :> File(1) @@ B :> Dir)

Line(prog, args, flags) == [prog |-> prog, args |-> args, slash |-> FALSE, flags |-> flags]
Idle == Line("touch", <<>>, {})
Scene(t, cmds, answers, faults) ==
  [tree |-> t, cmd |-> cmds, answers |-> answers, faults |-> faults]
Lone(t, c, faults) == Scene(t, <<c, Idle, Idle>>, {"line y", "bare y"}, faults)

\* A lone ln: every pair of paths, pairs of flags, any call refused; not the
\* ln -s whose link something else already points to or that points to itself.
Sources == {A, B, D, In(D, "a"), <<"e">>}
Dests   == {A, C, D, In(D, "b"), <<"e">>, In(D, "e")}
LnFlags == {f \in SUBSET {"dir", "file", "force", "interactive", "symbolic"} :
              Cardinality(f) <= 2} \cup {{"force", "interactive", "symbolic"}}
LoneLines == {l \in {Line("ln", <<x, y>>, f) : x \in Sources, y \in Dests, f \in LnFlags} :
                "symbolic" \in l.flags => /\ l.args[2] \notin {A, l.args[1]}
                                         /\ l.args[1] # In(D, "a")}
LoneLn ==
  {Lone(Mixed, l, r) : l \in LoneLines, r \in {{}, {"remove", "link"}}}
  \cup {Lone(Mixed, [Line("ln", a, f) EXCEPT !.slash = "file" \notin f], {}) :
          a \in {<<>>, <<A>>, <<A, B>>, <<A, D>>, <<In(D, "b"), B, A, C>>},
          f \in {{}, {"force"}, {"file"}, {"interactive", "force"}}}
  \cup {[Lone(Mixed, Line("ln", <<A, B>>, f), {}) EXCEPT !.answers = {a}] :
          a \in {"line y", "line n", "nothing"}, f \in {{"interactive"}, {"interactive", "force"}}}
  \cup {Lone(Mixed @@ In(D, "c") :> Link(D), Line("ln", <<x, In(D, "c")>>, f), {}) :
          x \in {A, B, C}, f \in {{"force"}, {"force", "symbolic"}}}

\* The other commands alone.
Paths  == {<<"a", "b", "c">>, <<"a", "b", "d">>, <<"b", "c">>, B, <<"a">>}
Single(prog, flags) == {Lone(t, Line(prog, a, f), r) :
                          t \in {Chain, Mixed}, f \in SUBSET flags,
                          a \in {<<>>} \cup {<<x>> : x \in Paths} \cup {<<x, y>> : x, y \in Paths},
                          r \in {{}, {"mkdir", "rmdir", "open", "unlink"}}}
LoneOther == Single("mkdir", {"parents"}) \cup Single("rmdir", {"parents"})
             \cup Single("touch", {"no_create", "access", "modify"}) \cup Single("unlink", {})
             \cup {Lone(Chain, Line("mkdir", <<<<>>>>, f), {}) : f \in SUBSET {"parents"}}

\* Three processes that each want one name.
Wanted  == {Line("mkdir", <<<<"e">>>>, {}), Line("mkdir", <<<<"b", "a">>>>, {}),
            Line("ln", <<A, <<"e">>>>, {}), Line("ln", <<A, <<"e">>>>, {"symbolic"}),
            Line("ln", <<A, B>>, {}), Line("touch", <<<<"e">>>>, {}),
            Line("mkdir", <<<<"e", "a">>>>, {"parents"})}
Triples(lines) == {<<x, y, z>> : x, y, z \in lines}
Race == {Scene(Bare, c, {}, {}) : c \in {t \in Triples(Wanted) :
           \A i \in 1..3 : "symbolic" \in t[i].flags =>
             \A j \in 1..3 : t[j].flags # {"parents"}}}

\* mkdir -p and rmdir -p on paths that share parents.
Deep(prog) == {Line(prog, <<x>>, {"parents"}) :
                 x \in {<<"c", "a", "b">>, <<"c", "a", "d">>, <<"c", "a">>, <<"a", "b", "c">>, <<"a", "b", "d">>}}
Meet == {Scene(Chain, c, {}, {}) : c \in Triples(Deep("mkdir"))}
        \cup {Scene(Chain, <<x, y, z>>, {}, {}) :
                x \in Deep("mkdir"), y \in Deep("rmdir"), z \in Deep("rmdir")}

\* ln -f that cross, with others that take or make the same names.
Cross == {Scene(Pair, <<Line("ln", <<A, B>>, {"force"}), y, z>>, {}, {}) :
            y \in {Line("ln", <<B, A>>, {"force"}), Line("unlink", <<B>>, {}), Line("unlink", <<A>>, {})},
            z \in {Idle, Line("mkdir", <<B>>, {}), Line("ln", <<In(D, "a"), B>>, {"force", "symbolic"}),
                   Line("touch", <<A>>, {}), Line("rmdir", <<B>>, {})}}

\* A DESTINATION that is a link, and the link changes.
Turned == {Scene(Mixed @@ In(E, "a") :> Dir @@ E :> Dir,
                 <<Line("ln", <<A, C>>, {f}), Line("unlink", <<C>>, {}),
                   Line("ln", <<E, C>>, {"symbolic", "file"})>>, {"bare y"}, {}) :
             f \in {"force", "interactive"}}

\* The scene of the disagreement: a mkdir between the lstat and the remove of ln -f.
Replaced == {Scene(Pair, <<Line("ln", <<A, B>>, {"force"}), Line("unlink", <<B>>, {}),
                           Line("mkdir", <<B>>, {})>>, {}, {})}

MCProc == 1..3
MCSettings == LoneLn \cup LoneOther \cup Race \cup Meet \cup Cross \cup Turned
===============================================================================
