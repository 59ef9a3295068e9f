--------------------------------- MODULE MCCp ---------------------------------
(* Small file systems and command lines for Cp. *)
EXTENDS Cp

A == <<"a">>
B == <<"b">>
D == <<"d">>
E == <<"e">>
In(dir, n) == Append(dir, n)

Holding(data, setuid) ==
  [data |-> data, meta |-> [mode  |-> [bits |-> "private", setuid |-> setuid],
                            owner |-> "other", time |-> "old"]]
Disk(nodes, files) == [tree |-> (<<>> :> Dir) @@ nodes, file |-> files]

\* Files 1 and 2 take two and one turns of the copying loop, 2 is a set-user-ID
\* program; 3 and 4 are in the way.
Files == <<Holding(<<1, 1>>, FALSE), Holding(<<2>>, TRUE),
           Holding(<<3>>, FALSE), Holding(<<4>>, FALSE)>>

\* A directory with a file, an empty directory and a file beside it ...
Nested == A :> Dir @@ In(A, "a") :> File(1) @@ In(A, "b") :> Dir @@ B :> File(2)
\* ... with a directory to go to, which may hold an older copy.
Plain == Disk(Nested @@ D :> Dir, Files)
Older == Disk(Nested @@ D :> Dir @@ In(D, "a") :> Dir @@ In(In(D, "a"), "a") :> File(3)
                     @@ In(D, "b") :> File(4), Files)

\* A file with a second name and links to it, to nothing and to a directory.
Linked == Disk(A :> File(1) @@ B :> File(1) @@ <<"c">> :> Link(A) @@ D :> Dir
               @@ In(D, "a") :> Link(A) @@ In(D, "b") :> Link(<<"e">>)
               @@ <<"l">> :> Link(D), Files)

Line(prog, args) == [prog |-> prog, args |-> args, slash |-> FALSE, to |-> {}, force |-> FALSE,
                     interactive |-> FALSE, recursive |-> FALSE, preserve |-> FALSE]
Idle == Line("cp", <<>>)
Scene(d, cmds, answers, faults) ==
  [tree |-> d.tree, file |-> d.file, cmd |-> cmds, answers |-> answers, faults |-> faults]

\* A lone cp, mv or install with every kind of refused call, and every way to
\* name DESTINATION.
LoneArgs  == {<<>>, <<B>>, <<A, D>>, <<B, D>>, <<B, A, D>>, <<A, E>>, <<B, In(A, "a")>>, <<E, B>>}
LoneLines == {[Line("cp", a) EXCEPT !.recursive = r, !.preserve = r, !.force = f] :
                a \in LoneArgs, r \in BOOLEAN, f \in BOOLEAN}
             \cup {Line("mv", a) : a \in LoneArgs}
             \cup {[Line("install", <<B, E>>) EXCEPT !.slash = s, !.to = t] :
                     s \in BOOLEAN, t \in SUBSET {"dir", "file"}}
CopyFaults == {"rename", "open_src", "open_dest", "opendir", "read", "write", "unlink", "rmdir"}
Lone == {Scene(d, <<l, Idle>>, {}, CopyFaults) : d \in {Plain, Older}, l \in LoneLines}

\* One file under several names.
LinkLines == {[Line(prog, <<x, y>>) EXCEPT !.force = f] :
                prog \in {"cp", "mv"}, f \in BOOLEAN,
                x \in {A, B, <<"c">>, In(D, "b")}, y \in {A, B, <<"c">>, D, <<"l">>, E}}
Links == {Scene(Linked, <<l, Idle>>, {}, {"rename", "open_dest"}) : l \in LinkLines}

\* A mv of a directory and one of it or of a file in it, each to a place of its own.
Alone2 == Disk(A :> Dir @@ In(A, "a") :> File(1) @@ B :> File(2) @@ D :> Dir, Files)
Movers == {Scene(Alone2, <<Line("mv", <<A, D>>), Line("mv", <<x, E>>)>>, {},
                 {"rename", "mkdir", "open_src", "open_dest", "unlink"}) : x \in {A, In(A, "a")}}

\* Two mv of one file to one place.
Rivals == {Scene(Alone2, <<Line("mv", <<B, E>>), Line("mv", <<B, E>>)>>, {}, {"rename"})}

\* Prompts, also before a file is reached under a second name or through a link.
Shared == Disk(A :> File(1) @@ B :> File(1) @@ E :> File(2) @@ D :> Dir
               @@ In(D, "e") :> Link(A), Files)
AskOther == {[Line(prog, a) EXCEPT !.interactive = TRUE, !.force = TRUE] :
               prog \in {"cp", "mv"}, a \in {<<E, B>>, <<E, D>>, <<E, In(D, "e")>>}}
AskLines == {[Line(prog, a) EXCEPT !.interactive = TRUE, !.recursive = TRUE] :
               prog \in {"cp", "mv"}, a \in {<<B, D>>, <<B, In(A, "a")>>, <<B, A, D>>}}
Asked == {Scene(Older, <<l, Idle>>, answers, {"rename"}) :
            l \in AskLines, answers \in {{"line y", "line n", "bare y"}, {"nothing"}}}
  \cup {Scene(Shared, <<l, Idle>>, {"line n", "bare y"}, {"rename", "open_dest"}) :
            l \in AskOther}

MCProc == {1, 2}
MCSettings == Lone \cup Links \cup Movers \cup Rivals \cup Asked

\* The scene of the disagreement: mv with a read error.
Broken == {Scene(Plain, <<Line("mv", <<B, E>>), Idle>>, {}, {"rename", "read"})}
===============================================================================
