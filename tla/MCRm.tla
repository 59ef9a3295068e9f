--------------------------------- MODULE MCRm ---------------------------------
(* Small trees and command lines for Rm. *)
EXTENDS Rm

Here == <<>>   \* the working directory
A == <<"a">>
B == <<"b">>
AB == <<"a", "b">>
AC == <<"a", "c">>
ACB == <<"a", "c", "b">>

Tree(nodes) == (<<>> :> Dir) @@ nodes

\* Two levels, a file beside them, and a link out of the directory.
Nested == Tree(A :> Dir @@ AB :> File(1) @@ AC :> Dir @@ ACB :> File(2) @@ B :> File(3))
Linked == Tree(A :> Dir @@ AB :> Link(<<"c">>) @@ <<"c">> :> Dir @@ <<"c", "a">> :> File(1))
Flat   == Tree(A :> File(1) @@ B :> Dir)

Line(args, force, recursive) == [args |-> args, force |-> force, recursive |-> recursive]
Idle == Line(<<>>, FALSE, FALSE)

Calm(t, c1, c2) == [tree |-> t, cmd |-> <<c1, c2>>, fresh |-> {}, links |-> {}, faults |-> {}]

\* A lone rm on every tree with every command line.
Operands == {<<>>, <<A>>, <<B, A>>, <<AC, A>>, <<A, AC>>, <<<<"c">>, B, B>>, <<Here>>, <<A, Here, B>>}
Lone == {Calm(t, Line(o, f, r), Idle) :
           t \in {Nested, Linked, Flat}, o \in Operands, f \in BOOLEAN, r \in BOOLEAN}

\* Two rm -r on overlapping operands.
Race == {Calm(t, Line(<<A>>, f, TRUE), Line(o, f, TRUE)) :
           t \in {Nested, Linked}, f \in BOOLEAN, o \in {<<A>>, <<AC, B>>}}
  \cup {Calm(Linked, Line(<<A>>, f, TRUE), Line(<<Here>>, f, TRUE)) : f \in BOOLEAN}

\* One rm -rf, any call of which may be refused, and a program that makes
\* entries in the directories it empties.
Refilled == {AB, ACB, <<"a", "c", "c">>}
Hostile == {[tree |-> t, cmd |-> <<Line(o, TRUE, TRUE), Idle>>, fresh |-> Refilled, links |-> {},
             faults |-> Calls] :
              t \in {Nested, Linked}, o \in {<<A>>, <<AC, B>>}}

\* Two rm -r, and a program that makes a link out of the operand where one of
\* them has just removed a directory the other may be about to open.
Aside == Tree(A :> Dir @@ AC :> Dir @@ ACB :> Dir @@ <<"c">> :> Dir @@ <<"c", "a">> :> File(1)
              @@ <<"c", "b">> :> Link(B) @@ B :> Dir @@ <<"b", "a">> :> File(2))
Swapped == {[tree |-> Aside, cmd |-> <<Line(<<A>>, f, TRUE), Line(<<AC>>, f, TRUE)>>,
             fresh |-> {}, links |-> {[at |-> ACB, to |-> q]}, faults |-> {}] :
              f \in BOOLEAN, q \in {<<"c">>, <<"c", "a">>, <<"b", "c">>}}

MCProc == {1, 2}
MCSettings == Lone \cup Race \cup Hostile \cup Swapped
===============================================================================
