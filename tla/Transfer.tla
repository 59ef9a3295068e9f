------------------------------- MODULE Transfer -------------------------------
(***************************************************************************)
(* What a pipeline promises to the one who reads its output: the text it   *)
(* stands for comes in order, piece by piece, nothing else comes, and      *)
(* after the last of it the end.                                           *)
(***************************************************************************)
EXTENDS Naturals, Sequences

VARIABLES text,    \* what the pipeline stands for
          out,     \* what has come of it
          closed   \* whether the end has come

vars == <<text, out, closed>>

Init == out = <<>> /\ closed = FALSE

Send ==
  /\ ~closed
  /\ \E n \in (Len(out) + 1)..Len(text) : out' = SubSeq(text, 1, n)
  /\ UNCHANGED <<text, closed>>

Close == ~closed /\ out = text /\ closed' = TRUE /\ UNCHANGED <<text, out>>

Next == Send \/ Close

Spec == Init /\ [][Next]_vars /\ WF_vars(Next)
===============================================================================
