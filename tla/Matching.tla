------------------------------- MODULE Matching -------------------------------
(***************************************************************************)
(* What it means that a pattern matches a string, without an algorithm:    *)
(* the string can be cut so that each character of the pattern gets a      *)
(* piece it may have.  A cut of the pattern's places i to j says where in  *)
(* the string each piece starts.  Glob shows that this is what glob_match  *)
(* decides, and Find uses it for the calls of glob_match.                  *)
(***************************************************************************)
EXTENDS Integers, Sequences

CONSTANT Char  \* the characters of patterns and strings

MayHave(p, t, i, a, b) ==
  IF p[i] = "*" THEN a <= b
  ELSE b = a + 1 /\ a <= Len(t) /\ (p[i] = "?" \/ p[i] = t[a])

Cuts(p, t, i, j) ==
  {cut \in [i..j -> 1..(Len(t) + 1)] : \A k \in i..(j - 1) : MayHave(p, t, k, cut[k], cut[k + 1])}

\* The places i to j - 1 of the pattern match the string from a to b - 1.
Spans(p, t, i, a, j, b) == \E cut \in Cuts(p, t, i, j) : cut[i] = a /\ cut[j] = b

MatchesFrom(p, t, i, a) == Spans(p, t, i, a, Len(p) + 1, Len(t) + 1)
Matches(p, t) == MatchesFrom(p, t, 1, 1)
===============================================================================
