----------------------------- MODULE MCGlobFind -----------------------------
(* glob_match with its patterns, then find with its command lines.  find takes a call
   of glob_match for one step (FindExpr), so the two share no state: one of them is given
   something to do, the other next to nothing. *)
EXTENDS MCFind, MCGlob

AtRest == Calm(<<"x">>, Empty)

BothInit ==
  \/ setting = AtRest /\ Init /\ GlobInit
  \/ pattern = <<>> /\ string = <<>> /\ GlobInit /\ Init

Finds    == result # "none" /\ Next /\ UNCHANGED match
BothNext == (GlobNext /\ UNCHANGED vars) \/ Finds
BothSpec == BothInit /\ [][BothNext]_<<match, vars>> /\ WF_match(GlobNext)
=============================================================================
