---------------------------- MODULE MCInflateWalk ----------------------------
(* gunzip with its files, then chmod, chown, ls and test with their trees: programs that
   share nothing, of which one is given something to do, the other next to nothing. *)
EXTENDS MCWalk, MCInflate

AtRest == Lone(Deep, TestOf("test", <<>>))
Packs  == GzLine("gzip", {}, <<"none", "f">>)

BothInit ==
  \/ setting = AtRest /\ Init /\ GzInit
  \/ job = Packs /\ GzInit /\ Init

Unpacks  == at \in {"exit", "spins"} /\ UNCHANGED gzVars
BothNext == (GzNext /\ UNCHANGED vars) \/ (Unpacks /\ Next)
BothSpec == BothInit /\ [][BothNext]_<<gzVars, vars>> /\ WF_gzVars(GzNext)
==============================================================================
