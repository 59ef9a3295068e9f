--------------------------- MODULE MCLinePipeline ---------------------------
(* main and parse_opts with their command lines, then a pipeline of commands, whose
   settings hold the options as parse_opts leaves them: one of the two is given something
   to do, the other next to nothing. *)
EXTENDS MCPipeline, MCOptions

AtRest == Lone(C("head", {"bytes"}, <<>>, 0), <<>>)

BothInit ==
  \/ setting = AtRest /\ Init /\ OptInit
  \/ line = <<>> /\ OptInit /\ Init

Parsed   == at \in {"run", "informed", "refused"} /\ UNCHANGED optVars
BothNext == (OptNext /\ UNCHANGED vars) \/ (Parsed /\ Next)
BothSpec ==
  /\ BothInit /\ [][BothNext]_<<optVars, vars>>
  /\ WF_optVars(OptNext)
  /\ \A p \in 1..Longest : WF_vars(Parsed /\ p \in Proc /\ Step(p))
=============================================================================
