------------------------------ MODULE NamesProofs ------------------------------
(***************************************************************************)
(* Theorems about Names for any number of processes, any trees and command *)
(* lines, any answers and any refused calls.                               *)
(***************************************************************************)
EXTENDS Names, FileSystemProofs

Places == Calls \cup {"start", "guess", "check", "loop", "exited"}

\* The part of TypeOK that speaks of the processes.
Typed ==
  /\ setting \in Settings
  /\ at \in [Proc -> Places]
  /\ target \in [Proc -> {"unset", "dir", "file"}]
  /\ operand \in [Proc -> Nat] /\ depth \in [Proc -> Nat]
  /\ agreed \in [Proc -> BOOLEAN] /\ ret \in [Proc -> {0, 1}]

\* Where a process can be, given its command line and its operand.
LnCalls == {"stat_src", "lstat_dest", "prompt", "remove", "link"}

Placed(p) ==
  /\ at[p] \in LnCalls \cup {"guess", "check"} => IsLn(p)
  /\ at[p] \in {"prompt", "remove"} => Replaces(p)
  /\ at[p] = "mkdir" => cmd[p].prog = "mkdir"
  /\ at[p] \in {"mkdir", "rmdir"} => /\ depth[p] <= Len(Arg(p))
                                     /\ Given(p, "parents") \/ depth[p] = Len(Arg(p))
  /\ at[p] = "rmdir" => cmd[p].prog = "rmdir"
  /\ at[p] = "unlink" => cmd[p].prog = "unlink"
  /\ at[p] = "open" => cmd[p].prog = "touch"
  /\ at[p] \in {"rmdir", "unlink"} => Removes(p)
  /\ at[p] \in {"start", "guess", "check"} => operand[p] = 0
  /\ at[p] \notin {"start", "exited"} => ~Misused(p)
  /\ at[p] \in Calls => operand[p] >= 1
  /\ operand[p] <= Len(Operands(p))
  /\ at[p] = "exited" /\ ret[p] = 0 => operand[p] = Len(Operands(p))

Control == Typed /\ \A p \in Proc : Placed(p)

-------------------------------------------------------------------------------
\* The operands of a command are paths.
LEMMA OperandsArePaths ==
  ASSUME setting \in Settings, NEW p \in Proc
  PROVE  /\ cmd[p] \in Command
         /\ cmd[p].args \in Seq(Path) /\ Len(cmd[p].args) \in Nat
         /\ Operands(p) \in Seq(Path) /\ Len(Operands(p)) \in Nat
         /\ \A i \in 1..Len(Operands(p)) : Operands(p)[i] \in Path
<1>1. cmd[p] \in Command
  BY SettingsAssumption DEF Setting, cmd
<1>2. cmd[p].args \in Seq(Path) /\ Len(cmd[p].args) \in Nat
  BY <1>1 DEF Command
<1>3. Operands(p) \in Seq(Path)
  <2>1. CASE IsLn(p) /\ cmd[p].args = <<>>
    <3>1. Front(cmd[p].args) = <<>>
      BY <2>1, <1>2 DEF Front
    <3> QED
      BY <3>1, <2>1 DEF Operands
  <2>2. CASE IsLn(p) /\ cmd[p].args # <<>>
    BY <2>2, <1>2, FrontAndLast DEF Operands
  <2>3. CASE ~IsLn(p)
    BY <2>3, <1>2 DEF Operands
  <2> QED
    BY <2>1, <2>2, <2>3
<1>4. Len(Operands(p)) \in Nat
  BY <1>3
<1>5. \A i \in 1..Len(Operands(p)) : Operands(p)[i] \in Path
  BY <1>3
<1> QED
  BY <1>1, <1>2, <1>3, <1>4, <1>5

\* A path up to its whole length is the path.
LEMMA WholePath ==
  ASSUME NEW path \in Path
  PROVE  SubSeq(path, 1, Len(path)) = path
  BY DEF Path

-------------------------------------------------------------------------------
(***************************************************************************)
(* Where the processes are.                                                *)
(***************************************************************************)

\* A step of one process leaves the others where they are.
LEMMA OthersStay ==
  ASSUME Typed, NEW p \in Proc, Step(p), NEW r \in Proc, r # p
  PROVE  /\ at'[r] = at[r] /\ target'[r] = target[r] /\ operand'[r] = operand[r]
         /\ depth'[r] = depth[r] /\ ret'[r] = ret[r] /\ agreed'[r] = agreed[r]
  BY DEF Typed, Step, Main, Ln, Mkdir, Rmdir, Touch, Unlink,
         Usage, Start, Guess, Check, CheckFails, NextOperand, Exit,
         StatSrc, StatSrcFails, LstatDestMissing, LstatDestExists, LstatDestClashes,
         PromptYes, PromptNo, RemoveDone, RemoveFails, MakeLink, MakeLinkFails,
         MkdirDone, MkdirExists, MkdirFails, MkdirGoesOn, RmdirDone, RmdirFails, RmdirGoesOn,
         TouchOpens, TouchCreates, TouchFails, UnlinkDone, UnlinkFails,
         Goto, Error, Return, Fail, To, Deepen, fixed

\* No step changes the setting.
LEMMA SettingStays ==
  ASSUME NEW p \in Proc, Step(p)
  PROVE  setting' = setting
  BY DEF Step, Main, Ln, Mkdir, Rmdir, Touch, Unlink,
         Usage, Start, Guess, Check, CheckFails, NextOperand, Exit,
         StatSrc, StatSrcFails, LstatDestMissing, LstatDestExists, LstatDestClashes,
         PromptYes, PromptNo, RemoveDone, RemoveFails, MakeLink, MakeLinkFails,
         MkdirDone, MkdirExists, MkdirFails, MkdirGoesOn, RmdirDone, RmdirFails, RmdirGoesOn,
         TouchOpens, TouchCreates, TouchFails, UnlinkDone, UnlinkFails,
         Return, Fail, To, Deepen, fixed

\* The first call for an operand is one of the program's own.
LEMMA FirstCallPlace ==
  ASSUME setting \in Settings, NEW p \in Proc, NEW arg \in Path, ~Misused(p)
  PROVE  /\ FirstCall(p, arg) \in {"stat_src", "lstat_dest", "loop", "mkdir", "open", "rmdir", "unlink"}
         /\ FirstCall(p, arg) \in {"stat_src", "lstat_dest"} => IsLn(p)
         /\ FirstCall(p, arg) = "mkdir" => cmd[p].prog = "mkdir" /\ arg # <<>>
         /\ FirstCall(p, arg) = "open" => cmd[p].prog = "touch"
         /\ FirstCall(p, arg) \in {"rmdir", "unlink"} => Removes(p) /\ FirstCall(p, arg) = cmd[p].prog
         /\ FirstCall(p, arg) = "loop" => arg = <<>>
         /\ FirstDepth(p, arg) \in Nat /\ FirstDepth(p, arg) <= Len(arg)
         /\ cmd[p].prog = "rmdir" \/ ~Given(p, "parents") => FirstDepth(p, arg) = Len(arg)
<1>1. cmd[p].prog \in {"ln", "mkdir", "rmdir", "touch", "unlink"}
  BY OperandsArePaths DEF Command
<1>2. cmd[p].args # <<>>
  BY DEF Misused
<1>3. Len(arg) \in Nat /\ (arg # <<>> => Len(arg) >= 1)
  BY DEF Path
<1>4. /\ FirstDepth(p, arg) \in Nat /\ FirstDepth(p, arg) <= Len(arg)
      /\ cmd[p].prog = "rmdir" \/ ~Given(p, "parents") => FirstDepth(p, arg) = Len(arg)
  BY <1>3 DEF FirstDepth
<1>5. CASE IsLn(p)
  BY <1>4, <1>5 DEF FirstCall, IsLn
<1>6. CASE cmd[p].prog = "mkdir"
  BY <1>4, <1>6 DEF FirstCall, IsLn
<1>7. CASE cmd[p].prog = "touch"
  BY <1>4, <1>7 DEF FirstCall, IsLn
<1>8. CASE cmd[p].prog \in {"rmdir", "unlink"}
  <2>1. FirstCall(p, arg) = cmd[p].prog
    BY <1>8 DEF FirstCall, IsLn
  <2> QED
    BY <1>2, <1>4, <1>8, <2>1 DEF Removes
<1> QED
  BY <1>1, <1>5, <1>6, <1>7, <1>8 DEF IsLn

LEMMA InitControl == Init => Control
<1> SUFFICES ASSUME Init PROVE Control
  OBVIOUS
<1>1. Typed
  BY DEF Init, Typed, Places
<1>2. ASSUME NEW p \in Proc PROVE Placed(p)
  <2>1. Len(Operands(p)) \in Nat
    BY <1>1, OperandsArePaths DEF Typed
  <2> QED
    BY <2>1 DEF Init, Placed, LnCalls, Calls
<1> QED
  BY <1>1, <1>2 DEF Control

\* A step leaves the process that takes it in a place its program has.
LEMMA StepPlaced ==
  ASSUME Control, NEW p \in Proc, Step(p)
  PROVE  Typed' /\ Placed(p)'
<1> USE DEF Placed, LnCalls, Calls, Places, Goto, Error, Return, Fail, To, Deepen, fixed
<1> DEFINE ops == Operands(p)
           n   == Len(ops)
<1>0. /\ setting' = setting /\ setting \in Settings
      /\ at \in [Proc -> Places] /\ target \in [Proc -> {"unset", "dir", "file"}]
      /\ operand \in [Proc -> Nat] /\ depth \in [Proc -> Nat] /\ ret \in [Proc -> {0, 1}]
      /\ agreed \in [Proc -> BOOLEAN]
      /\ n \in Nat /\ Placed(p)
  BY SettingStays, OperandsArePaths DEF Control, Typed
<1>1. /\ (Operands(p))' = ops /\ IsLn(p)' = IsLn(p) /\ Replaces(p)' = Replaces(p)
      /\ Removes(p)' = Removes(p) /\ Misused(p)' = Misused(p) /\ cmd' = cmd
      /\ \A f : Given(p, f)' = Given(p, f)
  BY <1>0 DEF Operands, IsLn, Replaces, Removes, Misused, Given, cmd
<1>2. operand'[p] = operand[p] => Arg(p)' = Arg(p)
  BY <1>1 DEF Arg
<1> HIDE DEF n, ops
<1>3. CASE Main(p)
  <2>1. CASE NextOperand(p)
    <3> DEFINE arg == Operands(p)[operand[p] + 1]
    <3>1. /\ at[p] = "loop" /\ operand[p] < n /\ ~Misused(p)
          /\ operand' = [operand EXCEPT ![p] = @ + 1]
          /\ depth' = [depth EXCEPT ![p] = FirstDepth(p, arg)]
          /\ at' = [at EXCEPT ![p] = FirstCall(p, arg)]
          /\ agreed' = [agreed EXCEPT ![p] = FALSE]
          /\ target' = target /\ ret' = ret
      BY <1>0, <2>1 DEF NextOperand, n, ops
    <3>2. operand[p] + 1 \in 1..n /\ operand'[p] = operand[p] + 1
      BY <1>0, <3>1
    <3>3. arg \in Path
      BY <1>0, <3>2, OperandsArePaths DEF n, ops
    <3>4. Arg(p)' = arg
      BY <1>1, <3>2 DEF Arg, ops
    <3> HIDE DEF arg
    <3>5. /\ FirstCall(p, arg) \in {"stat_src", "lstat_dest", "loop", "mkdir", "open", "rmdir", "unlink"}
          /\ FirstCall(p, arg) \in {"stat_src", "lstat_dest"} => IsLn(p)
          /\ FirstCall(p, arg) = "mkdir" => cmd[p].prog = "mkdir"
          /\ FirstCall(p, arg) = "open" => cmd[p].prog = "touch"
          /\ FirstCall(p, arg) \in {"rmdir", "unlink"} => Removes(p) /\ FirstCall(p, arg) = cmd[p].prog
          /\ FirstDepth(p, arg) \in Nat /\ FirstDepth(p, arg) <= Len(arg)
          /\ cmd[p].prog = "rmdir" \/ ~Given(p, "parents") => FirstDepth(p, arg) = Len(arg)
      BY <1>0, <3>1, <3>3, FirstCallPlace
    <3>6. at'[p] = FirstCall(p, arg) /\ depth'[p] = FirstDepth(p, arg)
      BY <1>0, <3>1
    <3>7. Typed'
      BY <1>0, <3>1, <3>5 DEF Typed
    <3>8. Placed(p)'
      <4>1. operand'[p] <= Len(Operands(p))' /\ operand'[p] >= 1
        BY <1>0, <1>1, <3>2 DEF n
      <4>2. at'[p] = "mkdir" => cmd'[p].prog = "mkdir" /\ (Given(p, "parents")' \/ depth'[p] = Len(Arg(p)'))
        BY <1>1, <3>4, <3>5, <3>6
      <4>3. Len(arg) \in Nat /\ cmd'[p] = cmd[p]
        BY <1>1, <3>3 DEF Path
      <4>4. at'[p] = "rmdir" => cmd'[p].prog = "rmdir" /\ depth'[p] = Len(Arg(p)')
        BY <3>4, <3>5, <3>6, <4>3
      <4>5. depth'[p] <= Len(Arg(p)')
        BY <3>4, <3>5, <3>6
      <4> QED
        BY <1>1, <3>1, <3>5, <3>6, <4>1, <4>2, <4>3, <4>4, <4>5
    <3> QED
      BY <3>7, <3>8
  <2>2. CASE Exit(p)
    BY <1>0, <1>1, <2>2 DEF Exit, Typed, n, ops
  <2>3. CASE Usage(p)
    BY <1>0, <1>1, <2>3 DEF Usage, Typed, n, ops
  <2>4. CASE Start(p)
    BY <1>0, <1>1, <2>4 DEF Start, Typed, n, ops
  <2>5. CASE Guess(p)
    BY <1>0, <1>1, <2>5 DEF Guess, Typed, n, ops
  <2>6. CASE Check(p)
    BY <1>0, <1>1, <2>6 DEF Check, Typed, n, ops
  <2>7. CASE CheckFails(p)
    BY <1>0, <1>1, <2>7 DEF CheckFails, Typed, n, ops
  <2> QED
    BY <1>3, <2>1, <2>2, <2>3, <2>4, <2>5, <2>6, <2>7 DEF Main
<1>4. CASE Ln(p)
  <2>1. CASE \/ StatSrc(p) \/ StatSrcFails(p) \/ LstatDestMissing(p) \/ LstatDestClashes(p)
             \/ PromptYes(p) \/ PromptNo(p)
    BY <1>0, <1>1, <2>1
    DEF StatSrc, StatSrcFails, LstatDestMissing, LstatDestClashes, PromptYes, PromptNo, Typed, n, ops
  <2>2. CASE LstatDestExists(p)
    <3>1. Replaces(p)
      BY <1>0, <2>2 DEF LstatDestExists, Replaces
    <3> QED
      BY <1>0, <1>1, <2>2, <3>1 DEF LstatDestExists, Typed, n, ops
  <2>3. CASE RemoveDone(p) \/ RemoveFails(p) \/ MakeLink(p) \/ MakeLinkFails(p)
    BY <1>0, <1>1, <2>3 DEF RemoveDone, RemoveFails, MakeLink, MakeLinkFails, Typed, n, ops
  <2> QED
    BY <1>4, <2>1, <2>2, <2>3 DEF Ln
<1>5. CASE Mkdir(p)
  <2>1. CASE MkdirFails(p)
    BY <1>0, <1>1, <2>1 DEF MkdirFails, Typed, n, ops
  <2>2. CASE MkdirGoesOn(p)
    <3>1. at[p] = "mkdir"
      BY <1>5 DEF Mkdir, MkdirDone, MkdirExists, MkdirFails
    <3>2. CASE depth[p] < Len(Arg(p))
      <4>1. Given(p, "parents")
        BY <1>0, <3>1, <3>2
      <4>2. /\ depth' = [depth EXCEPT ![p] = depth[p] + 1]
            /\ setting' = setting /\ target' = target /\ operand' = operand /\ at' = at /\ ret' = ret
            /\ agreed' = agreed
        BY <2>2, <3>2 DEF MkdirGoesOn
      <4>3. depth'[p] <= Len(Arg(p)')
        <5>1. operand[p] \in 1..n
          BY <1>0, <3>1 DEF n, ops
        <5>2. Len(Arg(p)) \in Nat
          BY <1>0, <5>1, OperandsArePaths DEF n, ops, Arg, Path
        <5>3. Arg(p)' = Arg(p) /\ depth'[p] = depth[p] + 1 /\ depth[p] \in Nat
          BY <1>0, <1>2, <4>2
        <5> QED
          BY <3>2, <5>2, <5>3
      <4> QED
        BY <1>0, <1>1, <3>1, <4>1, <4>2, <4>3 DEF Typed, n, ops
    <3>3. CASE ~(depth[p] < Len(Arg(p)))
      BY <1>0, <1>1, <2>2, <3>1, <3>3 DEF MkdirGoesOn, Typed, n, ops
    <3> QED
      BY <3>2, <3>3
  <2> QED
    BY <1>5, <2>1, <2>2 DEF Mkdir, MkdirDone, MkdirExists
<1>6. CASE Rmdir(p)
  <2>1. CASE RmdirFails(p)
    BY <1>0, <1>1, <2>1 DEF RmdirFails, Typed, n, ops
  <2>2. CASE RmdirDone(p)
    <3>1. CASE Given(p, "parents") /\ depth[p] > 1
      <4>1. /\ depth' = [depth EXCEPT ![p] = depth[p] - 1] /\ at[p] = "rmdir"
            /\ setting' = setting /\ target' = target /\ operand' = operand /\ at' = at /\ ret' = ret
            /\ agreed' = agreed
        BY <2>2, <3>1 DEF RmdirDone, RmdirGoesOn
      <4>2. depth[p] - 1 \in Nat
        BY <1>0, <3>1
      <4>3. depth'[p] <= Len(Arg(p)')
        <5>1. operand[p] \in 1..n
          BY <1>0, <4>1 DEF n, ops
        <5>2. Len(Arg(p)) \in Nat
          BY <1>0, <5>1, OperandsArePaths DEF n, ops, Arg, Path
        <5>3. Arg(p)' = Arg(p) /\ depth'[p] = depth[p] - 1 /\ depth[p] <= Len(Arg(p)) /\ depth[p] \in Nat
          BY <1>0, <1>2, <4>1
        <5> QED
          BY <5>2, <5>3
      <4>4. Typed'
        BY <1>0, <4>1, <4>2 DEF Typed
      <4>5. /\ at'[p] = "rmdir" /\ operand'[p] = operand[p] /\ n' = n /\ cmd'[p] = cmd[p]
            /\ Given(p, "parents")'
        BY <1>0, <1>1, <3>1, <4>1 DEF n, ops
      <4>6. /\ Removes(p)' /\ ~Misused(p)' /\ cmd'[p].prog = "rmdir" /\ operand'[p] >= 1
            /\ operand'[p] <= (Len(Operands(p)))'
        BY <1>0, <1>1, <4>1, <4>5 DEF n, ops
      <4> QED
        BY <4>3, <4>4, <4>5, <4>6
    <3>2. CASE ~(Given(p, "parents") /\ depth[p] > 1)
      BY <1>0, <1>1, <2>2, <3>2 DEF RmdirDone, RmdirGoesOn, Typed, n, ops
    <3> QED
      BY <3>1, <3>2
  <2> QED
    BY <1>6, <2>1, <2>2 DEF Rmdir
<1>7. CASE Touch(p) \/ Unlink(p)
  BY <1>0, <1>1, <1>7
  DEF Touch, TouchOpens, TouchCreates, TouchFails, Unlink, UnlinkDone, UnlinkFails, Typed, n, ops
<1> QED
  BY <1>3, <1>4, <1>5, <1>6, <1>7 DEF Step

\* The other processes are where they were.
LEMMA OthersPlaced ==
  ASSUME Control, NEW p \in Proc, Step(p), NEW r \in Proc, r # p
  PROVE  Placed(r)'
<1>1. /\ at'[r] = at[r] /\ operand'[r] = operand[r] /\ depth'[r] = depth[r] /\ ret'[r] = ret[r]
      /\ setting' = setting /\ Placed(r)
  BY OthersStay, SettingStays DEF Control
<1> QED
  BY <1>1 DEF Placed, IsLn, Replaces, Removes, Given, Misused, Operands, Arg, cmd

\* A process without arguments can only complain.
LEMMA IdleStep ==
  ASSUME NEW p \in Proc, Placed(p), cmd[p].args = <<>>, Step(p)
  PROVE  Usage(p)
<1>1. Misused(p)
  BY DEF Misused
<1>2. at[p] \in {"start", "exited"}
  BY <1>1 DEF Placed
<1> QED
  BY <1>1, <1>2
  DEF Step, Main, Ln, Mkdir, Rmdir, Touch, Unlink, Start, Guess, Check, CheckFails, NextOperand, Exit,
      StatSrc, StatSrcFails, LstatDestMissing, LstatDestExists, LstatDestClashes,
      PromptYes, PromptNo, RemoveDone, RemoveFails, MakeLink, MakeLinkFails,
      MkdirDone, MkdirExists, MkdirFails, RmdirDone, RmdirFails,
      TouchOpens, TouchCreates, TouchFails, UnlinkDone, UnlinkFails

LEMMA NextControl == Control /\ [Next]_vars => Control'
<1> SUFFICES ASSUME Control, [Next]_vars PROVE Control'
  OBVIOUS
<1>1. CASE UNCHANGED vars
  BY <1>1 DEF Control, Typed, Placed, IsLn, Replaces, Removes, Given, Misused, Operands, Arg, cmd, vars
<1>2. CASE \E p \in Proc : Step(p)
  <2>1. PICK p \in Proc : Step(p)
    BY <1>2
  <2>2. Typed' /\ Placed(p)'
    BY <2>1, StepPlaced
  <2>3. \A r \in Proc : Placed(r)'
    BY <2>1, <2>2, OthersPlaced
  <2> QED
    BY <2>2, <2>3 DEF Control
<1> QED
  BY <1>1, <1>2 DEF Next, Done

-------------------------------------------------------------------------------
(***************************************************************************)
(* Taking a name.                                                          *)
(***************************************************************************)

\* As long as nothing is taken away, a step changes nothing or adds one entry.
GainsOne ==
  \/ tree' = tree
  \/ \E q, node : ~Exists(tree, q) /\ tree' = With(tree, q, node)

LEMMA OnlyGrows ==
  ASSUME Control, NothingTaken, NEW p \in Proc, Step(p)
  PROVE  GainsOne
<1>1. Placed(p) /\ ~Replaces(p) /\ ~Removes(p)
  BY DEF Control, NothingTaken
<1>2. ~RemoveDone(p) /\ ~RmdirDone(p) /\ ~UnlinkDone(p)
  BY <1>1 DEF Placed, LnCalls, RemoveDone, RmdirDone, UnlinkDone
<1>3. CASE MakeLink(p)
  BY <1>3 DEF MakeLink, CanLink, CanMake, GainsOne
<1>4. CASE MkdirDone(p)
  BY <1>4 DEF MkdirDone, CanMake, GainsOne
<1>5. CASE TouchCreates(p)
  BY <1>5 DEF TouchCreates, Creates, CanMake, GainsOne
<1>6. CASE tree' = tree
  BY <1>6 DEF GainsOne
<1> QED
  BY <1>2, <1>3, <1>4, <1>5, <1>6
  DEF Step, Main, Ln, Mkdir, Rmdir, Touch, Unlink,
      Usage, Start, Guess, Check, CheckFails, NextOperand, Exit,
      StatSrc, StatSrcFails, LstatDestMissing, LstatDestExists, LstatDestClashes,
      PromptYes, PromptNo, RemoveFails, MakeLinkFails,
      MkdirExists, MkdirFails, RmdirFails, TouchOpens, TouchFails, UnlinkFails

\* What is there stays there.
LEMMA GrownKeeps ==
  ASSUME GainsOne
  PROVE  \A q : Exists(tree, q) => Exists(tree', q) /\ tree'[q] = tree[q]
  BY DEF GainsOne, With, Exists

\* ln has found out that DESTINATION is a directory, and it still is.
SettledDest(p) ==
  IsLn(p) /\ ret[p] = 0 /\ at[p] \notin {"start", "guess", "check"} /\ target[p] = "dir" =>
    IsDir(tree, Behind(Dest(p)))

\* p has made its name.
Has(p) == Exclusive(p) /\ at[p] \in {"loop", "exited"} /\ ret[p] = 0 /\ operand[p] = 1

\* Whoever has made its name has it alone.
Locked ==
  NothingTaken =>
    /\ \A q \in DOMAIN setting.tree : Exists(tree, q)
    /\ \A p \in Proc : SettledDest(p)
    /\ \A p \in Proc : Has(p) => Exists(tree, Product(p)) /\ ~Exists(setting.tree, Product(p))
    /\ \A p, r \in Proc : Has(p) /\ Has(r) /\ Product(p) = Product(r) => p = r

LEMMA InitLocked == Init => Locked
<1> SUFFICES ASSUME Init PROVE Locked
  OBVIOUS
<1>1. \A p \in Proc : ~Has(p) /\ SettledDest(p)
  BY DEF Init, Has, SettledDest
<1> QED
  BY <1>1 DEF Init, Locked, Exists

\* The name a process is after does not move.
LEMMA ProductStays ==
  ASSUME Typed, GainsOne, setting' = setting, NEW p \in Proc, Exclusive(p), SettledDest(p), ret[p] = 0,
         at[p] \notin {"start", "guess", "check"}, target'[p] = target[p]
  PROVE  Product(p)' = Product(p)
<1>1. cmd' = cmd /\ Operands(p)' = Operands(p) /\ Dest(p)' = Dest(p) /\ IsLn(p)' = IsLn(p)
  BY DEF cmd, Operands, Dest, IsLn
<1>2. CASE IsLn(p) /\ target[p] = "dir"
  <2>1. Exists(tree, Dest(p))
    BY <1>2 DEF SettledDest, Behind, IsDir, IsLink
  <2>2. Exists(tree', Dest(p)) /\ tree'[Dest(p)] = tree[Dest(p)]
    BY <2>1, GrownKeeps
  <2>3. Behind(Dest(p))' = Behind(Dest(p))
    BY <1>1, <2>1, <2>2 DEF Behind, IsLink
  <2> QED
    BY <1>1, <2>3 DEF Product, Image
<1>3. CASE ~(IsLn(p) /\ target[p] = "dir")
  BY <1>1, <1>3 DEF Product, Image
<1> QED
  BY <1>2, <1>3

\* A process that is past the checks of ln has just passed the second one, or
\* was past them before.
LEMMA HowSettled ==
  ASSUME Typed, NEW p \in Proc, Step(p), IsLn(p), ret'[p] = 0, at'[p] \notin {"start", "guess", "check"}
  PROVE  \/ Check(p)
         \/ ret[p] = 0 /\ at[p] \notin {"start", "guess", "check"} /\ target'[p] = target[p]
<1> USE DEF Goto, Error, Return, Fail, To, Deepen, fixed
<1>1. CASE Main(p)
  <2>1. ~Usage(p) /\ ~CheckFails(p)
    BY DEF Typed, Usage, CheckFails
  <2>2. ~Start(p) /\ ~Guess(p)
    BY DEF Typed, Start, Guess
  <2>3. CASE NextOperand(p) \/ Exit(p)
    BY <2>3 DEF Typed, NextOperand, Exit
  <2> QED
    BY <1>1, <2>1, <2>2, <2>3 DEF Main
<1>2. CASE ~Main(p)
  <2>1. at[p] \in Calls /\ target' = target
    BY <1>2 DEF Calls, Step, Ln, Mkdir, Rmdir, Touch, Unlink,
         StatSrc, StatSrcFails, LstatDestMissing, LstatDestExists, LstatDestClashes,
         PromptYes, PromptNo, RemoveDone, RemoveFails, MakeLink, MakeLinkFails,
         MkdirDone, MkdirExists, MkdirFails, MkdirGoesOn, RmdirDone, RmdirFails, RmdirGoesOn,
         TouchOpens, TouchCreates, TouchFails, UnlinkDone, UnlinkFails
  <2>2. ret' = ret \/ Error(p)
    BY <1>2 DEF Step, Ln, Mkdir, Rmdir, Touch, Unlink,
         StatSrc, StatSrcFails, LstatDestMissing, LstatDestExists, LstatDestClashes,
         PromptYes, PromptNo, RemoveDone, RemoveFails, MakeLink, MakeLinkFails,
         MkdirDone, MkdirExists, MkdirFails, MkdirGoesOn, RmdirDone, RmdirFails, RmdirGoesOn,
         TouchOpens, TouchCreates, TouchFails, UnlinkDone, UnlinkFails
  <2>3. ret[p] = 0
    BY <2>2 DEF Typed
  <2> QED
    BY <2>1, <2>3 DEF Calls
<1> QED
  BY <1>1, <1>2

\* A process has its name because mkdir() or link() has just made it, where
\* nothing was, or because it had it before.
LEMMA HowWon ==
  ASSUME Control, NothingTaken, NEW p \in Proc, Step(p), Has(p)'
  PROVE  \/ Has(p) /\ target' = target
         \/ /\ ret[p] = 0 /\ at[p] \in {"link", "mkdir"} /\ target' = target
            /\ ~Exists(tree, Product(p)) /\ Exists(tree', Product(p))
<1> USE DEF Goto, Error, Return, Fail, To, Deepen, fixed, LnCalls, Calls
<1> DEFINE goal ==
      \/ Has(p) /\ target' = target
      \/ /\ ret[p] = 0 /\ at[p] \in {"link", "mkdir"} /\ target' = target
         /\ ~Exists(tree, Product(p)) /\ Exists(tree', Product(p))
<1>1. /\ setting' = setting /\ setting \in Settings /\ Placed(p) /\ ~Replaces(p) /\ ~Removes(p)
      /\ at \in [Proc -> Places] /\ target \in [Proc -> {"unset", "dir", "file"}]
      /\ operand \in [Proc -> Nat] /\ depth \in [Proc -> Nat] /\ ret \in [Proc -> {0, 1}]
  BY SettingStays DEF Control, Typed, NothingTaken
<1>2. /\ Exclusive(p) /\ at'[p] \in {"loop", "exited"} /\ ret'[p] = 0 /\ operand'[p] = 1
  BY <1>1 DEF Has, Exclusive, Operands, IsLn, Replaces, Given, cmd
<1>3. /\ Len(Operands(p)) = 1 /\ Operands(p)[1] # <<>> /\ Operands(p)[1] \in Path
  <2>1. Len(Operands(p)) = 1 /\ Operands(p)[1] # <<>>
    BY <1>2 DEF Exclusive
  <2>2. \A i \in 1..Len(Operands(p)) : Operands(p)[i] \in Path
    BY <1>1, OperandsArePaths
  <2>3. 1 \in 1..Len(Operands(p))
    BY <2>1
  <2> QED
    BY <2>1, <2>2, <2>3
<1>4. CASE Main(p)
  <2>1. ~NextOperand(p)
    <3> SUFFICES ASSUME NextOperand(p) PROVE FALSE
      OBVIOUS
    <3>1. operand[p] = 0 /\ at[p] = "loop"
      BY <1>1, <1>2 DEF NextOperand
    <3>2. at'[p] = FirstCall(p, Operands(p)[1])
      BY <1>1, <3>1 DEF NextOperand
    <3>3. ~Misused(p)
      BY <1>1, <3>1 DEF Placed
    <3> QED
      BY <1>1, <1>2, <1>3, <3>2, <3>3, FirstCallPlace
  <2>2. CASE Exit(p)
    BY <1>1, <1>2, <2>2 DEF Exit, Has
  <2>3. ~(Usage(p) \/ Start(p) \/ Guess(p) \/ Check(p) \/ CheckFails(p))
    BY <1>1, <1>2 DEF Placed, Usage, Start, Guess, Check, CheckFails
  <2> QED
    BY <1>4, <2>1, <2>2, <2>3 DEF Main
<1>5. CASE MakeLink(p)
  <2>1. IsLn(p) /\ at[p] = "link" /\ operand[p] = 1 /\ ret[p] = 0
    BY <1>1, <1>2, <1>5 DEF MakeLink, Placed
  <2>2. Dst(p) = Product(p)
    BY <2>1 DEF Dst, Product
  <2> QED
    BY <1>5, <2>1, <2>2 DEF MakeLink, CanLink, CanMake, With, Exists
<1>6. CASE MkdirDone(p)
  <2>1. cmd[p].prog = "mkdir" /\ at[p] = "mkdir" /\ ~Given(p, "parents") /\ depth[p] = Len(Arg(p))
    BY <1>1, <1>2, <1>6 DEF MkdirDone, Placed, Exclusive, IsLn
  <2>2. operand[p] = 1 /\ ret[p] = 0 /\ target' = target
    BY <1>1, <1>2, <1>6 DEF MkdirDone, MkdirGoesOn
  <2>3. Here(p) = Product(p)
    <3>1. Arg(p) = Operands(p)[1] /\ Product(p) = Operands(p)[1]
      BY <2>1, <2>2 DEF Arg, Product, IsLn
    <3> QED
      BY <1>3, <2>1, <3>1, WholePath DEF Here
  <2> QED
    BY <1>6, <2>1, <2>2, <2>3 DEF MkdirDone, CanMake, With, Exists
<1>7. ~MkdirExists(p)
  BY <1>1, <1>2 DEF MkdirExists, Placed, Exclusive, IsLn
<1>8. ~RemoveDone(p) /\ ~RmdirDone(p) /\ ~UnlinkDone(p) /\ ~PromptYes(p)
  BY <1>1 DEF Placed, RemoveDone, RmdirDone, UnlinkDone, PromptYes
<1>9. ~Touch(p)
  BY <1>1, <1>2 DEF Touch, TouchOpens, TouchCreates, TouchFails, Placed, Exclusive, IsLn
<1>10. ~(StatSrc(p) \/ LstatDestMissing(p) \/ LstatDestExists(p))
  BY <1>1, <1>2 DEF StatSrc, LstatDestMissing, LstatDestExists
<1>11. ~(StatSrcFails(p) \/ LstatDestClashes(p) \/ PromptNo(p) \/ RemoveFails(p) \/ MakeLinkFails(p)
         \/ MkdirFails(p) \/ RmdirFails(p) \/ UnlinkFails(p))
  <2>1. ~Fail(p)
    BY <1>1, <1>2
  <2> QED
    BY <2>1 DEF StatSrcFails, LstatDestClashes, PromptNo, RemoveFails, MakeLinkFails,
                MkdirFails, RmdirFails, UnlinkFails
<1> QED
  BY <1>4, <1>5, <1>6, <1>7, <1>8, <1>9, <1>10, <1>11 DEF Step, Ln, Mkdir, Rmdir, Unlink

LEMMA StepLocked ==
  ASSUME Control, Locked, NothingTaken, NEW p \in Proc, Step(p)
  PROVE  Locked'
<1>1. Typed /\ setting' = setting /\ GainsOne
  BY SettingStays, OnlyGrows DEF Control
<1>2. /\ cmd' = cmd
      /\ \A r \in Proc : /\ Operands(r)' = Operands(r) /\ Dest(r)' = Dest(r)
                         /\ IsLn(r)' = IsLn(r) /\ Exclusive(r)' = Exclusive(r)
  BY <1>1 DEF cmd, Operands, Dest, IsLn, Exclusive, Replaces, Given
<1>3. \A q : Exists(tree, q) => Exists(tree', q) /\ tree'[q] = tree[q]
  BY <1>1, GrownKeeps
<1>4. \A q \in DOMAIN setting'.tree : Exists(tree', q)
  BY <1>1, <1>3 DEF Locked
<1>5. ASSUME NEW r \in Proc PROVE SettledDest(r)'
  <2> SUFFICES ASSUME IsLn(r), ret'[r] = 0, at'[r] \notin {"start", "guess", "check"}, target'[r] = "dir"
               PROVE  IsDir(tree', Behind(Dest(r))')
    BY <1>2 DEF SettledDest
  <2>1. IsDir(tree, Behind(Dest(r)))
    <3>1. CASE r = p /\ Check(p)
      BY <3>1 DEF Check, Agrees
    <3>2. CASE ret[r] = 0 /\ at[r] \notin {"start", "guess", "check"} /\ target'[r] = target[r]
      BY <3>2 DEF Locked, SettledDest
    <3>3. CASE r # p
      BY <1>1, <3>2, <3>3, OthersStay
    <3> QED
      BY <1>1, <3>1, <3>2, <3>3, HowSettled
  <2>2. Exists(tree, Dest(r))
    BY <2>1 DEF Behind, IsDir, IsLink
  <2>3. Behind(Dest(r))' = Behind(Dest(r))
    BY <1>2, <1>3, <2>2 DEF Behind, IsLink
  <2> QED
    BY <1>3, <2>1, <2>3 DEF IsDir
<1>6. ASSUME NEW r \in Proc, Exclusive(r), ret[r] = 0, at[r] \notin {"start", "guess", "check"},
             target'[r] = target[r]
      PROVE  Product(r)' = Product(r)
  BY <1>1, <1>6, ProductStays DEF Locked
<1>7. ASSUME NEW r \in Proc, Has(r)', ~(r = p /\ ~Exists(tree, Product(p)))
      PROVE  Has(r) /\ Product(r)' = Product(r)
  <2>1. CASE r = p
    <3>1. Has(p) /\ target' = target
      BY <1>7, <2>1, HowWon
    <3> QED
      BY <1>6, <2>1, <3>1 DEF Has
  <2>2. CASE r # p
    <3>1. /\ at'[r] = at[r] /\ operand'[r] = operand[r] /\ ret'[r] = ret[r]
          /\ target'[r] = target[r]
      BY <1>1, <2>2, OthersStay
    <3>2. Has(r)
      BY <1>2, <1>7, <3>1 DEF Has
    <3> QED
      BY <1>6, <3>1, <3>2 DEF Has
  <2> QED
    BY <2>1, <2>2
<1>8. ASSUME Has(p)', ~Exists(tree, Product(p))
      PROVE  Product(p)' = Product(p) /\ Exists(tree', Product(p)) /\ ~Exists(setting.tree, Product(p))
  <2>1. /\ ret[p] = 0 /\ at[p] \in {"link", "mkdir"} /\ target' = target /\ Exists(tree', Product(p))
    BY <1>8, HowWon DEF Locked
  <2>2. Exclusive(p)
    BY <1>2, <1>8 DEF Has
  <2> QED
    BY <1>6, <1>8, <2>1, <2>2 DEF Locked, Exists
<1>9. ASSUME NEW r \in Proc, Has(r)'
      PROVE  Exists(tree', Product(r)') /\ ~Exists(setting'.tree, Product(r)')
  BY <1>1, <1>3, <1>7, <1>8, <1>9 DEF Locked
<1>10. ASSUME NEW q \in Proc, NEW r \in Proc, Has(q)', Has(r)', Product(q)' = Product(r)'
       PROVE  q = r
  <2>1. ASSUME NEW x \in Proc, NEW y \in Proc, Has(x)', Has(y)', Product(x)' = Product(y)',
               x = p, ~Exists(tree, Product(p)), y # x
        PROVE  FALSE
    <3>1. Has(y) /\ Product(y)' = Product(y)
      BY <1>7, <2>1
    <3>2. Exists(tree, Product(y))
      BY <3>1 DEF Locked
    <3> QED
      BY <1>8, <2>1, <3>1, <3>2
  <2>2. CASE (q = p \/ r = p) /\ ~Exists(tree, Product(p))
    BY <1>10, <2>1, <2>2
  <2>3. CASE ~((q = p \/ r = p) /\ ~Exists(tree, Product(p)))
    BY <1>7, <1>10, <2>3 DEF Locked
  <2> QED
    BY <2>2, <2>3
<1> QED
  BY <1>4, <1>5, <1>9, <1>10 DEF Locked

LEMMA NextLocked == Control /\ Locked /\ [Next]_vars => Locked'
<1> SUFFICES ASSUME Control, Locked, [Next]_vars, NothingTaken' PROVE Locked'
  BY DEF Locked
<1>1. CASE UNCHANGED vars
  BY <1>1 DEF vars, Locked, NothingTaken, Replaces, Removes, SettledDest, Has, Exclusive, Product, Image,
              Behind, Operands, Dest, IsLn, Given, cmd
<1>2. CASE \E p \in Proc : Step(p)
  <2>1. PICK p \in Proc : Step(p)
    BY <1>2
  <2>2. NothingTaken
    BY <2>1, SettingStays DEF NothingTaken, Replaces, Removes, IsLn, Given, cmd
  <2> QED
    BY <2>1, <2>2, StepLocked
<1> QED
  BY <1>1, <1>2 DEF Next, Done

\* Every process is where its program can be; what a process that has made its
\* name relies on.
THEOREM ControlHolds == Spec => []Control
<1>1. Init => Control
  BY InitControl
<1>2. Control /\ [Next]_vars => Control'
  BY NextControl
<1> QED
  BY <1>1, <1>2, PTL DEF Spec

\* The inductive invariant behind OneWinner: as long as nothing is taken away,
\* a process that has made its name has it alone, and it was not there before.
THEOREM NamesAreTakenOnce == Spec => []Locked
<1>1. Init => Locked
  BY InitLocked
<1>2. Control /\ Locked /\ [Next]_vars => Locked'
  BY NextLocked
<1> QED
  BY <1>1, <1>2, ControlHolds, PTL DEF Spec

\* mkdir (mkdir.c:63) and ln (ln.c:85, 91) are safe to take a lock with: for
\* any number of processes, at most one makes the name and exits with 0.
THEOREM AtMostOneWins == Spec => []OneWinner
<1>1. Control /\ Locked => OneWinner
  <2> SUFFICES ASSUME Control, Locked, NothingTaken PROVE OneWinner
    BY DEF OneWinner
  <2>1. ASSUME NEW p \in Proc, Winner(p) PROVE Has(p)
    BY <2>1 DEF Winner, Has, Exclusive, Control, Placed
  <2> QED
    BY <2>1 DEF OneWinner, Locked
<1> QED
  BY <1>1, ControlHolds, NamesAreTakenOnce, PTL

-------------------------------------------------------------------------------
(***************************************************************************)
(* mkdir -p against mkdir -p.                                              *)
(***************************************************************************)

\* The condition of ParentsMeet.
Shared ==
  /\ Quiet
  /\ \A p \in Proc : cmd[p].args # <<>> =>
       /\ cmd[p].prog = "mkdir" /\ Given(p, "parents")
       /\ \A i \in DOMAIN cmd[p].args : ~ThroughFile(setting.tree, cmd[p].args[i])

\* mkdir has come to an element of its path, and those before it are there.
UnderWay(p) ==
  at[p] = "mkdir" =>
    /\ depth[p] \in 1..Len(Arg(p))
    /\ \A k \in 1..(depth[p] - 1) : IsDir(tree, SubSeq(Arg(p), 1, k))

\* Whatever has come since the start is a directory.
Met ==
  Shared =>
    /\ IsDir(tree, <<>>)
    /\ \A q : Exists(tree, q) => IsDir(tree, q) \/ (Exists(setting.tree, q) /\ ~IsDir(setting.tree, q))
    /\ \A p \in Proc : cmd[p].args # <<>> => ret[p] = 0
    /\ \A p \in Proc : UnderWay(p)

\* The directory an element of a path lies in is the element before it.
LEMMA FrontOfPrefix ==
  ASSUME NEW path \in Path, NEW d \in 1..Len(path)
  PROVE  /\ SubSeq(path, 1, d) # <<>>
         /\ Front(SubSeq(path, 1, d)) = SubSeq(path, 1, d - 1)
<1> DEFINE s == SubSeq(path, 1, d)
<1>1. path \in Seq(Name) /\ Len(path) \in Nat /\ d \in Nat /\ d >= 1 /\ d <= Len(path)
  BY DEF Path
<1>2. s \in Seq(Name) /\ Len(s) = d /\ \A i \in 1..d : s[i] = path[i]
  BY <1>1
<1>3. SubSeq(path, 1, d - 1) \in Seq(Name) /\ Len(SubSeq(path, 1, d - 1)) = d - 1
      /\ \A i \in 1..(d - 1) : SubSeq(path, 1, d - 1)[i] = path[i]
  BY <1>1
<1>4. s # <<>>
  BY <1>1, <1>2
<1> HIDE DEF s
<1>5. /\ Front(s) \in Seq(Name) /\ Len(Front(s)) = d - 1
      /\ \A i \in 1..(d - 1) : Front(s)[i] = s[i]
  BY <1>2, <1>4, FrontAndLast
<1>6. \A i \in 1..(d - 1) : Front(s)[i] = SubSeq(path, 1, d - 1)[i]
  BY <1>1, <1>2, <1>3, <1>5
<1>7. Front(s) = SubSeq(path, 1, d - 1)
  BY <1>3, <1>5, <1>6, SeqEqual, Zenon
<1> QED
  BY <1>4, <1>7 DEF s

LEMMA InitMet == Init => Met
<1> SUFFICES ASSUME Init PROVE Met
  OBVIOUS
<1>1. IsTree(setting.tree)
  BY SettingsAssumption DEF Init, Setting
<1> QED
  BY <1>1 DEF Init, Met, UnderWay, IsTree

\* In such a setting only mkdir works, and all its calls succeed or find a
\* directory.
LEMMA MkdirMeets ==
  ASSUME Control, Met, Shared, NEW p \in Proc, at[p] = "mkdir"
  PROVE  /\ Given(p, "parents") /\ Arg(p) \in Path /\ depth[p] \in 1..Len(Arg(p)) /\ ~MkdirFails(p)
         /\ Here(p) = SubSeq(Arg(p), 1, depth[p])
         /\ depth[p] < Len(Arg(p)) /\ Exists(tree, Here(p)) => IsDir(tree, Here(p))
<1>1. /\ Placed(p) /\ UnderWay(p) /\ setting \in Settings /\ operand[p] \in Nat
      /\ setting.faults = {}
  BY DEF Control, Typed, Met, Shared, Quiet
<1>2. cmd[p].prog = "mkdir" /\ cmd[p].args # <<>> /\ operand[p] >= 1 /\ operand[p] <= Len(Operands(p))
  BY <1>1 DEF Placed, Calls, Misused
<1>3. Operands(p) = cmd[p].args
  BY <1>2 DEF Operands, IsLn
<1>4. operand[p] \in 1..Len(Operands(p)) /\ Len(Operands(p)) \in Nat
  BY <1>1, <1>2, OperandsArePaths
<1>5. Arg(p) \in Path
  BY <1>1, <1>4, OperandsArePaths DEF Arg
<1>6. operand[p] \in DOMAIN cmd[p].args
  BY <1>1, <1>3, <1>4, OperandsArePaths
<1>7. Given(p, "parents") /\ ~ThroughFile(setting.tree, Arg(p))
  BY <1>2, <1>3, <1>6 DEF Shared, Arg
<1>8. depth[p] \in 1..Len(Arg(p))
  BY <1>1 DEF UnderWay
<1>9. Len(Arg(p)) \in Nat
  BY <1>5 DEF Path
<1>10. ASSUME depth[p] < Len(Arg(p)), Exists(tree, Here(p)) PROVE IsDir(tree, Here(p))
  <2>1. depth[p] \in 1..(Len(Arg(p)) - 1)
    BY <1>8, <1>9, <1>10
  <2>2. ~(Exists(setting.tree, Here(p)) /\ ~IsDir(setting.tree, Here(p)))
    BY <1>7, <2>1 DEF ThroughFile, Here
  <2> QED
    BY <1>10, <2>2 DEF Met
<1>11. ASSUME ~Exists(tree, Here(p)) PROVE CanMake(tree, Here(p))
  <2>1. Here(p) # <<>> /\ Front(Here(p)) = SubSeq(Arg(p), 1, depth[p] - 1)
    BY <1>5, <1>8, FrontOfPrefix DEF Here
  <2>2. IsDir(tree, SubSeq(Arg(p), 1, depth[p] - 1))
    <3>1. CASE depth[p] = 1
      <4>1. SubSeq(Arg(p), 1, 0) = <<>>
        BY <1>5 DEF Path
      <4>2. depth[p] - 1 = 0 /\ IsDir(tree, <<>>)
        BY <3>1 DEF Met
      <4> QED
        BY <4>1, <4>2
    <3>2. CASE depth[p] # 1
      <4>1. depth[p] - 1 \in 1..(depth[p] - 1)
        BY <1>8, <1>9, <3>2
      <4> QED
        BY <1>1, <4>1 DEF UnderWay
    <3> QED
      BY <3>1, <3>2
  <2> QED
    BY <1>11, <2>1, <2>2 DEF CanMake
<1>12. ~MkdirFails(p)
  BY <1>1, <1>7, <1>11 DEF MkdirFails, Refused
<1> QED
  BY <1>5, <1>7, <1>8, <1>10, <1>12 DEF Here

LEMMA StepMet ==
  ASSUME Control, Met, Shared, NEW p \in Proc, Step(p)
  PROVE  Met'
<1> USE DEF Goto, Error, Return, Fail, To, Deepen, fixed
<1>1. /\ Typed /\ setting' = setting /\ setting \in Settings /\ cmd' = cmd
      /\ \A r \in Proc : Placed(r) /\ UnderWay(r) /\ Operands(r)' = Operands(r)
  BY SettingStays DEF Control, Typed, Met, cmd, Operands, IsLn
<1>2. ASSUME NEW r \in Proc, operand'[r] = operand[r] PROVE Arg(r)' = Arg(r)
  BY <1>1, <1>2 DEF Arg
\* Other processes: their directories stay.
<1>3. ASSUME \A q : IsDir(tree, q) => IsDir(tree', q), NEW r \in Proc, r # p
      PROVE  UnderWay(r)'
  <2>1. at'[r] = at[r] /\ operand'[r] = operand[r] /\ depth'[r] = depth[r]
    BY <1>1, <1>3, OthersStay
  <2> QED
    BY <1>1, <1>2, <1>3, <2>1 DEF UnderWay
\* A step that leaves the tree and the status alone.
<1>4. ASSUME tree' = tree, cmd[p].args # <<>> => ret' = ret, UnderWay(p)' PROVE Met'
  <2>1. \A r \in Proc : cmd[r].args # <<>> => ret'[r] = 0
    BY <1>1, <1>4, OthersStay DEF Met
  <2>2. \A r \in Proc : UnderWay(r)'
    BY <1>3, <1>4
  <2> QED
    BY <1>1, <1>4, <2>1, <2>2 DEF Met
<1>5. CASE cmd[p].args = <<>>
  <2>3. Usage(p)
    BY <1>1, <1>5, IdleStep
  <2> QED
    BY <1>1, <1>4, <1>5, <2>3 DEF Usage, Typed, UnderWay
<1>6. CASE cmd[p].args # <<>>
  <2>1. cmd[p].prog = "mkdir" /\ Given(p, "parents") /\ ~IsLn(p) /\ ~Removes(p) /\ ~Misused(p)
    BY <1>6 DEF Shared, IsLn, Removes, Misused
  <2>2. Start(p) \/ NextOperand(p) \/ Exit(p) \/ Mkdir(p)
    <3>1. at[p] \notin LnCalls \cup {"guess", "check", "rmdir", "unlink", "open"}
      BY <1>1, <2>1 DEF Placed
    <3> QED
      BY <2>1, <3>1
      DEF LnCalls, Step, Main, Ln, Rmdir, Touch, Unlink, Usage, Guess, Check, CheckFails,
          StatSrc, StatSrcFails, LstatDestMissing, LstatDestExists, LstatDestClashes,
          PromptYes, PromptNo, RemoveDone, RemoveFails, MakeLink, MakeLinkFails,
          RmdirDone, RmdirFails, TouchOpens, TouchCreates, TouchFails, UnlinkDone, UnlinkFails
  <2>3. CASE Start(p) \/ Exit(p)
    BY <1>1, <1>4, <2>1, <2>3 DEF Start, Exit, Typed, UnderWay
  <2>4. CASE NextOperand(p)
    <3> DEFINE arg == Operands(p)[operand[p] + 1]
    <3>1. /\ at[p] = "loop" /\ operand[p] < Len(Operands(p))
          /\ operand' = [operand EXCEPT ![p] = @ + 1]
          /\ depth' = [depth EXCEPT ![p] = FirstDepth(p, arg)]
          /\ at' = [at EXCEPT ![p] = FirstCall(p, arg)]
          /\ tree' = tree /\ ret' = ret
      BY <2>4 DEF NextOperand
    <3>2. operand[p] + 1 \in 1..Len(Operands(p)) /\ operand'[p] = operand[p] + 1
      BY <1>1, <3>1, OperandsArePaths DEF Typed
    <3>3. arg \in Path
      BY <1>1, <3>2, OperandsArePaths
    <3>4. Arg(p)' = arg
      BY <1>1, <3>2 DEF Arg
    <3>5. at'[p] = FirstCall(p, arg) /\ depth'[p] = FirstDepth(p, arg)
      BY <1>1, <3>1 DEF Typed
    <3> HIDE DEF arg
    <3>6. FirstCall(p, arg) = "mkdir" => arg # <<>>
      BY <1>1, <2>1, <3>3, FirstCallPlace
    <3>7. UnderWay(p)'
      <4> SUFFICES ASSUME arg # <<>> PROVE depth'[p] \in 1..Len(arg) /\ depth'[p] = 1
        BY <3>4, <3>5, <3>6 DEF UnderWay
      <4>1. depth'[p] = 1
        BY <2>1, <3>5 DEF FirstDepth
      <4>2. Len(arg) \in Nat /\ Len(arg) >= 1
        BY <3>3 DEF Path
      <4> QED
        BY <4>1, <4>2
    <3> QED
      BY <1>4, <3>1, <3>7
  <2>5. CASE Mkdir(p)
    <3>1. at[p] = "mkdir"
      BY <2>5 DEF Mkdir, MkdirDone, MkdirExists, MkdirFails
    <3>2. /\ Arg(p) \in Path /\ depth[p] \in 1..Len(Arg(p)) /\ ~MkdirFails(p)
          /\ Here(p) = SubSeq(Arg(p), 1, depth[p])
          /\ depth[p] < Len(Arg(p)) /\ Exists(tree, Here(p)) => IsDir(tree, Here(p))
      BY <3>1, MkdirMeets
    <3>3. /\ MkdirGoesOn(p) /\ operand' = operand /\ ret' = ret
          /\ \/ tree' = With(tree, Here(p), Dir)
             \/ tree' = tree /\ Exists(tree, Here(p))
      BY <2>5, <3>2 DEF Mkdir, MkdirDone, MkdirExists, MkdirGoesOn
    <3>4. /\ \A q : IsDir(tree, q) => IsDir(tree', q)
          /\ \A q : Exists(tree', q) => IsDir(tree', q) \/ (Exists(tree, q) /\ tree'[q] = tree[q])
          /\ depth[p] < Len(Arg(p)) => IsDir(tree', Here(p))
      <4>1. CASE tree' = With(tree, Here(p), Dir)
        <5>1. /\ DOMAIN tree' = DOMAIN tree \cup {Here(p)} /\ tree'[Here(p)] = Dir
              /\ \A q \in DOMAIN tree : q # Here(p) => tree'[q] = tree[q]
          BY <4>1 DEF With
        <5>2. IsDir(tree', Here(p))
          BY <5>1 DEF IsDir, Exists, Dir
        <5> QED
          BY <5>1, <5>2 DEF IsDir, Exists
      <4>2. CASE tree' = tree /\ Exists(tree, Here(p))
        BY <3>2, <4>2
      <4> QED
        BY <3>3, <4>1, <4>2
    <3>5. UnderWay(p)'
      <4>1. CASE depth[p] < Len(Arg(p))
        <5>1. depth'[p] = depth[p] + 1 /\ at'[p] = "mkdir" /\ Arg(p)' = Arg(p)
          BY <1>1, <1>2, <3>1, <3>3, <4>1 DEF MkdirGoesOn, Typed
        <5>2. depth'[p] \in 1..Len(Arg(p))
          BY <3>2, <4>1, <5>1 DEF Path
        <5>3. ASSUME NEW k \in 1..(depth'[p] - 1) PROVE IsDir(tree', SubSeq(Arg(p), 1, k))
          <6>1. k = depth[p] \/ k \in 1..(depth[p] - 1)
            BY <3>2, <5>1, <5>3 DEF Path
          <6>2. CASE k = depth[p]
            BY <3>2, <3>4, <4>1, <6>2
          <6>3. CASE k \in 1..(depth[p] - 1)
            BY <1>1, <3>1, <3>4, <6>3 DEF UnderWay
          <6> QED
            BY <6>1, <6>2, <6>3
        <5> QED
          BY <5>1, <5>2, <5>3 DEF UnderWay
      <4>2. CASE ~(depth[p] < Len(Arg(p)))
        BY <1>1, <3>3, <4>2 DEF MkdirGoesOn, Typed, UnderWay
      <4> QED
        BY <4>1, <4>2
    <3>6. \A r \in Proc : UnderWay(r)'
      BY <1>3, <3>4, <3>5
    <3>7. \A q : Exists(tree', q) => IsDir(tree', q) \/ (Exists(setting.tree, q) /\ ~IsDir(setting.tree, q))
      BY <3>4 DEF Met, IsDir
    <3> QED
      BY <1>1, <3>3, <3>4, <3>6, <3>7 DEF Met
  <2> QED
    BY <2>2, <2>3, <2>4, <2>5
<1> QED
  BY <1>5, <1>6

LEMMA NextMet == Control /\ Met /\ [Next]_vars => Met'
<1> SUFFICES ASSUME Control, Met, [Next]_vars, Shared' PROVE Met'
  BY DEF Met
<1>1. CASE UNCHANGED vars
  BY <1>1 DEF vars, Met, Shared, UnderWay, Arg, Operands, IsLn, Given, Quiet, cmd
<1>2. CASE \E p \in Proc : Step(p)
  <2>1. PICK p \in Proc : Step(p)
    BY <1>2
  <2>2. Shared
    BY <2>1, SettingStays DEF Shared, Quiet, Given, cmd
  <2> QED
    BY <2>1, <2>2, StepMet
<1> QED
  BY <1>1, <1>2 DEF Next, Done

\* Any number of mkdir -p on paths that share parents: none of them fails,
\* because a directory another has made meanwhile is as good (mkdir.c:51-53).
THEOREM ParentsAlwaysMeet == Spec => []ParentsMeet
<1>1. Init => Met
  BY InitMet
<1>2. Control /\ Met /\ [Next]_vars => Met'
  BY NextMet
<1>3. Met => ParentsMeet
  BY DEF Met, Shared, ParentsMeet
<1> QED
  BY <1>1, <1>2, <1>3, ControlHolds, PTL DEF Spec

-------------------------------------------------------------------------------
(***************************************************************************)
(* What may be taken away.                                                 *)
(***************************************************************************)
Alone(p) == \A r \in Proc \ {p} : cmd[r].args = <<>>

\* ln has been told to replace what it is about to remove, and a lone ln has
\* seen that it is no directory.
Consented(p) ==
  /\ at[p] = "remove" => IF Given(p, "interactive") THEN agreed[p] \/ "nothing" \in setting.answers
                                                    ELSE Given(p, "force")
  /\ at[p] \in {"prompt", "remove"} /\ Alone(p) => ~IsDir(tree, Dst(p))
  /\ at[p] = "prompt" => Given(p, "interactive")

AllConsented == \A p \in Proc : Consented(p)

LEMMA StepConsented ==
  ASSUME Control, AllConsented, NEW p \in Proc, Step(p), NEW r \in Proc
  PROVE  Consented(r)'
<1> USE DEF Goto, Error, Return, Fail, To, Deepen, fixed
<1>1. /\ setting' = setting /\ setting \in Settings /\ cmd' = cmd /\ Placed(p) /\ Consented(r)
      /\ at \in [Proc -> Places] /\ agreed \in [Proc -> BOOLEAN] /\ Alone(r)' = Alone(r)
      /\ \A f : Given(r, f)' = Given(r, f)
  BY SettingStays DEF Control, Typed, AllConsented, cmd, Alone, Given
<1>2. ASSUME tree' = tree, target'[r] = target[r], operand'[r] = operand[r] PROVE Dst(r)' = Dst(r)
  BY <1>1, <1>2 DEF Dst, Image, Behind, Dest, Operands, IsLn
<1>3. CASE r = p
  <2>1. CASE LstatDestExists(p)
    <3>1. /\ tree' = tree /\ target' = target /\ operand' = operand
          /\ at'[p] = IF Given(p, "interactive") THEN "prompt" ELSE "remove"
          /\ Given(p, "interactive") \/ Given(p, "force")
          /\ ~IsDir(tree, Dst(p))
      BY <1>1, <2>1 DEF LstatDestExists
    <3> QED
      BY <1>1, <1>2, <1>3, <3>1 DEF Consented
  <2>2. CASE PromptYes(p)
    <3>1. /\ tree' = tree /\ target' = target /\ operand' = operand
          /\ at[p] = "prompt" /\ at'[p] = "remove"
          /\ agreed'[p] \/ "nothing" \in setting.answers
      BY <1>1, <2>2 DEF PromptYes
    <3> QED
      BY <1>1, <1>2, <1>3, <3>1 DEF Consented
  <2>3. CASE ~LstatDestExists(p) /\ ~PromptYes(p)
    <3>1. CASE NextOperand(p)
      <4>1. /\ at[p] = "loop" /\ operand[p] < Len(Operands(p)) /\ operand[p] \in Nat
            /\ at'[p] = FirstCall(p, Operands(p)[operand[p] + 1])
        BY <1>1, <3>1 DEF NextOperand, Control, Typed
      <4>2. operand[p] + 1 \in 1..Len(Operands(p)) /\ ~Misused(p)
        BY <1>1, <4>1, OperandsArePaths DEF Placed
      <4>3. Operands(p)[operand[p] + 1] \in Path
        BY <1>1, <4>2, OperandsArePaths
      <4>4. at'[p] \notin {"prompt", "remove"}
        BY <1>1, <4>1, <4>2, <4>3, FirstCallPlace
      <4> QED
        BY <1>3, <4>4 DEF Consented
    <3>2. CASE ~NextOperand(p)
      <4>1. at'[p] \notin {"prompt", "remove"}
        BY <1>1, <2>3, <3>2
        DEF Step, Main, Ln, Mkdir, Rmdir, Touch, Unlink,
            Usage, Start, Guess, Check, CheckFails, Exit,
            StatSrc, StatSrcFails, LstatDestMissing, LstatDestClashes,
            PromptNo, RemoveDone, RemoveFails, MakeLink, MakeLinkFails,
            MkdirDone, MkdirExists, MkdirFails, MkdirGoesOn, RmdirDone, RmdirFails, RmdirGoesOn,
            TouchOpens, TouchCreates, TouchFails, UnlinkDone, UnlinkFails
      <4> QED
        BY <1>3, <4>1 DEF Consented
    <3> QED
      BY <3>1, <3>2
  <2> QED
    BY <2>1, <2>2, <2>3
<1>4. CASE r # p
  <2>1. at'[r] = at[r] /\ target'[r] = target[r] /\ operand'[r] = operand[r] /\ agreed'[r] = agreed[r]
    BY <1>4, OthersStay DEF Control
  <2>2. ASSUME Alone(r) PROVE tree' = tree
    <3>1. cmd[p].args = <<>>
      BY <1>4, <2>2 DEF Alone
    <3> QED
      BY <1>1, <3>1, IdleStep DEF Usage
  <2> QED
    BY <1>1, <1>2, <2>1, <2>2 DEF Consented
<1> QED
  BY <1>3, <1>4

(***************************************************************************)
(* Where a directory that ln removes can come from.                        *)
(***************************************************************************)

\* The name ln gives its operand, before a link is followed.
Written(p) == IF target[p] = "dir" THEN Append(Dest(p), Last(Arg(p))) ELSE Dest(p)

\* Another process makes the directory q, or one in it.
MadeByOther(p, q) ==
  \E r \in Proc \ {p} : /\ cmd[r].args # <<>> /\ cmd[r].prog = "mkdir"
                        /\ \E i \in DOMAIN cmd[r].args : IsPrefix(q, cmd[r].args[i])

\* A directory under the name that lstat() has looked at is one that another
\* process has made since.
Unseen(p) == at[p] \in {"prompt", "remove"} /\ IsDir(tree, Written(p)) => MadeByOther(p, Written(p))

Looked == Grown(tree) /\ \A p \in Proc : Unseen(p)

\* A link made where it can be leaves every entry in a directory.
LEMMA WithLinkIsGrown ==
  ASSUME NEW t, NEW p \in Path, NEW node, Grown(t), CanMake(t, p), node.kind = "link" => node.to \in Path
  PROVE  Grown(With(t, p, node))
<1> DEFINE u == With(t, p, node)
<1>1. /\ DOMAIN u = DOMAIN t \cup {p} /\ u[p] = node
      /\ \A q \in DOMAIN t : u[q] = t[q]
  BY DEF With, CanMake, Exists
<1>2. \A q : IsDir(t, q) => IsDir(u, q)
  BY <1>1 DEF IsDir, Exists
<1>3. LinksLead(u)
  BY <1>1 DEF Grown, LinksLead, IsLink, Exists
<1>4. \A q \in DOMAIN u : q \in Path /\ (q # <<>> => IsDir(u, Front(q)))
  BY <1>1, <1>2 DEF Grown, CanMake
<1>5. u = [q \in DOMAIN u |-> u[q]]
  BY DEF With
<1> QED BY <1>2, <1>3, <1>4, <1>5 DEF Grown

\* What is made has a path for its name.
LEMMA NewNameIsPath ==
  ASSUME Control, Grown(tree), NEW p \in Proc
  PROVE  /\ MakeLink(p) => Dst(p) \in Path /\ Arg(p) \in Path
         /\ MkdirDone(p) => Here(p) \in Path /\ IsPrefix(Here(p), Arg(p)) /\ operand[p] \in DOMAIN Operands(p)
         /\ TouchCreates(p) => Behind(Arg(p)) \in Path
<1>1. /\ Placed(p) /\ setting \in Settings /\ operand[p] \in Nat /\ depth[p] \in Nat
      /\ cmd[p].args \in Seq(Path) /\ Len(Operands(p)) \in Nat /\ Operands(p) \in Seq(Path)
  BY OperandsArePaths DEF Control, Typed
<1>2. ASSUME at[p] \in Calls PROVE operand[p] \in DOMAIN Operands(p) /\ Arg(p) \in Path
  BY <1>1, <1>2, OperandsArePaths DEF Placed, Arg
<1>3. ASSUME NEW path \in Path PROVE Behind(path) \in Path
  BY <1>3 DEF Behind, Grown, LinksLead, IsLink, Exists
<1>4. ASSUME MakeLink(p) PROVE Dst(p) \in Path /\ Arg(p) \in Path
  <2>1. at[p] \in Calls /\ IsLn(p) /\ ~Misused(p) /\ cmd[p].args # <<>>
    BY <1>1, <1>4 DEF MakeLink, Calls, Placed, LnCalls, Misused
  <2>2. Dest(p) \in Path
    <3>1. Len(cmd[p].args) \in 1..Len(cmd[p].args)
      BY <1>1, <2>1
    <3> QED BY <1>1, <3>1 DEF Dest, Last
  <2>3. Arg(p) # <<>>
    <3>1. Setting(setting)
      BY <1>1, SettingsAssumption
    <3>2. <<>> \notin Range(cmd[p].args)
      BY <2>1, <3>1 DEF Setting, IsLn, cmd
    <3>3. operand[p] \in DOMAIN cmd[p].args /\ Arg(p) = cmd[p].args[operand[p]]
      <4>1. /\ Front(cmd[p].args) \in Seq(Path) /\ Len(Front(cmd[p].args)) = Len(cmd[p].args) - 1
            /\ \A i \in 1..(Len(cmd[p].args) - 1) : Front(cmd[p].args)[i] = cmd[p].args[i]
        BY <1>1, <2>1, FrontAndLast
      <4>2. Operands(p) = Front(cmd[p].args) /\ operand[p] \in DOMAIN Operands(p)
        BY <1>2, <2>1 DEF Operands
      <4> QED BY <1>1, <4>1, <4>2 DEF Arg
    <3> QED BY <3>2, <3>3 DEF Range
  <2>4. Last(Arg(p)) \in Name
    <3>1. Arg(p) \in Seq(Name)
      BY <1>2, <2>1 DEF Path
    <3> QED BY <2>3, <3>1, FrontAndLast
  <2>5. Behind(Dest(p)) \in Path
    BY <1>3, <2>2
  <2>6. Append(Behind(Dest(p)), Last(Arg(p))) \in Path
    BY <2>4, <2>5 DEF Path
  <2> QED BY <1>2, <2>1, <2>2, <2>6 DEF Dst, Image, Arg
<1>5. ASSUME MkdirDone(p)
      PROVE  Here(p) \in Path /\ IsPrefix(Here(p), Arg(p)) /\ operand[p] \in DOMAIN Operands(p)
  <2>1. at[p] = "mkdir" /\ depth[p] <= Len(Arg(p)) /\ operand[p] \in DOMAIN Operands(p) /\ Arg(p) \in Path
    BY <1>1, <1>2, <1>5 DEF MkdirDone, Calls, Placed
  <2> QED BY <1>1, <2>1 DEF Here, IsPrefix, Path
<1>6. ASSUME TouchCreates(p) PROVE Behind(Arg(p)) \in Path
  BY <1>2, <1>3, <1>6 DEF TouchCreates, Calls
<1> QED BY <1>4, <1>5, <1>6

\* The steps that change the tree.
LEMMA HowTreeChanges ==
  ASSUME NEW p \in Proc, Step(p), tree' # tree
  PROVE  \/ RemoveDone(p) \/ RmdirDone(p) \/ UnlinkDone(p)
         \/ MakeLink(p) \/ MkdirDone(p) \/ TouchCreates(p)
  BY DEF Step, Main, Ln, Mkdir, Rmdir, Touch, Unlink,
      Usage, Start, Guess, Check, CheckFails, NextOperand, Exit,
      StatSrc, StatSrcFails, LstatDestMissing, LstatDestExists, LstatDestClashes,
      PromptYes, PromptNo, RemoveFails, MakeLinkFails,
      MkdirExists, MkdirFails, RmdirFails, TouchOpens, TouchFails, UnlinkFails

LEMMA StepGrown ==
  ASSUME Control, Grown(tree), NEW p \in Proc, Step(p)
  PROVE  Grown(tree')
<1>1. CASE tree' = tree
  BY <1>1
<1>2. CASE RemoveDone(p) \/ RmdirDone(p) \/ UnlinkDone(p)
  <2>1. PICK x : tree' = Without(tree, x) /\ (CanUnlink(tree, x) \/ CanRmdir(tree, x))
    BY <1>2 DEF RemoveDone, Removable, RmdirDone, UnlinkDone
  <2> QED BY <2>1, WithoutIsGrown
<1>3. CASE MakeLink(p)
  <2>1. /\ CanMake(tree, Dst(p)) /\ (Given(p, "symbolic") \/ Exists(tree, Arg(p)))
        /\ tree' = With(tree, Dst(p), IF Given(p, "symbolic") THEN Link(Arg(p)) ELSE tree[Arg(p)])
        /\ Dst(p) \in Path /\ Arg(p) \in Path
    BY <1>3, NewNameIsPath DEF MakeLink, CanLink, CanUnlink
  <2> DEFINE node == IF Given(p, "symbolic") THEN Link(Arg(p)) ELSE tree[Arg(p)]
  <2>2. node.kind = "link" => node.to \in Path
    BY <2>1 DEF Link, Grown, LinksLead, IsLink, Exists
  <2> HIDE DEF node
  <2>3. tree' = With(tree, Dst(p), node)
    BY <2>1 DEF node
  <2> QED BY <2>1, <2>2, <2>3, WithLinkIsGrown
<1>4. CASE MkdirDone(p)
  <2>1. CanMake(tree, Here(p)) /\ tree' = With(tree, Here(p), Dir) /\ Here(p) \in Path
    BY <1>4, NewNameIsPath DEF MkdirDone
  <2> QED BY <2>1, WithIsGrown DEF Dir
<1>5. CASE TouchCreates(p)
  <2>1. /\ CanMake(tree, Behind(Arg(p))) /\ tree' = With(tree, Behind(Arg(p)), File(0))
        /\ Behind(Arg(p)) \in Path
    BY <1>5, NewNameIsPath DEF TouchCreates, Creates
  <2> QED BY <2>1, WithIsGrown DEF File
<1> QED BY <1>1, <1>2, <1>3, <1>4, <1>5, HowTreeChanges

\* Only mkdir makes a directory.
LEMMA NewDirectory ==
  ASSUME Control, NEW p \in Proc, Step(p), NEW q, IsDir(tree', q), ~IsDir(tree, q)
  PROVE  MkdirDone(p) /\ q = Here(p)
<1>1. tree' # tree
  OBVIOUS
<1>2. CASE RemoveDone(p) \/ RmdirDone(p) \/ UnlinkDone(p)
  <2>1. PICK x : tree' = Without(tree, x)
    BY <1>2 DEF RemoveDone, RmdirDone, UnlinkDone
  <2> QED BY <2>1 DEF Without, IsDir, Exists
<1>3. CASE MakeLink(p) \/ TouchCreates(p)
  <2>1. PICK x, node : tree' = With(tree, x, node) /\ node.kind # "dir"
    <3>1. CASE MakeLink(p)
      <4>1. /\ tree' = With(tree, Dst(p), IF Given(p, "symbolic") THEN Link(Arg(p)) ELSE tree[Arg(p)])
            /\ Given(p, "symbolic") \/ tree[Arg(p)].kind # "dir"
        BY <3>1 DEF MakeLink, CanLink, CanUnlink, IsDir
      <4> QED BY <4>1 DEF Link
    <3>2. CASE TouchCreates(p)
      BY <3>2 DEF TouchCreates, File
    <3> QED BY <1>3, <3>1, <3>2
  <2> QED BY <2>1 DEF With, IsDir, Exists
<1>4. CASE MkdirDone(p)
  BY <1>4 DEF MkdirDone, With, IsDir, Exists
<1> QED BY <1>1, <1>2, <1>3, <1>4, HowTreeChanges

LEMMA StepLooked ==
  ASSUME Control, Looked, NEW p \in Proc, Step(p)
  PROVE  Looked'
<1> USE DEF Goto, Error, Return, Fail, To, Deepen, fixed
<1>1. Grown(tree)' /\ Grown(tree)
  BY StepGrown DEF Looked
<1>2. /\ setting' = setting /\ cmd' = cmd /\ setting \in Settings /\ Placed(p)
      /\ at \in [Proc -> Places] /\ operand[p] \in Nat
  BY SettingStays DEF Control, Typed, cmd
<1>3. SUFFICES ASSUME NEW r \in Proc, at'[r] \in {"prompt", "remove"}, IsDir(tree', Written(r)')
               PROVE  MadeByOther(r, Written(r)')
  BY <1>1, <1>2 DEF Looked, Unseen, MadeByOther
<1>4. ASSUME target'[r] = target[r], operand'[r] = operand[r] PROVE Written(r)' = Written(r)
  BY <1>2, <1>4 DEF Written, Dest, Arg, Operands, IsLn
<1>5. CASE r # p
  <2>1. at'[r] = at[r] /\ Written(r)' = Written(r)
    BY <1>4, <1>5, OthersStay DEF Control
  <2>2. CASE IsDir(tree, Written(r))
    BY <1>3, <2>1, <2>2 DEF Looked, Unseen
  <2>3. CASE ~IsDir(tree, Written(r))
    <3>1. MkdirDone(p) /\ Written(r) = Here(p)
      BY <1>3, <2>1, <2>3, NewDirectory
    <3>2. IsPrefix(Here(p), Arg(p)) /\ operand[p] \in DOMAIN Operands(p)
      BY <1>1, <3>1, NewNameIsPath
    <3>3. cmd[p].prog = "mkdir" /\ cmd[p].args # <<>>
      BY <1>2, <3>1 DEF MkdirDone, Placed, Misused
    <3>4. Operands(p) = cmd[p].args
      BY <3>3 DEF Operands, IsLn
    <3> QED BY <1>5, <2>1, <3>1, <3>2, <3>3, <3>4 DEF MadeByOther, Arg
  <2> QED BY <2>2, <2>3
<1>6. CASE r = p
  <2>1. CASE PromptYes(p)
    <3>1. at[p] = "prompt" /\ tree' = tree /\ Written(p)' = Written(p)
      BY <1>4, <1>6, <2>1 DEF PromptYes
    <3> QED BY <1>3, <1>6, <3>1 DEF Looked, Unseen
  <2>2. CASE LstatDestExists(p)
    <3>1. tree' = tree /\ Written(p)' = Written(p) /\ ~IsDir(tree, Dst(p)) /\ at[p] = "lstat_dest"
      BY <1>4, <1>6, <2>2 DEF LstatDestExists
    <3>2. IsDir(tree, Written(p))
      BY <1>3, <1>6, <3>1
    <3>3. target[p] = "dir" /\ IsLink(tree, Dest(p)) /\ Written(p) = Append(Dest(p), Last(Arg(p)))
      BY <3>1, <3>2 DEF Written, Dst, Image, Behind, Arg
    <3>4. Front(Written(p)) = Dest(p) /\ Written(p) # <<>>
      <4> DEFINE d == Dest(p)
                 e == Last(Arg(p))
                 S == Name \cup {e}
      <4>1. d \in Seq(Name)
        BY <1>1, <3>3 DEF Grown, IsLink, Exists, Path
      <4> HIDE DEF d, e
      <4>2. d \in Seq(S) /\ e \in S
        BY <4>1
      <4> HIDE DEF S
      <4>3. Front(Append(d, e)) = d /\ Append(d, e) # <<>>
        BY <4>2, FrontOfAppend
      <4> QED BY <3>3, <4>3 DEF d, e
    <3>5. IsDir(tree, Dest(p))
      BY <1>1, <3>2, <3>4 DEF Grown, IsDir, Exists
    <3> QED BY <3>3, <3>5 DEF IsDir, IsLink
  <2>3. CASE ~PromptYes(p) /\ ~LstatDestExists(p)
    <3>1. CASE NextOperand(p)
      <4>1. /\ at[p] = "loop" /\ operand[p] < Len(Operands(p))
            /\ at'[p] = FirstCall(p, Operands(p)[operand[p] + 1])
        BY <1>2, <3>1 DEF NextOperand
      <4>2. operand[p] + 1 \in 1..Len(Operands(p)) /\ ~Misused(p)
        BY <1>2, <4>1, OperandsArePaths DEF Placed
      <4>3. Operands(p)[operand[p] + 1] \in Path
        BY <1>2, <4>2, OperandsArePaths
      <4>4. at'[p] \notin {"prompt", "remove"}
        BY <1>2, <4>1, <4>2, <4>3, FirstCallPlace
      <4> QED BY <1>3, <1>6, <4>4
    <3>2. CASE ~NextOperand(p)
      <4>1. at'[p] \notin {"prompt", "remove"}
        BY <1>2, <2>3, <3>2
        DEF Step, Main, Ln, Mkdir, Rmdir, Touch, Unlink,
            Usage, Start, Guess, Check, CheckFails, Exit,
            StatSrc, StatSrcFails, LstatDestMissing, LstatDestClashes,
            PromptNo, RemoveDone, RemoveFails, MakeLink, MakeLinkFails,
            MkdirDone, MkdirExists, MkdirFails, MkdirGoesOn, RmdirDone, RmdirFails, RmdirGoesOn,
            TouchOpens, TouchCreates, TouchFails, UnlinkDone, UnlinkFails
      <4> QED BY <1>3, <1>6, <4>1
    <3> QED BY <3>1, <3>2
  <2> QED BY <2>1, <2>2, <2>3
<1> QED BY <1>5, <1>6

\* An entry that a step of p takes away or changes is one p was asked to take.
LEMMA StepAsked ==
  ASSUME Control, AllConsented, Looked, NEW p \in Proc, Step(p), NEW q \in DOMAIN tree
  PROVE  (Exists(tree', q) /\ tree'[q] = tree[q]) \/ Asked(p, q)
<1>1. /\ Placed(p) /\ setting \in Settings /\ operand[p] \in Nat /\ depth[p] \in Nat /\ Consented(p)
      /\ Operands(p) \in Seq(Path) /\ Len(Operands(p)) \in Nat
  BY OperandsArePaths DEF Control, Typed, AllConsented
<1>2. CASE tree' = tree
  BY <1>2 DEF Exists
<1>3. CASE MakeLink(p) \/ MkdirDone(p) \/ TouchCreates(p)
  <2>1. PICK x, node : ~Exists(tree, x) /\ tree' = With(tree, x, node)
    BY <1>3 DEF MakeLink, CanLink, MkdirDone, TouchCreates, Creates, CanMake
  <2> QED
    BY <2>1 DEF With, Exists
<1>4. ASSUME at[p] \in Calls PROVE operand[p] \in DOMAIN Operands(p) /\ Arg(p) \in Path
  BY <1>1, <1>4, OperandsArePaths DEF Placed, Arg
<1>5. ASSUME NEW x, tree' = Without(tree, x), q # x
      PROVE  Exists(tree', q) /\ tree'[q] = tree[q]
  BY <1>5 DEF Without, Exists
<1>6. CASE RemoveDone(p)
  <2>1. at[p] = "remove" /\ tree' = Without(tree, Dst(p)) /\ IsLn(p)
    BY <1>1, <1>6 DEF RemoveDone, Placed, LnCalls
  <2>2. ASSUME q = Dst(p) PROVE Asked(p, q)
    <3>1. \E i \in DOMAIN Operands(p) : q = Image(p, i)
      BY <1>4, <2>1, <2>2 DEF Dst, Calls
    <3>2. IF Given(p, "interactive") THEN agreed[p] \/ "nothing" \in setting.answers
                                     ELSE Given(p, "force")
      BY <1>1, <2>1 DEF Consented
    <3>3. IsDir(tree, q) => SlippedIn(p, q)
      <4>1. CASE target[p] = "dir" /\ IsLink(tree, Dest(p))
        BY <1>1, <2>1, <2>2, <4>1 DEF Consented, Alone, SlippedIn
      <4>2. CASE ~(target[p] = "dir" /\ IsLink(tree, Dest(p)))
        <5>1. Dst(p) = Written(p)
          BY <4>2 DEF Dst, Image, Behind, Written, Arg
        <5> QED BY <2>1, <2>2, <5>1 DEF Looked, Unseen, MadeByOther, SlippedIn
      <4> QED BY <4>1, <4>2
    <3> QED
      BY <2>1, <3>1, <3>2, <3>3 DEF Asked, IsLn
  <2> QED
    BY <1>5, <2>1, <2>2
<1>7. CASE RmdirDone(p)
  <2>1. /\ at[p] = "rmdir" /\ tree' = Without(tree, Here(p)) /\ IsDir(tree, Here(p))
        /\ cmd[p].prog = "rmdir" /\ ~IsLn(p)
        /\ depth[p] <= Len(Arg(p)) /\ (Given(p, "parents") \/ depth[p] = Len(Arg(p)))
    BY <1>1, <1>7 DEF RmdirDone, CanRmdir, Placed, IsLn
  <2>2. operand[p] \in DOMAIN Operands(p) /\ Arg(p) \in Path
    BY <1>4, <2>1 DEF Calls
  <2>3. IsPrefix(Here(p), Arg(p))
    BY <1>1, <2>1, <2>2 DEF Here, IsPrefix, Path
  <2>4. depth[p] = Len(Arg(p)) => Here(p) = Arg(p)
    BY <2>2, WholePath DEF Here
  <2>5. ASSUME q = Here(p) PROVE Asked(p, q)
    BY <2>1, <2>2, <2>3, <2>4, <2>5 DEF Asked, Arg
  <2> QED
    BY <1>5, <2>1, <2>5
<1>8. CASE UnlinkDone(p)
  <2>1. /\ at[p] = "unlink" /\ tree' = Without(tree, Arg(p)) /\ ~IsDir(tree, Arg(p))
        /\ cmd[p].prog = "unlink" /\ ~Misused(p) /\ ~IsLn(p)
    BY <1>1, <1>8 DEF UnlinkDone, CanUnlink, Placed, IsLn
  <2>2. Operands(p) = cmd[p].args /\ ~(Len(cmd[p].args) > 1)
    BY <2>1 DEF Operands, Misused
  <2>3. operand[p] = 1
    BY <1>1, <2>1, <2>2 DEF Placed, Calls
  <2>4. ASSUME q = Arg(p) PROVE Asked(p, q)
    BY <2>1, <2>3, <2>4 DEF Asked, Arg
  <2> QED
    BY <1>5, <2>1, <2>4
<1> QED
  BY <1>2, <1>3, <1>6, <1>7, <1>8
  DEF Step, Main, Ln, Mkdir, Rmdir, Touch, Unlink,
      Usage, Start, Guess, Check, CheckFails, NextOperand, Exit,
      StatSrc, StatSrcFails, LstatDestMissing, LstatDestExists, LstatDestClashes,
      PromptYes, PromptNo, RemoveFails, MakeLinkFails,
      MkdirExists, MkdirFails, RmdirFails, TouchOpens, TouchFails, UnlinkFails

\* Nothing is taken away or changed that nobody asked for.
THEOREM OnlyAskedIsTaken == Spec => OnlyAsked
<1> DEFINE Taken == \A q \in DOMAIN tree :
              (Exists(tree', q) /\ tree'[q] = tree[q]) \/ \E p \in Proc : Asked(p, q)
<1>1. Init => AllConsented /\ Looked
  <2> SUFFICES ASSUME Init PROVE AllConsented /\ Looked
    OBVIOUS
  <2>1. IsTree(tree) /\ \A p \in Proc : at[p] = "start"
    BY SettingsAssumption DEF Init, Setting
  <2>2. Grown(tree)
    BY <2>1, TreeIsGrown
  <2> QED
    BY <2>1, <2>2 DEF AllConsented, Consented, Looked, Unseen
<1>2. Control /\ AllConsented /\ Looked /\ [Next]_vars => AllConsented' /\ Looked'
  <2> SUFFICES ASSUME Control, AllConsented, Looked, [Next]_vars PROVE AllConsented' /\ Looked'
    OBVIOUS
  <2>1. CASE UNCHANGED vars
    <3>1. AllConsented'
      BY <2>1 DEF vars, AllConsented, Consented, Alone, Dst, Image, Behind, Dest, Operands, IsLn, Given, cmd
    <3>2. Looked'
      BY <2>1 DEF vars, Looked, Unseen, MadeByOther, Written, Arg, Dest, Operands, IsLn, cmd
    <3> QED
      BY <3>1, <3>2
  <2>2. CASE \E p \in Proc : Step(p)
    BY <2>2, StepConsented, StepLooked DEF AllConsented
  <2> QED
    BY <2>1, <2>2 DEF Next, Done
<1>3. Control /\ AllConsented /\ Looked /\ [Next]_vars => [Taken]_vars
  <2> SUFFICES ASSUME Control, AllConsented, Looked, [Next]_vars PROVE Taken \/ UNCHANGED vars
    OBVIOUS
  <2>1. CASE \E p \in Proc : Step(p)
    BY <2>1, StepAsked
  <2> QED
    BY <2>1 DEF Next, Done
<1> QED
  BY <1>1, <1>2, <1>3, ControlHolds, PTL DEF Spec, OnlyAsked
-------------------------------------------------------------------------------
(***************************************************************************)
(* What an exit status of 0 says.                                          *)
(***************************************************************************)

\* How many operands p is done with.
Ended(p) == IF at[p] \in Calls THEN operand[p] - 1 ELSE operand[p]

\* An operand is made, and will stay so: what ln has given a name is there.
Sure(p, i) ==
  /\ Made(p, i)
  /\ IsLn(p) /\ ~Given(p, "symbolic") => Exists(tree, Operands(p)[i])

\* As long as nothing is taken away: the operands so far are made.
MadeSoFar ==
  NothingTaken => \A p \in Proc : Makes(p) /\ ret[p] = 0 =>
    /\ \A i \in 1..Ended(p) : Sure(p, i)
    /\ at[p] = "mkdir" => depth[p] <= Len(Arg(p))

\* As long as nothing is made: the operands so far are gone, and of the operand
\* rmdir is at the directories it has been through.
GoneSoFar ==
  NothingMade => \A p \in Proc : Removes(p) /\ ret[p] = 0 =>
    /\ \A i \in 1..Ended(p) : Gone(p, i)
    /\ at[p] = "rmdir" =>
         \A k \in (depth[p] + 1)..Len(Arg(p)) : ~Exists(tree, SubSeq(Arg(p), 1, k))

\* As long as nothing is made, a step changes nothing or takes one entry away.
LEMMA OnlyShrinks ==
  ASSUME Control, NothingMade, NEW p \in Proc, Step(p)
  PROVE  \A q : ~Exists(tree, q) => ~Exists(tree', q)
<1>1. Placed(p) /\ ~Makes(p) /\ setting \in Settings
  BY DEF Control, Typed, NothingMade
<1>2. CASE cmd[p].args = <<>>
  <2>1. Usage(p)
    BY <1>1, <1>2, IdleStep
  <2> QED
    BY <2>1 DEF Usage
<1>3. CASE cmd[p].args # <<>>
  <2>1. ~IsLn(p) /\ cmd[p].prog # "mkdir" /\ cmd[p].prog # "touch"
    BY <1>1, <1>3 DEF Makes, IsLn
  <2>2. at[p] \notin LnCalls \cup {"mkdir", "open"}
    BY <1>1, <2>1 DEF Placed
  <2>3. tree' = tree \/ \E x : tree' = Without(tree, x)
    BY <2>2 DEF LnCalls, Step, Main, Ln, Mkdir, Rmdir, Touch, Unlink,
         Usage, Start, Guess, Check, CheckFails, NextOperand, Exit,
         StatSrc, StatSrcFails, LstatDestMissing, LstatDestExists, LstatDestClashes,
         PromptYes, PromptNo, RemoveDone, RemoveFails, MakeLink, MakeLinkFails,
         MkdirDone, MkdirExists, MkdirFails, RmdirDone, RmdirFails,
         TouchOpens, TouchCreates, TouchFails, UnlinkDone, UnlinkFails
  <2> QED
    BY <2>3 DEF Without, Exists
<1> QED
  BY <1>2, <1>3

\* The steps of rmdir and unlink.
LEMMA StepOfRemover ==
  ASSUME NEW p \in Proc, Placed(p), Removes(p), Step(p)
  PROVE  \/ Usage(p) \/ Start(p) \/ NextOperand(p) \/ Exit(p)
         \/ RmdirDone(p) \/ RmdirFails(p) \/ UnlinkDone(p) \/ UnlinkFails(p)
<1>1. ~IsLn(p) /\ cmd[p].prog # "mkdir" /\ cmd[p].prog # "touch"
  BY DEF Removes, IsLn
<1>2. at[p] \notin LnCalls \cup {"guess", "check", "mkdir", "open"}
  BY <1>1 DEF Placed
<1> QED
  BY <1>2
  DEF LnCalls, Step, Main, Ln, Mkdir, Rmdir, Touch, Unlink, Guess, Check, CheckFails,
      StatSrc, StatSrcFails, LstatDestMissing, LstatDestExists, LstatDestClashes,
      PromptYes, PromptNo, RemoveDone, RemoveFails, MakeLink, MakeLinkFails,
      MkdirDone, MkdirExists, MkdirFails, TouchOpens, TouchCreates, TouchFails

\* The command lines stay what they are.
LEMMA LinesStay ==
  ASSUME NEW p \in Proc, Step(p)
  PROVE  /\ setting' = setting /\ cmd' = cmd
         /\ \A r \in Proc : /\ Operands(r)' = Operands(r) /\ Dest(r)' = Dest(r)
                            /\ IsLn(r)' = IsLn(r) /\ Removes(r)' = Removes(r) /\ Makes(r)' = Makes(r)
                            /\ Replaces(r)' = Replaces(r) /\ Alone(r)' = Alone(r)
                            /\ LeadsToItself(r)' = LeadsToItself(r)
                            /\ operand'[r] = operand[r] => Arg(r)' = Arg(r)
                            /\ \A f : Given(r, f)' = Given(r, f)
         /\ NothingMade' = NothingMade /\ NothingTaken' = NothingTaken
<1>1. setting' = setting
  BY SettingStays
<1> QED
  BY <1>1 DEF Operands, Dest, IsLn, Removes, Makes, Replaces, Alone, LeadsToItself, Arg, Given,
              NothingMade, NothingTaken, cmd

\* unlink has no options.
LEMMA UnlinkIsPlain ==
  ASSUME setting \in Settings, NEW p \in Proc, cmd[p].prog = "unlink"
  PROVE  ~Given(p, "parents")
<1>1. Setting(setting)
  BY SettingsAssumption
<1>2. cmd[p].flags \subseteq FlagsOf(cmd[p].prog)
  BY <1>1 DEF Setting, cmd
<1> QED
  BY <1>2 DEF FlagsOf, Given

LEMMA StepGone ==
  ASSUME Control, GoneSoFar, NothingMade, NEW p \in Proc, Step(p)
  PROVE  GoneSoFar'
<1> USE DEF Goto, Error, Return, Fail, To, Deepen, fixed
<1>1. /\ Typed /\ setting \in Settings
      /\ \A r \in Proc : Placed(r) /\ operand[r] \in Nat /\ depth[r] \in Nat
                         /\ at[r] \in Places /\ ret[r] \in {0, 1}
      /\ at \in [Proc -> Places] /\ operand \in [Proc -> Nat] /\ depth \in [Proc -> Nat]
      /\ ret \in [Proc -> {0, 1}]
  BY DEF Control, Typed
<1>2. /\ cmd' = cmd
      /\ \A r \in Proc : Operands(r)' = Operands(r) /\ Removes(r)' = Removes(r)
                         /\ (operand'[r] = operand[r] => Arg(r)' = Arg(r))
                         /\ \A f : Given(r, f)' = Given(r, f)
  BY LinesStay
<1>3. \A q : ~Exists(tree, q) => ~Exists(tree', q)
  BY OnlyShrinks
<1>4. ASSUME NEW r \in Proc, NEW i, Gone(r, i) PROVE Gone(r, i)'
  BY <1>2, <1>3, <1>4 DEF Gone
<1>5. ASSUME NEW r \in Proc, Removes(r), ret'[r] = 0
      PROVE  /\ \A i \in 1..(Ended(r)') : Gone(r, i)'
             /\ at'[r] = "rmdir" =>
                  \A k \in (depth'[r] + 1)..Len(Arg(r)') : ~Exists(tree', SubSeq(Arg(r)', 1, k))
  <2>1. CASE r # p
    <3>1. /\ at'[r] = at[r] /\ operand'[r] = operand[r] /\ depth'[r] = depth[r] /\ ret'[r] = ret[r]
      BY <1>1, <2>1, OthersStay
    <3>2. Ended(r)' = Ended(r) /\ Arg(r)' = Arg(r)
      BY <1>2, <3>1 DEF Ended
    <3> QED
      BY <1>3, <1>4, <1>5, <3>1, <3>2 DEF GoneSoFar
  <2>2. CASE r = p
    <3>0. ret[p] = 0
      <4>1. ret[p] # 1 \/ ret' = ret \/ Error(p)
        BY <1>5, <2>2, <1>1, StepOfRemover
        DEF Usage, Start, NextOperand, Exit, RmdirDone, RmdirGoesOn, RmdirFails, UnlinkDone, UnlinkFails
      <4> QED
        BY <1>1, <1>5, <2>2, <4>1
    <3>1. /\ \A i \in 1..Ended(p) : Gone(p, i)
          /\ at[p] = "rmdir" =>
               \A k \in (depth[p] + 1)..Len(Arg(p)) : ~Exists(tree, SubSeq(Arg(p), 1, k))
      BY <1>5, <2>2, <3>0 DEF GoneSoFar
    <3>2. CASE Usage(p) \/ RmdirFails(p) \/ UnlinkFails(p)
      BY <1>1, <1>5, <2>2, <3>2 DEF Usage, RmdirFails, UnlinkFails
    <3>3. CASE Start(p) \/ Exit(p)
      <4>1. at[p] \in {"start", "loop"} /\ at'[p] \in {"guess", "loop", "exited"} /\ operand'[p] = operand[p]
        BY <1>1, <3>3 DEF Start, Exit
      <4>2. at[p] \notin Calls /\ at'[p] \notin Calls /\ at'[p] # "rmdir"
        BY <4>1 DEF Calls
      <4>3. Ended(p)' = operand[p] /\ Ended(p) = operand[p]
        BY <4>1, <4>2 DEF Ended
      <4> QED
        BY <1>4, <2>2, <3>1, <4>2, <4>3
    <3>4. CASE NextOperand(p)
      <4> DEFINE arg == Operands(p)[operand[p] + 1]
      <4>1. /\ at[p] = "loop" /\ operand[p] < Len(Operands(p))
            /\ operand'[p] = operand[p] + 1 /\ depth'[p] = FirstDepth(p, arg)
            /\ at'[p] = FirstCall(p, arg)
        BY <1>1, <3>4 DEF NextOperand
      <4>2. operand[p] + 1 \in 1..Len(Operands(p)) /\ ~Misused(p)
        BY <1>1, <4>1, OperandsArePaths DEF Placed
      <4>3. arg \in Path /\ Len(arg) \in Nat
        BY <1>1, <4>2, OperandsArePaths DEF Path
      <4>4. Arg(p)' = arg
        BY <1>2, <4>1 DEF Arg
      <4> HIDE DEF arg
      <4>5. FirstCall(p, arg) \in {"rmdir", "unlink"}
        BY <1>5, <2>2 DEF FirstCall, Removes, IsLn
      <4>6. at'[p] = "rmdir" => depth'[p] = Len(arg)
        BY <1>1, <4>1, <4>2, <4>3, FirstCallPlace
      <4>7. Ended(p)' = operand[p] /\ Ended(p) = operand[p]
        <5>1. at'[p] \in Calls /\ at[p] \notin Calls
          BY <4>1, <4>5 DEF Calls
        <5>2. operand[p] \in Nat /\ operand'[p] - 1 = operand[p]
          BY <1>1, <4>1
        <5> QED
          BY <5>1, <5>2 DEF Ended
      <4>8. at'[p] = "rmdir" => (depth'[p] + 1)..Len(Arg(p)') = {}
        BY <4>3, <4>4, <4>6
      <4> QED
        BY <1>4, <2>2, <3>1, <4>7, <4>8
    <3>5. CASE RmdirDone(p)
      <4>1. /\ at[p] = "rmdir" /\ tree' = Without(tree, Here(p)) /\ operand' = operand /\ RmdirGoesOn(p)
            /\ cmd[p].prog = "rmdir" /\ depth[p] <= Len(Arg(p)) /\ Here(p) # <<>>
            /\ (Given(p, "parents") \/ depth[p] = Len(Arg(p))) /\ operand[p] >= 1
        BY <1>1, <3>5 DEF RmdirDone, RmdirGoesOn, CanRmdir, Placed, Calls
      <4>2. operand[p] \in 1..Len(Operands(p)) /\ Arg(p) \in Path /\ Len(Arg(p)) \in Nat
        BY <1>1, <4>1, OperandsArePaths DEF Placed, Arg, Path
      <4>3. depth[p] >= 1
        <5>1. SubSeq(Arg(p), 1, 0) = <<>>
          BY <4>2 DEF Path
        <5>2. depth[p] # 0
          BY <4>1, <5>1 DEF Here
        <5> QED
          BY <1>1, <5>2
      <4>4. \A k \in depth[p]..Len(Arg(p)) : ~Exists(tree', SubSeq(Arg(p), 1, k))
        <5>1. ~Exists(tree', Here(p))
          BY <4>1 DEF Without, Exists
        <5>2. \A k \in (depth[p] + 1)..Len(Arg(p)) : ~Exists(tree', SubSeq(Arg(p), 1, k))
          BY <1>3, <3>1, <4>1
        <5>3. \A k \in depth[p]..Len(Arg(p)) : k = depth[p] \/ k \in (depth[p] + 1)..Len(Arg(p))
          BY <1>1, <4>2
        <5> QED
          BY <5>1, <5>2, <5>3 DEF Here
      <4>5. CASE Given(p, "parents") /\ depth[p] > 1
        <5>1. at'[p] = "rmdir" /\ depth'[p] = depth[p] - 1 /\ Ended(p)' = Ended(p) /\ Arg(p)' = Arg(p)
          BY <1>1, <1>2, <4>1, <4>5 DEF RmdirGoesOn, Ended
        <5>2. depth'[p] + 1 = depth[p]
          BY <1>1, <5>1
        <5> QED
          BY <1>4, <2>2, <3>1, <4>4, <5>1, <5>2
      <4>6. CASE ~(Given(p, "parents") /\ depth[p] > 1)
        <5>1. at'[p] = "loop" /\ Ended(p)' = operand[p] /\ Ended(p) = operand[p] - 1
          BY <1>1, <4>1, <4>6 DEF RmdirGoesOn, Ended, Calls
        <5>2. (IF Given(p, "parents") THEN 1 ELSE Len(Arg(p))) = depth[p]
          <6>1. Given(p, "parents") => depth[p] = 1
            BY <1>1, <4>3, <4>6
          <6> QED
            BY <4>1, <6>1
        <5>3. Gone(p, operand[p])'
          <6>1. /\ Operands(p)' = Operands(p) /\ Given(p, "parents")' = Given(p, "parents")
                /\ operand'[p] = operand[p]
            BY <1>2, <4>1
          <6> QED
            BY <4>4, <5>2, <6>1 DEF Gone, Arg
        <5>4. \A i \in 1..operand[p] : i = operand[p] \/ i \in 1..(operand[p] - 1)
          BY <1>1
        <5> QED
          BY <1>4, <2>2, <3>1, <4>1, <5>1, <5>3, <5>4
      <4> QED
        BY <4>5, <4>6
    <3>6. CASE UnlinkDone(p)
      <4>1. /\ at[p] = "unlink" /\ tree' = Without(tree, Arg(p)) /\ operand' = operand /\ at'[p] = "loop"
            /\ cmd[p].prog = "unlink" /\ operand[p] >= 1
        BY <1>1, <3>6 DEF UnlinkDone, Placed, Calls
      <4>2. operand[p] \in 1..Len(Operands(p)) /\ Arg(p) \in Path /\ Len(Arg(p)) \in Nat
        BY <1>1, <4>1, OperandsArePaths DEF Placed, Arg, Path
      <4>3. ~Given(p, "parents")
        BY <1>1, <4>1, UnlinkIsPlain
      <4>4. ~Exists(tree', Arg(p))
        BY <4>1 DEF Without, Exists
      <4>5. SubSeq(Arg(p), 1, Len(Arg(p))) = Arg(p)
        BY <4>2, WholePath
      <4>6. Gone(p, operand[p])'
        <5>1. \A k \in Len(Arg(p))..Len(Arg(p)) : k = Len(Arg(p))
          BY <4>2
        <5> QED
          <6>1. /\ Operands(p)' = Operands(p) /\ ~Given(p, "parents")' /\ operand'[p] = operand[p]
            BY <1>2, <4>1, <4>3
          <6> QED
            BY <4>4, <4>5, <5>1, <6>1 DEF Gone, Arg
      <4>7. Ended(p)' = operand[p] /\ Ended(p) = operand[p] - 1
        BY <4>1, <1>1 DEF Ended, Calls
      <4>8. \A i \in 1..operand[p] : i = operand[p] \/ i \in 1..(operand[p] - 1)
        BY <1>1
      <4> QED
        BY <1>4, <2>2, <3>1, <4>1, <4>6, <4>7, <4>8
    <3> QED
      BY <1>1, <1>5, <2>2, <3>2, <3>3, <3>4, <3>5, <3>6, StepOfRemover
  <2> QED
    BY <2>1, <2>2
<1> QED
  BY <1>2, <1>5 DEF GoneSoFar

\* An error stays an error, and what ln takes DESTINATION to be is decided once.
LEMMA StatusAndTarget ==
  ASSUME Typed, NEW p \in Proc, Step(p)
  PROVE  /\ ret'[p] = 0 => ret[p] = 0
         /\ target' = target \/ at[p] = "guess"
<1>1. (ret' = ret \/ Error(p)) /\ (target' = target \/ at[p] = "guess")
  BY DEF Step, Main, Ln, Mkdir, Rmdir, Touch, Unlink,
         Usage, Start, Guess, Check, CheckFails, NextOperand, Exit,
         StatSrc, StatSrcFails, LstatDestMissing, LstatDestExists, LstatDestClashes,
         PromptYes, PromptNo, RemoveDone, RemoveFails, MakeLink, MakeLinkFails,
         MkdirDone, MkdirExists, MkdirFails, MkdirGoesOn, RmdirDone, RmdirFails, RmdirGoesOn,
         TouchOpens, TouchCreates, TouchFails, UnlinkDone, UnlinkFails,
         Return, Fail, To, Deepen, fixed
<1> QED
  BY <1>1 DEF Typed, Error

\* What Sure says of ln.
LEMMA SureOfLn ==
  ASSUME NEW p \in Proc, NEW i, IsLn(p)
  PROVE  Sure(p, i) <=>
           /\ Exists(tree, Image(p, i))
           /\ tree[Image(p, i)] = IF Given(p, "symbolic") THEN Link(Operands(p)[i]) ELSE tree[Operands(p)[i]]
           /\ ~Given(p, "symbolic") => Exists(tree, Operands(p)[i])
<1>1. cmd[p].prog # "mkdir"
  BY DEF IsLn
<1>2. Made(p, i) = /\ Exists(tree, Image(p, i))
                   /\ tree[Image(p, i)] = IF Given(p, "symbolic") THEN Link(Operands(p)[i]) ELSE tree[Operands(p)[i]]
  BY <1>1 DEF Made
<1> QED
  BY <1>2 DEF Sure

\* What is made stays made.
LEMMA SureStays ==
  ASSUME Control, GainsOne, NEW p \in Proc, NEW r \in Proc, Step(r), SettledDest(p), ret[p] = 0,
         at[p] \notin {"start", "guess", "check"}, target'[p] = target[p], NEW i, Sure(p, i),
         cmd[p].prog # "unlink", cmd[p].prog # "rmdir"
  PROVE  Sure(p, i)'
<1>1. /\ cmd' = cmd /\ Operands(p)' = Operands(p) /\ Dest(p)' = Dest(p) /\ IsLn(p)' = IsLn(p)
      /\ \A f : Given(p, f)' = Given(p, f)
  BY LinesStay
<1>2. \A q : Exists(tree, q) => Exists(tree', q) /\ tree'[q] = tree[q]
  BY GrownKeeps
<1> DEFINE path == Operands(p)[i]
<1>3. path' = path
  BY <1>1
<1> HIDE DEF path
<1>4. CASE IsLn(p)
  <2>1. Image(p, i)' = Image(p, i)
    <3>1. CASE target[p] = "dir"
      <4>1. Exists(tree, Dest(p))
        BY <1>4, <3>1 DEF SettledDest, Behind, IsDir, IsLink
      <4>2. Behind(Dest(p))' = Behind(Dest(p))
        BY <1>1, <1>2, <4>1 DEF Behind, IsLink
      <4> QED
        BY <1>1, <3>1, <4>2 DEF Image
    <3>2. CASE target[p] # "dir"
      BY <1>1, <3>2 DEF Image
    <3> QED
      BY <3>1, <3>2
  <2>2. /\ Exists(tree, Image(p, i))
        /\ tree[Image(p, i)] = IF Given(p, "symbolic") THEN Link(path) ELSE tree[path]
        /\ ~Given(p, "symbolic") => Exists(tree, path)
    BY <1>4, SureOfLn DEF path
  <2>3. /\ Exists(tree', Image(p, i)')
        /\ tree'[Image(p, i)'] = IF Given(p, "symbolic")' THEN Link(path') ELSE tree'[path']
        /\ ~Given(p, "symbolic")' => Exists(tree', path')
    BY <1>1, <1>2, <1>3, <2>1, <2>2
  <2> QED
    <3>1. IsLn(p)'
      BY <1>1, <1>4
    <3>2. cmd'[p].prog # "mkdir"
      BY <1>1, <1>4 DEF IsLn
    <3>3. Made(p, i)'
      BY <2>3, <3>1, <3>2 DEF Made, path
    <3> QED
      BY <2>3, <3>3 DEF Sure, path
<1>5. CASE cmd[p].prog = "mkdir"
  <2>1. ~IsLn(p)
    BY <1>5 DEF IsLn
  <2>2. path = <<>> \/ IF Given(p, "parents") THEN Exists(tree, path) ELSE IsDir(tree, path)
    BY <1>5, <2>1 DEF Sure, Made, path
  <2>3. path' = <<>> \/ IF Given(p, "parents")' THEN Exists(tree', path') ELSE IsDir(tree', path')
    BY <1>1, <1>2, <1>3, <2>2 DEF IsDir
  <2> QED
    BY <1>1, <1>5, <2>1, <2>3 DEF Sure, Made, path
<1>6. CASE ~IsLn(p) /\ cmd[p].prog # "mkdir"
  <2>1. Exists(tree, Behind(path))
    BY <1>6 DEF Sure, Made, path
  <2>2. Exists(tree, path)
    BY <2>1 DEF Behind, IsLink
  <2>3. Behind(path)' = Behind(path)
    BY <1>2, <1>3, <2>2 DEF Behind, IsLink
  <2>4. Exists(tree', Behind(path)')
    BY <1>2, <2>1, <2>3
  <2> QED
    BY <1>1, <1>6, <2>4 DEF Sure, Made, path
<1> QED
  BY <1>4, <1>5, <1>6

\* The steps of ln, mkdir and touch that end or go on without an error, as long
\* as nothing is taken away.
LEMMA StepOfMaker ==
  ASSUME Control, NothingTaken, NEW p \in Proc, Makes(p), Step(p), ret'[p] = 0
  PROVE  \/ Start(p) \/ Guess(p) \/ Check(p) \/ NextOperand(p) \/ Exit(p)
         \/ StatSrc(p) \/ LstatDestMissing(p) \/ MakeLink(p)
         \/ MkdirDone(p) \/ MkdirExists(p) \/ TouchOpens(p) \/ TouchCreates(p)
<1>1. Typed /\ Placed(p) /\ ~Replaces(p) /\ ~Removes(p)
  BY DEF Control, NothingTaken
<1>2. at[p] \notin {"prompt", "remove", "rmdir", "unlink"}
  BY <1>1 DEF Placed
<1>3. ~LstatDestExists(p)
  <2>1. at[p] = "lstat_dest" => IsLn(p)
    BY <1>1 DEF Placed, LnCalls
  <2> QED
    BY <1>1, <2>1 DEF LstatDestExists, Replaces
<1>4. ~Error(p)
  BY <1>1 DEF Error, Typed
<1> QED
  BY <1>2, <1>3, <1>4
  DEF Step, Main, Ln, Mkdir, Rmdir, Touch, Unlink, Usage, CheckFails, StatSrcFails, LstatDestClashes,
      PromptYes, PromptNo, RemoveDone, RemoveFails, MakeLinkFails, MkdirFails, RmdirDone, RmdirFails,
      TouchFails, UnlinkDone, UnlinkFails, Fail

\* Where a call returns without an error, its operand is made.
LEMMA ReturnIsSure ==
  ASSUME Control, Locked, NothingTaken, NEW p \in Proc, Makes(p), Step(p), ret'[p] = 0,
         at[p] \in Calls, at'[p] = "loop", at[p] = "mkdir" => depth[p] <= Len(Arg(p))
  PROVE  operand'[p] = operand[p] /\ Sure(p, operand[p])'
<1> USE DEF Goto, Return, To, Deepen, fixed
<1>1. /\ Typed /\ Placed(p) /\ setting \in Settings /\ ret[p] = 0 /\ operand[p] \in Nat /\ depth[p] \in Nat
      /\ at \in [Proc -> Places]
  BY StatusAndTarget DEF Control, Typed
<1>2. /\ cmd' = cmd /\ Operands(p)' = Operands(p) /\ Dest(p)' = Dest(p) /\ IsLn(p)' = IsLn(p)
      /\ \A f : Given(p, f)' = Given(p, f)
  BY LinesStay
<1>3. /\ operand[p] \in 1..Len(Operands(p)) /\ Arg(p) \in Path /\ Len(Arg(p)) \in Nat
      /\ cmd[p].prog \in {"ln", "mkdir", "touch"}
  BY <1>1, OperandsArePaths DEF Placed, Arg, Path, Makes
<1>4. \/ MakeLink(p) \/ MkdirDone(p) \/ MkdirExists(p) \/ TouchOpens(p) \/ TouchCreates(p)
  BY <1>1, StepOfMaker DEF Start, Guess, Check, NextOperand, Exit, StatSrc, LstatDestMissing, Calls
<1>5. operand' = operand
  BY <1>4 DEF MakeLink, MkdirDone, MkdirExists, MkdirGoesOn, TouchOpens, TouchCreates
<1>6. operand'[p] = operand[p] /\ Arg(p)' = Arg(p)
  BY <1>2, <1>5 DEF Arg
<1>7. CASE MakeLink(p)
  <2>1. /\ at[p] = "link" /\ IsLn(p) /\ target' = target /\ ~Exists(tree, Dst(p))
        /\ tree' = With(tree, Dst(p), IF Given(p, "symbolic") THEN Link(Arg(p)) ELSE tree[Arg(p)])
        /\ ~Given(p, "symbolic") => Exists(tree, Arg(p))
    BY <1>1, <1>7 DEF MakeLink, CanLink, CanMake, CanUnlink, Placed, LnCalls
  <2>2. GainsOne
    BY <2>1 DEF GainsOne
  <2>3. \A q : Exists(tree, q) => Exists(tree', q) /\ tree'[q] = tree[q]
    BY <2>2, GrownKeeps
  <2>4. Image(p, operand[p])' = Dst(p)
    <3>1. CASE target[p] = "dir"
      <4>1. SettledDest(p)
        BY DEF Locked
      <4>2. Exists(tree, Dest(p))
        BY <1>1, <2>1, <3>1, <4>1 DEF SettledDest, Behind, IsDir, IsLink
      <4>3. Behind(Dest(p))' = Behind(Dest(p))
        BY <1>2, <2>3, <4>2 DEF Behind, IsLink
      <4> QED
        BY <1>2, <1>6, <2>1, <3>1, <4>3 DEF Image, Dst
    <3>2. CASE target[p] # "dir"
      BY <1>2, <1>6, <2>1, <3>2 DEF Image, Dst
    <3> QED
      BY <3>1, <3>2
  <2>5. /\ Exists(tree', Dst(p))
        /\ tree'[Dst(p)] = IF Given(p, "symbolic") THEN Link(Arg(p)) ELSE tree[Arg(p)]
    BY <2>1 DEF With, Exists
  <2>6. /\ Exists(tree', Dst(p))
        /\ tree'[Dst(p)] = IF Given(p, "symbolic")' THEN Link(Arg(p)') ELSE tree'[Arg(p)']
        /\ ~Given(p, "symbolic")' => Exists(tree', Arg(p)')
    BY <1>2, <1>6, <2>1, <2>3, <2>5
  <2>7. IsLn(p)'
    BY <1>2, <2>1
  <2> QED
    <3>1. cmd'[p].prog # "mkdir"
      BY <1>2, <2>1 DEF IsLn
    <3>2. Made(p, operand[p])'
      BY <1>6, <2>4, <2>6, <2>7, <3>1 DEF Made, Arg
    <3> QED
      BY <1>6, <2>6, <3>2 DEF Sure, Arg
<1>8. CASE MkdirDone(p) \/ MkdirExists(p)
  <2>1. at[p] = "mkdir" /\ cmd[p].prog = "mkdir" /\ MkdirGoesOn(p)
    BY <1>1, <1>8 DEF MkdirDone, MkdirExists, Placed
  <2>2. ~(depth[p] < Len(Arg(p)))
    BY <2>1 DEF MkdirGoesOn
  <2>3. depth[p] = Len(Arg(p))
    BY <1>1, <1>3, <2>1, <2>2
  <2>4. Here(p) = Arg(p)
    BY <1>3, <2>3, WholePath DEF Here
  <2>5. IF Given(p, "parents") THEN Exists(tree', Arg(p)) ELSE IsDir(tree', Arg(p))
    BY <1>8, <2>4 DEF MkdirDone, MkdirExists, With, Exists, IsDir, Dir
  <2>6. IF Given(p, "parents")' THEN Exists(tree', Arg(p)') ELSE IsDir(tree', Arg(p)')
    BY <1>2, <1>6, <2>5
  <2>7. ~IsLn(p)' /\ cmd'[p].prog = "mkdir"
    BY <1>2, <2>1 DEF IsLn
  <2> QED
    BY <1>6, <2>6, <2>7 DEF Sure, Made, Arg
<1>9. CASE TouchOpens(p) \/ TouchCreates(p)
  <2>1. at[p] = "open" /\ cmd[p].prog = "touch"
    BY <1>1, <1>9 DEF TouchOpens, TouchCreates, Placed
  <2>2. GainsOne /\ Exists(tree', Behind(Arg(p)))
    BY <1>9 DEF TouchOpens, Opens, TouchCreates, Creates, CanMake, With, Exists, GainsOne
  <2>3. \A q : Exists(tree, q) => Exists(tree', q) /\ tree'[q] = tree[q]
    BY <2>2, GrownKeeps
  <2>4. Behind(Arg(p))' = Behind(Arg(p))
    <3>1. CASE Exists(tree, Arg(p))
      BY <1>6, <2>3, <3>1 DEF Behind, IsLink
    <3>2. CASE ~Exists(tree, Arg(p))
      <4>1. Behind(Arg(p)) = Arg(p)
        BY <3>2 DEF Behind, IsLink
      <4>2. tree' = With(tree, Arg(p), File(0))
        BY <1>9, <3>2, <4>1 DEF TouchOpens, Opens, TouchCreates
      <4>3. ~IsLink(tree', Arg(p))
        BY <4>2 DEF With, IsLink, Exists, File
      <4> QED
        BY <1>6, <4>1, <4>3 DEF Behind
    <3> QED
      BY <3>1, <3>2
  <2>5. Exists(tree', Behind(Arg(p))')
    BY <2>2, <2>4
  <2>6. ~IsLn(p)' /\ cmd'[p].prog = "touch"
    BY <1>2, <2>1 DEF IsLn
  <2> QED
    BY <1>6, <2>5, <2>6 DEF Sure, Made, Arg
<1> QED
  BY <1>4, <1>7, <1>8, <1>9

LEMMA StepMade ==
  ASSUME Control, Locked, MadeSoFar, NothingTaken, NEW p \in Proc, Step(p)
  PROVE  MadeSoFar'
<1> USE DEF Goto, Return, To, Deepen, fixed
<1>1. /\ Typed /\ setting \in Settings /\ GainsOne
      /\ \A r \in Proc : /\ Placed(r) /\ operand[r] \in Nat /\ depth[r] \in Nat /\ at[r] \in Places
                         /\ SettledDest(r)
      /\ at \in [Proc -> Places] /\ operand \in [Proc -> Nat] /\ depth \in [Proc -> Nat]
  BY OnlyGrows DEF Control, Typed, Locked
<1>2. /\ cmd' = cmd
      /\ \A r \in Proc : Operands(r)' = Operands(r) /\ Makes(r)' = Makes(r) /\ IsLn(r)' = IsLn(r)
                         /\ (operand'[r] = operand[r] => Arg(r)' = Arg(r))
                         /\ \A f : Given(r, f)' = Given(r, f)
  BY LinesStay
<1>3. ASSUME NEW r \in Proc, Makes(r), ret'[r] = 0
      PROVE  ret[r] = 0 /\ \A i \in 1..Ended(r) : Sure(r, i)'
  <2>1. ret[r] = 0 /\ (target'[r] = target[r] \/ at[r] = "guess")
    BY <1>1, <1>3, OthersStay, StatusAndTarget
  <2>2. ASSUME NEW i \in 1..Ended(r) PROVE Sure(r, i)'
    <3>1. operand[r] # 0
      BY <1>1, <2>2 DEF Ended
    <3>2. at[r] \notin {"start", "guess", "check"} /\ target'[r] = target[r]
      BY <1>1, <2>1, <3>1 DEF Placed
    <3>3. Sure(r, i)
      BY <1>3, <2>1, <2>2 DEF MadeSoFar
    <3>4. cmd[r].prog # "unlink" /\ cmd[r].prog # "rmdir"
      BY <1>3 DEF Makes
    <3> QED
      BY <1>1, <2>1, <3>2, <3>3, <3>4, SureStays
  <2> QED
    BY <2>1, <2>2
<1>4. ASSUME NEW r \in Proc, Makes(r), ret'[r] = 0
      PROVE  /\ \A i \in 1..(Ended(r)') : Sure(r, i)'
             /\ at'[r] = "mkdir" => depth'[r] <= Len(Arg(r)')
  <2>1. CASE r # p
    <3>1. at'[r] = at[r] /\ operand'[r] = operand[r] /\ depth'[r] = depth[r]
      BY <1>1, <2>1, OthersStay
    <3>2. Ended(r)' = Ended(r) /\ Arg(r)' = Arg(r)
      BY <1>2, <3>1 DEF Ended
    <3> QED
      BY <1>3, <1>4, <3>1, <3>2 DEF MadeSoFar
  <2>2. CASE r = p
    <3>0. ret[p] = 0 /\ (at[p] = "mkdir" => depth[p] <= Len(Arg(p)))
      BY <1>3, <1>4, <2>2 DEF MadeSoFar
    <3>1. CASE Start(p) \/ Guess(p) \/ Check(p) \/ Exit(p)
      <4>1. /\ at[p] \in {"start", "guess", "check", "loop"}
            /\ at'[p] \in {"guess", "check", "loop", "exited"} /\ operand'[p] = operand[p]
        BY <1>1, <3>1 DEF Start, Guess, Check, Exit
      <4>2. at[p] \notin Calls /\ at'[p] \notin Calls /\ at'[p] # "mkdir"
        BY <4>1 DEF Calls
      <4>3. Ended(p)' = Ended(p)
        BY <4>1, <4>2 DEF Ended
      <4> QED
        BY <1>3, <1>4, <2>2, <4>2, <4>3
    <3>2. CASE NextOperand(p)
      <4> DEFINE arg == Operands(p)[operand[p] + 1]
      <4>1. /\ at[p] = "loop" /\ operand[p] < Len(Operands(p))
            /\ operand'[p] = operand[p] + 1 /\ depth'[p] = FirstDepth(p, arg)
            /\ at'[p] = FirstCall(p, arg)
        BY <1>1, <3>2 DEF NextOperand
      <4>2. operand[p] + 1 \in 1..Len(Operands(p)) /\ ~Misused(p)
        <5>1. Len(Operands(p)) \in Nat /\ operand[p] \in Nat
          BY <1>1, OperandsArePaths
        <5>2. operand[p] + 1 \in 1..Len(Operands(p))
          BY <4>1, <5>1
        <5>3. Placed(p)
          BY <1>1
        <5> QED
          BY <4>1, <5>2, <5>3 DEF Placed
      <4>3. arg \in Path /\ Len(arg) \in Nat
        BY <1>1, <4>2, OperandsArePaths DEF Path
      <4>4. Arg(p)' = arg
        BY <1>2, <4>1 DEF Arg
      <4> HIDE DEF arg
      <4>5. at'[p] = "mkdir" => depth'[p] <= Len(Arg(p)')
        <5> SUFFICES ASSUME at'[p] = "mkdir" PROVE FirstDepth(p, arg) <= Len(arg)
          BY <4>1, <4>4
        <5>1. arg # <<>>
          BY <1>1, <4>1, <4>2, <4>3, FirstCallPlace
        <5>2. Len(arg) >= 1
          BY <4>3, <5>1 DEF Path
        <5> QED
          BY <4>3, <5>2 DEF FirstDepth
      <4>6. Ended(p) = operand[p]
        BY <4>1 DEF Ended, Calls
      <4>7. CASE at'[p] \in Calls
        <5>1. Ended(p)' = operand[p]
          BY <1>1, <4>1, <4>7 DEF Ended
        <5> QED
          BY <1>3, <1>4, <2>2, <4>5, <4>6, <5>1
      <4>8. CASE at'[p] \notin Calls
        <5>1. FirstCall(p, arg) = "loop"
          BY <1>1, <4>1, <4>2, <4>3, <4>8, FirstCallPlace DEF Calls
        <5>2. arg = <<>> /\ cmd[p].prog = "mkdir"
          BY <1>4, <2>2, <5>1 DEF FirstCall, Makes, IsLn
        <5>3. Ended(p)' = operand[p] + 1
          BY <4>1, <4>8 DEF Ended
        <5>4. ASSUME NEW i \in 1..(operand[p] + 1), i = operand[p] + 1 PROVE Sure(p, i)'
          <6>1. Operands(p)'[i] = <<>>
            BY <1>2, <5>2, <5>4 DEF arg
          <6>2. ~IsLn(p)' /\ cmd'[p].prog = "mkdir"
            BY <1>2, <5>2 DEF IsLn
          <6> QED
            BY <6>1, <6>2 DEF Sure, Made
        <5>5. \A i \in 1..(operand[p] + 1) : i = operand[p] + 1 \/ i \in 1..operand[p]
          BY <1>1
        <5> QED
          BY <1>3, <1>4, <2>2, <4>5, <4>6, <5>3, <5>4, <5>5
      <4> QED
        BY <4>7, <4>8
    <3>3. CASE at[p] \in Calls /\ at'[p] \in Calls
      <4>1. operand' = operand
        BY <1>1, <1>4, <2>2, <3>3, StepOfMaker
        DEF Calls, Start, Guess, Check, NextOperand, Exit, StatSrc, LstatDestMissing, MakeLink,
            MkdirDone, MkdirExists, MkdirGoesOn, TouchOpens, TouchCreates
      <4>2. Ended(p)' = Ended(p) /\ Arg(p)' = Arg(p)
        BY <1>2, <3>3, <4>1 DEF Ended
      <4>3. at'[p] = "mkdir" => depth'[p] <= Len(Arg(p))
        <5> SUFFICES ASSUME at'[p] = "mkdir" PROVE depth'[p] <= Len(Arg(p))
          OBVIOUS
        <5>1. MkdirDone(p) \/ MkdirExists(p)
          BY <1>1, <1>4, <2>2, <3>3, StepOfMaker
          DEF Calls, Start, Guess, Check, NextOperand, Exit, StatSrc, LstatDestMissing, MakeLink,
              TouchOpens, TouchCreates
        <5>2. depth' = [depth EXCEPT ![p] = depth[p] + 1] /\ depth[p] < Len(Arg(p))
          BY <1>1, <5>1 DEF MkdirDone, MkdirExists, MkdirGoesOn
        <5>3. Len(Arg(p)) \in Nat
          BY <1>1, <3>3, OperandsArePaths DEF Placed, Arg, Path
        <5>4. depth'[p] = depth[p] + 1
          BY <1>1, <5>2
        <5> QED
          BY <1>1, <5>2, <5>3, <5>4
      <4> QED
        BY <1>3, <1>4, <2>2, <4>2, <4>3
    <3>4. CASE at[p] \in Calls /\ at'[p] \notin Calls
      <4>1. at'[p] = "loop"
        BY <1>1, <1>4, <2>2, <3>4, StepOfMaker
        DEF Calls, Start, Guess, Check, NextOperand, Exit, StatSrc, LstatDestMissing, MakeLink,
            MkdirDone, MkdirExists, MkdirGoesOn, TouchOpens, TouchCreates
      <4>2. operand'[p] = operand[p] /\ Sure(p, operand[p])'
        BY <1>4, <2>2, <3>0, <3>4, <4>1, ReturnIsSure
      <4>3. Ended(p) = operand[p] - 1 /\ Ended(p)' = operand[p]
        BY <3>4, <4>2 DEF Ended
      <4>4. \A i \in 1..operand[p] : i = operand[p] \/ i \in 1..(operand[p] - 1)
        BY <1>1
      <4>5. ASSUME NEW i \in 1..operand[p], i = operand[p] PROVE Sure(p, i)'
        BY <4>2, <4>5 DEF Sure, Made
      <4> QED
        BY <1>3, <1>4, <2>2, <4>1, <4>3, <4>4, <4>5
    <3> QED
      <4>1. at[p] \in Calls \/ Start(p) \/ Guess(p) \/ Check(p) \/ Exit(p) \/ NextOperand(p)
        BY <1>1, <1>4, <2>2, StepOfMaker
        DEF Calls, StatSrc, LstatDestMissing, MakeLink, MkdirDone, MkdirExists, TouchOpens, TouchCreates
      <4> QED
        BY <3>1, <3>2, <3>3, <3>4, <4>1
  <2> QED
    BY <2>1, <2>2
<1> QED
  BY <1>2, <1>4 DEF MadeSoFar

\* The inductive invariants behind Honest.
LEMMA SoFarHolds == Spec => [](MadeSoFar /\ GoneSoFar)
<1>1. Init => MadeSoFar /\ GoneSoFar
  <2> SUFFICES ASSUME Init PROVE MadeSoFar /\ GoneSoFar
    OBVIOUS
  <2>1. \A p \in Proc : at[p] = "start" /\ operand[p] = 0
    BY DEF Init
  <2>2. \A p \in Proc : Ended(p) = 0
    BY <2>1 DEF Ended, Calls
  <2> QED
    BY <2>1, <2>2 DEF MadeSoFar, GoneSoFar
<1>2. Control /\ Locked /\ MadeSoFar /\ GoneSoFar /\ [Next]_vars => MadeSoFar' /\ GoneSoFar'
  <2> SUFFICES ASSUME Control, Locked, MadeSoFar, GoneSoFar, [Next]_vars
               PROVE  MadeSoFar' /\ GoneSoFar'
    OBVIOUS
  <2>1. CASE UNCHANGED vars
    <3>1. MadeSoFar'
      BY <2>1 DEF vars, MadeSoFar, NothingTaken, Replaces, Removes, Makes, Ended, Sure, Made, Image,
                  Behind, Dest, Arg, Operands, IsLn, Given, cmd
    <3>2. GoneSoFar'
      BY <2>1 DEF vars, GoneSoFar, NothingMade, Removes, Makes, Ended, Gone, Arg, Operands, IsLn, Given, cmd
    <3> QED
      BY <3>1, <3>2
  <2>2. CASE \E p \in Proc : Step(p)
    <3>1. PICK p \in Proc : Step(p)
      BY <2>2
    <3>2. NothingTaken' = NothingTaken /\ NothingMade' = NothingMade
      BY <3>1, LinesStay
    <3>3. MadeSoFar'
      BY <3>1, <3>2, StepMade DEF MadeSoFar
    <3>4. GoneSoFar'
      BY <3>1, <3>2, StepGone DEF GoneSoFar
    <3> QED
      BY <3>3, <3>4
  <2> QED
    BY <2>1, <2>2 DEF Next, Done
<1> QED
  BY <1>1, <1>2, ControlHolds, NamesAreTakenOnce, PTL DEF Spec

\* Exit status 0 of ln, mkdir, touch, rmdir and unlink is honest, with any number
\* of other processes at work: every error reaches `ret`, and no operand is
\* passed over.
THEOREM StatusIsHonest == Spec => []Honest
<1>1. Control /\ MadeSoFar /\ GoneSoFar => Honest
  <2> SUFFICES ASSUME Control, MadeSoFar, GoneSoFar, NEW p \in Proc, at[p] = "exited", ret[p] = 0
               PROVE  /\ NothingTaken /\ Makes(p)  => \A i \in DOMAIN Operands(p) : Made(p, i)
                      /\ NothingMade /\ Removes(p) => \A i \in DOMAIN Operands(p) : Gone(p, i)
    BY DEF Honest
  <2>1. Ended(p) = Len(Operands(p))
    BY DEF Control, Placed, Ended, Calls
  <2>2. DOMAIN Operands(p) = 1..Len(Operands(p))
    BY OperandsArePaths DEF Control, Typed
  <2> QED
    BY <2>1, <2>2 DEF MadeSoFar, GoneSoFar, Sure
<1> QED
  BY <1>1, ControlHolds, SoFarHolds, PTL

-------------------------------------------------------------------------------
(***************************************************************************)
(* A lone ln -f.                                                           *)
(***************************************************************************)
LoneLink(p) == Quiet /\ IsLn(p) /\ cmd[p].args # <<>> /\ ~LeadsToItself(p) /\ Alone(p)

NeverItself(p) == \A i \in DOMAIN Operands(p) : Image(p, i) # Operands(p)[i]

\* Every entry lies in a directory, links or not.
Rooted == /\ IsDir(tree, <<>>)
          /\ \A q \in DOMAIN tree : q = <<>> \/ IsDir(tree, Front(q))

\* DESTINATION is a directory, and it is not among the names in it.
DestHolds(p) ==
  at[p] \notin {"start", "guess", "check", "exited"} /\ target[p] = "dir" =>
    /\ IsDir(tree, Behind(Dest(p)))
    /\ IsLink(tree, Dest(p)) => tree[Dest(p)].to \in Path /\ tree[Dest(p)].to # Front(Dest(p))

\* What a lone ln has found out is still so, and where it has taken a name away
\* it can make it again.
Replacing(p) ==
  LoneLink(p) =>
    /\ at[p] \in {"start", "guess", "check"} => tree = setting.tree
    /\ Rooted /\ DestHolds(p)
    /\ at[p] \in {"lstat_dest", "prompt", "remove"} /\ ~Given(p, "symbolic") => CanUnlink(tree, Arg(p))
    /\ at[p] \in {"prompt", "remove"} => Exists(tree, Dst(p))
    /\ NeverItself(p) => \A q \in DOMAIN setting.tree :
         Exists(tree, q) \/ (at[p] = "link" /\ q = Dst(p) /\ CanLink(p))

AllReplacing == \A p \in Proc : Replacing(p)

\* The steps of ln.
LEMMA StepOfLn ==
  ASSUME NEW p \in Proc, Placed(p), IsLn(p), Step(p)
  PROVE  Main(p) \/ Ln(p)
<1>1. at[p] \notin {"mkdir", "rmdir", "open", "unlink"}
  BY DEF Placed, Removes, IsLn
<1> QED
  BY <1>1 DEF Step, Mkdir, MkdirDone, MkdirExists, MkdirFails, Rmdir, RmdirDone, RmdirFails,
              Touch, TouchOpens, TouchCreates, TouchFails, Unlink, UnlinkDone, UnlinkFails

\* remove() and link() leave every entry in a directory, and DESTINATION where
\* it is, with every other name.
LEMMA TakeAndMake ==
  ASSUME NEW p \in Proc, setting \in Settings, Placed(p), Consented(p), LoneLink(p), Replacing(p), NEW node,
         \/ at[p] = "remove" /\ Dst(p) \in Removable /\ tree' = Without(tree, Dst(p))
         \/ at[p] = "link" /\ CanMake(tree, Dst(p)) /\ tree' = With(tree, Dst(p), node)
  PROVE  /\ Rooted'
         /\ \A q : q # Dst(p) => /\ Exists(tree, q) => Exists(tree', q) /\ tree'[q] = tree[q]
                                 /\ IsDir(tree, q) => IsDir(tree', q)
         /\ at[p] = "remove" => CanMake(tree', Dst(p))
         /\ at[p] = "link" => Exists(tree', Dst(p))
         /\ target[p] = "dir" => Exists(tree', Dest(p)) /\ tree'[Dest(p)] = tree[Dest(p)]
                                 /\ Behind(Dest(p)) # Dst(p)
<1> DEFINE dst == Dst(p)
<1>1. Rooted /\ DestHolds(p) /\ (at[p] = "remove" => Exists(tree, dst) /\ ~IsDir(tree, dst))
  BY DEF Replacing, Consented, LoneLink
<1>2. \A q : q # dst => /\ Exists(tree, q) => Exists(tree', q) /\ tree'[q] = tree[q]
                        /\ Exists(tree', q) => Exists(tree, q)
                        /\ IsDir(tree, q) => IsDir(tree', q)
  BY DEF Without, With, Exists, IsDir
<1>3. ~IsDir(tree, dst) /\ dst # <<>>
  BY <1>1 DEF Rooted, CanMake, IsDir
<1>4. IsDir(tree, Front(dst))
  <2>1. CASE at[p] = "remove"
    BY <1>1, <1>3, <2>1 DEF Rooted, Exists
  <2>2. CASE at[p] = "link"
    BY <2>2 DEF CanMake
  <2> QED
    BY <2>1, <2>2
<1>5. \A q : IsDir(tree, q) => IsDir(tree', q)
  BY <1>2, <1>3
<1>6. Rooted'
  <2>1. IsDir(tree', <<>>)
    BY <1>1, <1>5 DEF Rooted
  <2>2. ASSUME NEW q \in DOMAIN tree' PROVE q = <<>> \/ IsDir(tree', Front(q))
    BY <1>1, <1>2, <1>4, <1>5, <2>2 DEF Rooted, Exists
  <2> QED
    BY <2>1, <2>2 DEF Rooted
<1>7. at[p] = "remove" => CanMake(tree', dst)
  BY <1>3, <1>4, <1>5 DEF CanMake, Without, Exists
<1>8. at[p] = "link" => Exists(tree', dst)
  BY DEF With, Exists
<1>9. ASSUME target[p] = "dir"
      PROVE  Exists(tree', Dest(p)) /\ tree'[Dest(p)] = tree[Dest(p)] /\ Behind(Dest(p)) # dst
  <2>1. /\ IsDir(tree, Behind(Dest(p)))
        /\ IsLink(tree, Dest(p)) => tree[Dest(p)].to \in Path /\ tree[Dest(p)].to # Front(Dest(p))
    BY <1>1, <1>9 DEF DestHolds
  <2>2. Behind(Dest(p)) # dst
    BY <1>3, <2>1
  <2>3. Exists(tree, Dest(p))
    BY <2>1 DEF Behind, IsDir, IsLink
  <2>4. dst # Dest(p)
    <3> SUFFICES ASSUME dst = Dest(p) PROVE FALSE
      OBVIOUS
    <3>1. IsLink(tree, Dest(p)) /\ tree[Dest(p)].to = Behind(Dest(p))
      BY <1>3, <2>1, <2>2 DEF Behind
    <3>2. dst = Append(Behind(Dest(p)), Last(Arg(p)))
      BY <1>9 DEF Dst, Image, Arg
    <3>3. Front(dst) = Behind(Dest(p))
      <4> DEFINE s == Behind(Dest(p))
                 e == Last(Arg(p))
                 S == Name \cup {e}
      <4>1. s \in Seq(Name)
        BY <2>1, <3>1 DEF Path
      <4> HIDE DEF s, e
      <4>2. s \in Seq(S) /\ e \in S
        BY <4>1
      <4> HIDE DEF S
      <4>3. Front(Append(s, e)) = s
        BY <4>2, FrontOfAppend
      <4> QED
        BY <3>2, <4>3 DEF s, e
    <3> QED
      BY <2>1, <3>1, <3>3
  <2> QED
    BY <1>2, <2>2, <2>3, <2>4
<1> QED
  BY <1>2, <1>6, <1>7, <1>8, <1>9

LEMMA StepReplacing ==
  ASSUME Control, AllConsented, AllReplacing, NEW p \in Proc, Step(p), NEW r \in Proc
  PROVE  Replacing(r)'
<1> USE DEF Goto, Error, Return, Fail, To, fixed
<1>1. /\ Typed /\ setting' = setting /\ setting \in Settings /\ cmd' = cmd
      /\ Placed(p) /\ Consented(r) /\ Replacing(r) /\ at \in [Proc -> Places]
      /\ target \in [Proc -> {"unset", "dir", "file"}] /\ operand \in [Proc -> Nat]
      /\ Operands(r)' = Operands(r) /\ Dest(r)' = Dest(r) /\ IsLn(r)' = IsLn(r)
      /\ \A f : Given(r, f)' = Given(r, f)
      /\ operand'[r] = operand[r] => Arg(r)' = Arg(r)
      /\ LoneLink(r)' = LoneLink(r)
  BY LinesStay DEF Control, Typed, AllConsented, AllReplacing, LoneLink, Quiet
<1>2. SUFFICES ASSUME LoneLink(r) PROVE Replacing(r)'
  BY <1>1 DEF Replacing
<1>3. setting.faults = {} /\ IsLn(r) /\ IsTree(setting.tree) /\ ~LeadsToItself(r)
  BY <1>1, <1>2, SettingsAssumption DEF LoneLink, Quiet, Setting
<1>4. ASSUME tree' = tree, target'[r] = target[r]
      PROVE  /\ Rooted' = Rooted /\ Behind(Dest(r))' = Behind(Dest(r))
             /\ NeverItself(r)' = NeverItself(r)
             /\ operand'[r] = operand[r] => Dst(r)' = Dst(r) /\ CanLink(r)' = CanLink(r)
  BY <1>1, <1>4 DEF Rooted, Behind, NeverItself, Image, Dst, CanLink
\* Everything is there, and the tree stays as it is.
<1>5. ASSUME tree' = tree, target'[r] = target[r], at[r] \notin {"start", "guess", "check", "exited", "link"},
             at'[r] \notin {"start", "guess", "check"},
             at'[r] \in {"lstat_dest", "prompt", "remove"} /\ ~Given(r, "symbolic") => CanUnlink(tree, Arg(r)'),
             at'[r] \in {"prompt", "remove"} => Exists(tree, Dst(r)) /\ operand'[r] = operand[r]
      PROVE  Replacing(r)'
  <2>1. /\ Rooted' /\ DestHolds(r)'
    BY <1>1, <1>2, <1>4, <1>5 DEF Replacing, DestHolds
  <2>2. NeverItself(r)' => \A q \in DOMAIN setting'.tree : Exists(tree', q)
    BY <1>1, <1>2, <1>4, <1>5 DEF Replacing
  <2>3. at'[r] \in {"lstat_dest", "prompt", "remove"} /\ ~Given(r, "symbolic")' => CanUnlink(tree', Arg(r)')
    BY <1>1, <1>5
  <2>4. at'[r] \in {"prompt", "remove"} => Exists(tree', Dst(r)')
    BY <1>4, <1>5
  <2> QED
    BY <1>5, <2>1, <2>2, <2>3, <2>4 DEF Replacing
<1>6. CASE r # p
  <2>1. cmd[p].args = <<>>
    BY <1>2, <1>6 DEF LoneLink, Alone
  <2>2. tree' = tree
    BY <1>1, <2>1, IdleStep DEF Usage
  <2>3. at'[r] = at[r] /\ target'[r] = target[r] /\ operand'[r] = operand[r]
    BY <1>1, <1>6, OthersStay
  <2> QED
    BY <1>1, <1>4, <2>2, <2>3 DEF Replacing, DestHolds
<1>7. CASE r = p
  <2>0. LoneLink(p) /\ Replacing(p) /\ IsLn(p)
    BY <1>1, <1>2, <1>3, <1>7
  <2>1. CASE Main(p) /\ at[p] \in {"start", "guess", "check"}
    <3>1. /\ tree' = tree /\ tree = setting.tree
          /\ at'[p] \in {"guess", "check", "exited"} \/ (at'[p] = "loop" /\ Check(p))
      BY <1>1, <1>2, <1>3, <1>7, <2>1
      DEF Main, Usage, Start, Guess, Check, CheckFails, NextOperand, Exit, Replacing
    <3>2. Rooted'
      BY <1>3, <3>1 DEF IsTree, Rooted
    <3>3. DestHolds(p)'
      <4> SUFFICES ASSUME at'[p] \notin {"guess", "check", "exited"}, target'[p] = "dir"
                   PROVE  DestHolds(p)'
        BY DEF DestHolds
      <4>1. Check(p) /\ target[p] = "dir"
        BY <3>1 DEF Check
      <4>2. IsDir(tree, Behind(Dest(p)))
        BY <4>1 DEF Check, Agrees
      <4>3. IsLink(tree, Dest(p)) => tree[Dest(p)].to \in Path /\ tree[Dest(p)].to # Front(Dest(p))
        BY <1>3, <1>7, <3>1 DEF IsTree, IsLink, Exists, LeadsToItself
      <4>4. Dest(p)' = Dest(p) /\ Behind(Dest(p))' = Behind(Dest(p))
        BY <1>1, <1>7, <3>1 DEF Behind
      <4> QED
        BY <3>1, <4>2, <4>3, <4>4 DEF DestHolds
    <3>4. at'[p] \notin {"lstat_dest", "prompt", "remove"}
      BY <3>1
    <3> QED
      BY <1>1, <1>7, <3>1, <3>2, <3>3, <3>4 DEF Replacing, Exists
  <2>2. CASE NextOperand(p)
    <3>1. /\ at[p] = "loop" /\ tree' = tree /\ target' = target
          /\ at'[p] = FirstCall(p, Operands(p)[operand[p] + 1])
      BY <1>1, <2>2 DEF NextOperand
    <3>2. at'[p] = IF Given(p, "symbolic") THEN "lstat_dest" ELSE "stat_src"
      BY <2>0, <3>1 DEF FirstCall, IsLn
    <3> QED
      BY <1>5, <1>7, <3>1, <3>2
  <2>3. CASE Exit(p)
    BY <1>1, <1>5, <1>7, <2>3 DEF Exit
  <2>4. CASE StatSrc(p)
    <3>1. /\ at[p] = "stat_src" /\ at'[p] = "lstat_dest" /\ tree' = tree /\ target' = target
          /\ operand' = operand /\ Linkable(p)
      BY <1>1, <2>4 DEF StatSrc
    <3>2. CanUnlink(tree, Arg(p))
      BY <3>1 DEF Linkable, CanUnlink, Behind, IsDir, IsLink
    <3> QED
      BY <1>1, <1>5, <1>7, <3>1, <3>2
  <2>5. CASE StatSrcFails(p) \/ LstatDestClashes(p) \/ PromptNo(p) \/ RemoveFails(p)
    BY <1>1, <1>5, <1>7, <2>5 DEF StatSrcFails, LstatDestClashes, PromptNo, RemoveFails
  <2>6. CASE LstatDestMissing(p)
    BY <1>1, <1>5, <1>7, <2>6 DEF LstatDestMissing
  <2>7. CASE LstatDestExists(p) \/ PromptYes(p)
    <3>1. /\ at[p] \in {"lstat_dest", "prompt"} /\ at'[p] \in {"prompt", "remove"} /\ tree' = tree
          /\ target' = target /\ operand' = operand /\ Exists(tree, Dst(p))
      BY <1>1, <1>2, <1>7, <2>7 DEF LstatDestExists, PromptYes, Replacing
    <3>2. ~Given(p, "symbolic") => CanUnlink(tree, Arg(p))
      BY <2>0, <3>1 DEF Replacing
    <3> QED
      BY <1>1, <1>5, <1>7, <3>1, <3>2
  <2>8. CASE MakeLinkFails(p)
    <3>1. /\ at[p] = "link" /\ at'[p] = "loop" /\ tree' = tree /\ target' = target /\ ~CanLink(p)
      BY <1>1, <1>3, <2>8 DEF MakeLinkFails, Refused
    <3>2. Rooted' /\ DestHolds(p)'
      BY <1>1, <1>2, <1>4, <1>7, <3>1 DEF Replacing, DestHolds
    <3>3. NeverItself(p)' => \A q \in DOMAIN setting'.tree : Exists(tree', q)
      BY <1>1, <1>2, <1>4, <1>7, <3>1 DEF Replacing
    <3> QED
      BY <1>7, <3>1, <3>2, <3>3 DEF Replacing
  <2>9. CASE RemoveDone(p) \/ MakeLink(p)
    <3> DEFINE dst == Dst(p)
    <3>1. \/ /\ at[p] = "remove" /\ at'[p] = "link" /\ dst \in Removable /\ tree' = Without(tree, dst)
          \/ /\ at[p] = "link" /\ at'[p] = "loop" /\ CanMake(tree, dst)
             /\ \E node : tree' = With(tree, dst, node)
      BY <1>1, <2>9 DEF RemoveDone, MakeLink, CanLink
    <3>2. target' = target /\ operand' = operand
      BY <2>9 DEF RemoveDone, MakeLink
    <3>3. /\ Rooted'
          /\ \A q : q # dst => /\ Exists(tree, q) => Exists(tree', q) /\ tree'[q] = tree[q]
                               /\ IsDir(tree, q) => IsDir(tree', q)
          /\ at[p] = "remove" => CanMake(tree', dst)
          /\ at[p] = "link" => Exists(tree', dst)
          /\ target[p] = "dir" => Exists(tree', Dest(p)) /\ tree'[Dest(p)] = tree[Dest(p)]
                                  /\ Behind(Dest(p)) # dst
      BY <1>1, <1>2, <1>7, <3>1, TakeAndMake
    <3>4. DestHolds(p) /\ at[p] \notin {"start", "guess", "check", "exited"}
      BY <2>0, <3>1 DEF Replacing
    <3>5. target[p] = "dir" => Behind(Dest(p))' = Behind(Dest(p)) /\ Exists(tree, Dest(p))
      BY <1>1, <1>7, <3>3, <3>4 DEF DestHolds, Behind, IsLink, IsDir
    <3>6. DestHolds(p)'
      BY <1>1, <1>7, <3>2, <3>3, <3>4, <3>5 DEF DestHolds, IsLink
    <3>7. NeverItself(p)' = NeverItself(p) /\ Dst(p)' = dst
      BY <1>1, <1>7, <3>2, <3>5 DEF NeverItself, Image, Dst
    <3> HIDE DEF dst
    <3>8. ASSUME NeverItself(p), NEW q \in DOMAIN setting.tree
          PROVE  Exists(tree', q) \/ (at'[p] = "link" /\ q = dst /\ CanLink(p)')
      <4>1. q # dst => Exists(tree, q)
        BY <2>0, <3>8 DEF Replacing, dst
      <4>2. CASE q # dst \/ at[p] = "link"
        BY <3>3, <4>1, <4>2
      <4>3. CASE q = dst /\ at[p] = "remove"
        <5>1. CanMake(tree', dst) /\ at'[p] = "link"
          BY <3>1, <3>3, <4>3
        <5>2. Given(p, "symbolic") \/ CanUnlink(tree', Arg(p))
          <6> SUFFICES ASSUME ~Given(p, "symbolic") PROVE CanUnlink(tree', Arg(p))
            OBVIOUS
          <6>1. CanUnlink(tree, Arg(p))
            BY <2>0, <4>3 DEF Replacing
          <6>2. Arg(p) # dst
            <7>1. operand[p] \in DOMAIN Operands(p)
              BY <1>1, <4>3, OperandsArePaths DEF Placed, Calls
            <7> QED
              BY <3>8, <7>1 DEF NeverItself, Dst, Arg, dst
          <6> QED
            BY <3>3, <6>1, <6>2 DEF CanUnlink, IsDir, Exists
        <5>3. CanLink(p)'
          BY <1>1, <1>7, <3>2, <3>7, <5>1, <5>2 DEF CanLink
        <5> QED
          BY <4>3, <5>1, <5>3
      <4> QED
        BY <3>1, <4>2, <4>3
    <3>9. at'[p] \in {"link", "loop"}
      BY <3>1
    <3> QED
      BY <1>1, <1>7, <3>3, <3>6, <3>7, <3>8, <3>9 DEF Replacing
  <2>10. at[p] # "exited"
    BY DEF Step, Main, Ln, Mkdir, Rmdir, Touch, Unlink,
         Usage, Start, Guess, Check, CheckFails, NextOperand, Exit,
         StatSrc, StatSrcFails, LstatDestMissing, LstatDestExists, LstatDestClashes,
         PromptYes, PromptNo, RemoveDone, RemoveFails, MakeLink, MakeLinkFails,
         MkdirDone, MkdirExists, MkdirFails, RmdirDone, RmdirFails,
         TouchOpens, TouchCreates, TouchFails, UnlinkDone, UnlinkFails
  <2> QED
    <3>1. Main(p) \/ Ln(p)
      BY <1>1, <1>3, <1>7, StepOfLn
    <3>2. Main(p) => at[p] \in {"start", "guess", "check"} \/ NextOperand(p) \/ Exit(p)
      BY DEF Main, Usage, Start, Guess, Check, CheckFails
    <3> QED
      BY <2>1, <2>2, <2>3, <2>4, <2>5, <2>6, <2>7, <2>8, <2>9, <3>1, <3>2 DEF Ln
<1> QED
  BY <1>6, <1>7

\* ln -f does not lose a name: a source that is missing or a directory is found
\* before anything is removed (ln.c:37-50), and after remove() the link can be made.
THEOREM LnKeepsNames == Spec => []NothingVanishes
<1>1. Init => AllConsented /\ AllReplacing
  <2> SUFFICES ASSUME Init, NEW p \in Proc PROVE Consented(p) /\ Replacing(p)
    BY DEF AllConsented, AllReplacing
  <2>1. at[p] = "start" /\ tree = setting.tree /\ IsTree(setting.tree)
    BY SettingsAssumption DEF Init, Setting
  <2>2. Rooted
    BY <2>1 DEF IsTree, Rooted
  <2> QED
    BY <2>1, <2>2 DEF Consented, Replacing, DestHolds, Exists
<1>2. Control /\ AllConsented /\ AllReplacing /\ [Next]_vars => AllConsented' /\ AllReplacing'
  <2> SUFFICES ASSUME Control, AllConsented, AllReplacing, [Next]_vars
               PROVE  AllConsented' /\ AllReplacing'
    OBVIOUS
  <2>1. CASE UNCHANGED vars
    <3>1. AllConsented'
      BY <2>1 DEF vars, AllConsented, Consented, Alone, Dst, Image, Behind, Dest, Operands, IsLn, Given, cmd
    <3>2. AllReplacing'
      BY <2>1 DEF vars, AllReplacing, Replacing, LoneLink, Quiet, LeadsToItself, Alone, Rooted, DestHolds, NeverItself,
                  CanLink, Dst, Arg, Image, Behind, Dest, Operands, IsLn, Given, cmd
    <3> QED
      BY <3>1, <3>2
  <2>2. CASE \E p \in Proc : Step(p)
    BY <2>2, StepConsented, StepReplacing DEF AllConsented, AllReplacing
  <2> QED
    BY <2>1, <2>2 DEF Next, Done
<1>3. AllReplacing => NothingVanishes
  BY DEF AllReplacing, Replacing, LoneLink, Alone, NeverItself, NothingVanishes
<1> QED
  BY <1>1, <1>2, <1>3, ControlHolds, PTL DEF Spec
===============================================================================
