------------------------------- MODULE RmProofs -------------------------------
(***************************************************************************)
(* Theorems about Rm for any number of rm processes, any trees and command *)
(* lines, any set of refused calls and any entries and links other         *)
(* programs create (as long as these are not operands).                    *)
(***************************************************************************)
EXTENDS Rm, FileSystemProofs

USE DEF cmd

\* The stack of activations while rm() runs: what a return leaves, and what a
\* further call adds.
LEMMA TopOfStack ==
  ASSUME TypeOK, NEW p \in Proc, stack[p] # <<>>
  PROVE  /\ stack[p] \in Seq(Activation)
         /\ Front(stack[p]) \in Seq(Activation)
         /\ Top(p) \in Activation
         /\ Len(stack[p]) \in Nat /\ Len(stack[p]) >= 1
         /\ Len(Front(stack[p])) = Len(stack[p]) - 1
         /\ \A i \in 1..(Len(stack[p]) - 1) : Front(stack[p])[i] = stack[p][i]
         /\ stack[p][Len(stack[p])] = Top(p)
<1>1. stack[p] \in Seq(Activation)
  BY DEF TypeOK
<1>2. Len(stack[p]) \in Nat
  BY <1>1
<1> QED
  BY <1>1, <1>2, FrontAndLast, Zenon DEF Top, Last

\* An activation that moves on to its next call stays where it is.
LEMMA GoOnStack ==
  ASSUME TypeOK, NEW p \in Proc, stack[p] # <<>>, NEW act \in Activation
  PROVE  Append(Front(stack[p]), act) \in Seq(Activation)
  BY TopOfStack

\* The working directory.
LEMMA RootIsPath == <<>> \in Path
  BY DEF Path

\* A call of rm() on a path is an activation.
LEMMA CallIsActivation ==
  ASSUME NEW path \in Path
  PROVE  Call(path) \in Activation
  BY RootIsPath DEF Call, Activation, Calls

\* The operands of a command are paths.
LEMMA OperandsArePaths ==
  ASSUME TypeOK, NEW p \in Proc
  PROVE  cmd[p].args \in Seq(Path) /\ Len(cmd[p].args) \in Nat
<1>1. cmd[p] \in Command
  BY SettingsAssumption DEF TypeOK, Setting, cmd
<1> QED
  BY <1>1 DEF Command

\* What rm() is called for and what it opens are places in the tree.
LEMMA Places ==
  ASSUME TypeOK, NEW p \in Proc, stack[p] # <<>>
  PROVE  Place(p) \in Path /\ Opened(p) \in Path /\ LinksLead(tree) /\ Top(p).path \in Path
<1>1. Top(p).path \in Path /\ LinksLead(tree)
  BY TopOfStack, TreeIsGrown DEF TypeOK, Activation, Grown
<1> QED
  BY <1>1, FollowIs DEF Place, Opened

\* readdir returns a name of the directory, "." or "..".
LEMMA NamesRead ==
  ASSUME NEW act \in Activation, NEW n \in Readable(tree, act.dir, act)
  PROVE  /\ n \in Name \cup Dots
         /\ [act EXCEPT !.seen = @ \cup {n}] \in Activation
         /\ n \notin Ignored => FullName(act.path, n) = Append(act.path, n)
                                /\ n \in Name /\ FullName(act.path, n) \in Path
<1>1. n \in Name \cup Dots
  BY DEF Readable, Entries, Activation
<1>2. [act EXCEPT !.seen = @ \cup {n}] \in Activation
  BY <1>1 DEF Activation
<1>3. ASSUME n \notin Ignored
      PROVE  /\ FullName(act.path, n) = Append(act.path, n)
             /\ n \in Name /\ FullName(act.path, n) \in Path
  <2>1. n # "." /\ n # ".." /\ n \in Name
    BY <1>1, <1>3 DEF Ignored, Dots
  <2>2. FullName(act.path, n) = Append(act.path, n)
    BY <2>1 DEF FullName
  <2>3. act.path \in Seq(Name)
    BY DEF Activation, Path
  <2> QED
    BY <2>1, <2>2, <2>3 DEF Path
<1> QED
  BY <1>1, <1>2, <1>3

-------------------------------------------------------------------------------
LEMMA InitTypeOK == Init => TypeOK
<1> SUFFICES ASSUME Init PROVE TypeOK
  OBVIOUS
<1> QED
  BY SettingsAssumption DEF Init, TypeOK, Setting

\* Every step of one rm keeps the types.
LEMMA StepTypeOK ==
  ASSUME TypeOK, NEW p \in Proc, Step(p)
  PROVE  TypeOK'
<1>1. CASE NextOperand(p)
  <2>2. operand[p] + 1 \in 1..Len(cmd[p].args)
    BY <1>1, OperandsArePaths DEF TypeOK, NextOperand
  <2>3. cmd[p].args[operand[p] + 1] \in Path
    BY <2>2, OperandsArePaths
  <2>4. <<Call(cmd[p].args[operand[p] + 1])>> \in Seq(Activation)
    BY <2>3, CallIsActivation
  <2> QED
    BY <1>1, <2>4 DEF TypeOK, NextOperand
<1>2. CASE Exit(p)
  BY <1>2 DEF TypeOK, Exit
<1>3. CASE LstatAbsent(p)
  BY <1>3, TopOfStack DEF TypeOK, LstatAbsent, Busy, Return, Fail
<1>4. CASE LstatFails(p)
  BY <1>4, TopOfStack DEF TypeOK, LstatFails, Busy, Fail
<1>5. CASE LstatDir(p)
  <2>1. stack[p] # <<>>
    BY <1>5 DEF LstatDir, Busy
  <2>2. [Top(p) EXCEPT !.at = "opendir"] \in Activation
    BY <2>1, TopOfStack DEF Activation, Calls
  <2> QED
    BY <1>5, <2>1, <2>2, TopOfStack, GoOnStack DEF TypeOK, LstatDir, GoOn, Fail
<1>6. CASE LstatOther(p)
  <2>1. stack[p] # <<>>
    BY <1>6 DEF LstatOther, Busy
  <2>2. [Top(p) EXCEPT !.at = "unlink"] \in Activation
    BY <2>1, TopOfStack DEF Activation, Calls
  <2> QED
    BY <1>6, <2>1, <2>2, GoOnStack DEF TypeOK, LstatOther, GoOn
<1>7. CASE OpendirDone(p)
  <2>1. stack[p] # <<>>
    BY <1>7 DEF OpendirDone, Busy
  <2> DEFINE act == [Top(p) EXCEPT !.at = "readdir", !.dir = Opened(p),
                            !.snap = Entries(tree, Opened(p)) \cup Dots]
  <2>2. act \in Activation
    BY <2>1, TopOfStack, Places DEF Activation, Entries
  <2>3. Append(Front(stack[p]), act) \in Seq(Activation)
    BY <2>1, <2>2, GoOnStack
  <2> QED
    BY <1>7, <2>3 DEF TypeOK, OpendirDone, GoOn
<1>8. CASE OpendirFails(p)
  BY <1>8, TopOfStack DEF TypeOK, OpendirFails, Busy, Fail
<1>9. CASE ReaddirEntry(p)
  <2>1. stack[p] # <<>>
    BY <1>9 DEF ReaddirEntry, Busy
  <2>2. PICK n \in Readable(tree, Top(p).dir, Top(p)) :
          LET read == Append(Front(stack[p]), [Top(p) EXCEPT !.seen = @ \cup {n}])
          IN  stack' = [stack EXCEPT ![p] =
                IF n \in Ignored THEN read
                                 ELSE Append(read, Call(FullName(Top(p).path, n)))]
    BY <1>9 DEF ReaddirEntry
  <2> DEFINE act == [Top(p) EXCEPT !.seen = @ \cup {n}]
  <2>3. act \in Activation /\ act.path = Top(p).path
    BY <2>1, TopOfStack, NamesRead DEF Activation
  <2>4. Append(Front(stack[p]), act) \in Seq(Activation)
    BY <2>1, <2>3, GoOnStack
  <2>5. n \notin Ignored => Call(FullName(Top(p).path, n)) \in Activation
    BY <2>1, TopOfStack, NamesRead, CallIsActivation
  <2> HIDE DEF act
  <2>6. n \notin Ignored =>
          Append(Append(Front(stack[p]), act), Call(FullName(Top(p).path, n)))
            \in Seq(Activation)
    BY <2>4, <2>5
  <2>7. stack' \in [Proc -> Seq(Activation)]
    BY <2>2, <2>4, <2>6 DEF TypeOK, act
  <2> QED
    BY <1>9, <2>7 DEF TypeOK, ReaddirEntry
<1>10. CASE ReaddirEnd(p)
  <2>1. stack[p] # <<>>
    BY <1>10 DEF ReaddirEnd, Busy
  <2>2. [Top(p) EXCEPT !.at = "rmdir", !.dir = <<>>, !.snap = {}, !.seen = {}] \in Activation
    BY <2>1, TopOfStack, RootIsPath DEF Activation, Calls
  <2> QED
    BY <1>10, <2>1, <2>2, GoOnStack DEF TypeOK, ReaddirEnd, GoOn
<1>11. CASE RmdirDone(p)
  <2>1. IsTree(tree')
    BY <1>11, WithoutIsTree DEF TypeOK, RmdirDone
  <2> QED
    BY <1>11, <2>1, TopOfStack DEF TypeOK, RmdirDone, Busy, Return
<1>12. CASE RmdirFails(p)
  BY <1>12, TopOfStack DEF TypeOK, RmdirFails, Busy, Fail
<1>13. CASE UnlinkDone(p)
  <2>1. IsTree(tree')
    BY <1>13, WithoutIsTree DEF TypeOK, UnlinkDone
  <2> QED
    BY <1>13, <2>1, TopOfStack DEF TypeOK, UnlinkDone, Busy, Return
<1>14. CASE UnlinkFails(p)
  BY <1>14, TopOfStack DEF TypeOK, UnlinkFails, Busy, Fail
<1> QED
  BY <1>1, <1>2, <1>3, <1>4, <1>5, <1>6, <1>7, <1>8, <1>9, <1>10, <1>11, <1>12,
     <1>13, <1>14 DEF Step

\* So does another program that makes an entry.
LEMMA CreateTypeOK ==
  ASSUME TypeOK, NEW q \in setting.fresh, Create(q)
  PROVE  TypeOK'
<1>1. PICK node \in {Dir, File(0)} : tree' = With(tree, q, node)
  BY DEF Create
<1>2. IsTree(tree')
  BY <1>1, WithIsTree, SettingsAssumption DEF TypeOK, Setting, Create, Dir, File
<1> QED
  BY <1>2 DEF TypeOK, Create

LEMMA CreateLinkTypeOK ==
  ASSUME TypeOK, NEW l \in setting.links, CreateLink(l)
  PROVE  TypeOK'
  BY DEF TypeOK, CreateLink

\* The tree stays a tree and the exit status is 0 or 1, whatever is refused and
\* however the processes interleave.
THEOREM TypeCorrect == Spec => []TypeOK
<1>1. TypeOK /\ [Next]_vars => TypeOK'
  <2> SUFFICES ASSUME TypeOK, [Next]_vars PROVE TypeOK'
    OBVIOUS
  <2>1. CASE \E p \in Proc : Step(p)
    BY <2>1, StepTypeOK
  <2>2. CASE \E q \in setting.fresh : Create(q)
    BY <2>2, CreateTypeOK
  <2>3. CASE \E l \in setting.links : CreateLink(l)
    BY <2>3, CreateLinkTypeOK
  <2>4. CASE UNCHANGED vars
    BY <2>4 DEF TypeOK, vars
  <2> QED
    BY <2>1, <2>2, <2>3, <2>4 DEF Next, Done
<1> QED
  BY <1>1, InitTypeOK, PTL DEF Spec

-------------------------------------------------------------------------------
\* What the invariant of the other processes needs of a step of rm: it removes
\* entries and touches nobody else's state.
LEMMA StepOfOne ==
  ASSUME TypeOK, NEW p \in Proc, Step(p)
  PROVE  /\ DOMAIN tree' \subseteq DOMAIN tree
         /\ setting' = setting
         /\ \A q \in Proc \ {p} : /\ operand'[q] = operand[q] /\ stack'[q] = stack[q]
                                  /\ ret'[q] = ret[q] /\ exited'[q] = exited[q]
<1>1. DOMAIN tree' \subseteq DOMAIN tree
  BY DEF Step, NextOperand, Exit, LstatAbsent, LstatFails, LstatDir, LstatOther,
         OpendirDone, OpendirFails, ReaddirEntry, ReaddirEnd, RmdirDone, RmdirFails,
         UnlinkDone, UnlinkFails, Without
<1>2. setting' = setting
  BY DEF Step, NextOperand, Exit, LstatAbsent, LstatFails, LstatDir, LstatOther,
         OpendirDone, OpendirFails, ReaddirEntry, ReaddirEnd, RmdirDone, RmdirFails,
         UnlinkDone, UnlinkFails
<1>3. \A q \in Proc \ {p} : operand'[q] = operand[q] /\ exited'[q] = exited[q]
  BY DEF TypeOK, Step, NextOperand, Exit, LstatAbsent, LstatFails, LstatDir, LstatOther,
         OpendirDone, OpendirFails, ReaddirEntry, ReaddirEnd, RmdirDone, RmdirFails,
         UnlinkDone, UnlinkFails
<1>4. \A q \in Proc \ {p} : stack'[q] = stack[q] /\ ret'[q] = ret[q]
  BY DEF TypeOK, Step, NextOperand, Exit, LstatAbsent, LstatFails, LstatDir, LstatOther,
         OpendirDone, OpendirFails, ReaddirEntry, ReaddirEnd, RmdirDone, RmdirFails,
         UnlinkDone, UnlinkFails, GoOn, Return, Fail
<1> QED
  BY <1>1, <1>2, <1>3, <1>4

-------------------------------------------------------------------------------
(***************************************************************************)
(* The links on the way: the invariant Trodden.                            *)
(***************************************************************************)
\* What a step of rm may do to the tree.
ShrinksTo(t, u) == DOMAIN u \subseteq DOMAIN t /\ \A q \in DOMAIN u : u[q] = t[q]

LEMMA StepShrinks ==
  ASSUME NEW p \in Proc, Step(p)
  PROVE  ShrinksTo(tree, tree')
<1>1. tree' = tree \/ \E q : tree' = Without(tree, q)
  BY DEF Step, NextOperand, Exit, LstatAbsent, LstatFails, LstatDir, LstatOther,
         OpendirDone, OpendirFails, ReaddirEntry, ReaddirEnd, RmdirDone, RmdirFails,
         UnlinkDone, UnlinkFails
<1> QED
  BY <1>1 DEF Without, ShrinksTo

\* What a return, a further call and a call for an entry make of the stack.
LEMMA StackAfter ==
  ASSUME NEW s \in Seq(Activation), s # <<>>, NEW act \in Activation, NEW call \in Activation
  PROVE  LET f == Front(s)
             g == Append(f, act)
             h == Append(g, call)
             n == Len(s)
         IN  /\ n \in Nat /\ n >= 1
             /\ f \in Seq(Activation) /\ Len(f) = n - 1
             /\ \A i \in 1..(n - 1) : f[i] = s[i]
             /\ g \in Seq(Activation) /\ Len(g) = n /\ g # <<>> /\ g[n] = act
             /\ \A i \in 1..(n - 1) : g[i] = s[i]
             /\ h \in Seq(Activation) /\ Len(h) = n + 1 /\ h # <<>> /\ h[n + 1] = call
             /\ h[n] = act /\ \A i \in 1..(n - 1) : h[i] = s[i]
<1> DEFINE f == Front(s)
           g == Append(f, act)
           h == Append(g, call)
           n == Len(s)
<1>1. /\ n \in Nat /\ n >= 1
      /\ f \in Seq(Activation) /\ Len(f) = n - 1
      /\ \A i \in 1..(n - 1) : f[i] = s[i]
  BY FrontAndLast
<1> HIDE DEF f
<1>2. /\ g \in Seq(Activation) /\ Len(g) = n /\ g # <<>> /\ g[n] = act
      /\ \A i \in 1..(n - 1) : g[i] = s[i]
  BY <1>1
<1> HIDE DEF g
<1>3. /\ h \in Seq(Activation) /\ Len(h) = n + 1 /\ h # <<>> /\ h[n + 1] = call
      /\ \A i \in 1..n : h[i] = g[i]
  BY <1>1, <1>2
<1> HIDE DEF h
<1>4. h[n] = act /\ \A i \in 1..(n - 1) : h[i] = s[i]
  BY <1>1, <1>2, <1>3
<1> QED
  BY <1>1, <1>2, <1>3, <1>4 DEF f, g, h

\* A step that removes entries makes no link an old one, nor does one that adds
\* an entry other programs may make.
OldLinksFade == \A q : OldLink(q)' => OldLink(q) /\ tree'[q] = tree[q]

LEMMA OldLinksOfShrinking ==
  ASSUME ShrinksTo(tree, tree'), setting' = setting
  PROVE  OldLinksFade
  BY DEF OldLinksFade, OldLink, IsLink, Exists, ShrinksTo

LEMMA OldLinksOfCreate ==
  ASSUME NEW q \in setting.fresh, Create(q)
  PROVE  OldLinksFade
<1>1. PICK node \in {Dir, File(0)} : tree' = With(tree, q, node)
  BY DEF Create
<1>2. node.kind # "link" /\ setting' = setting
  BY DEF Dir, File, Create
<1> QED
  BY <1>1, <1>2 DEF OldLinksFade, OldLink, IsLink, Exists, With

LEMMA OldLinksOfCreateLink ==
  ASSUME TypeOK, NEW l \in setting.links, CreateLink(l)
  PROVE  OldLinksFade
<1>1. tree' = With(tree, l.at, Link(l.to)) /\ setting' = setting
  BY DEF CreateLink
<1>2. l = [at |-> l.at, to |-> l.to]
  BY SettingsAssumption DEF TypeOK, Setting
<1>3. Link(l.to).to = l.to
  BY DEF Link
<1>4. ~OldLink(l.at)'
  BY <1>1, <1>2, <1>3 DEF OldLink, With
<1> QED
  BY <1>1, <1>4 DEF OldLinksFade, OldLink, IsLink, Exists, With

\* What has been passed by stays so.
LEMMA TroddenStays ==
  ASSUME OldLinksFade, NEW a, TroddenAt(a)
  PROVE  TroddenAt(a)'
  BY DEF OldLinksFade, TroddenAt

LEMMA TroddenOfOthers ==
  ASSUME OldLinksFade, NEW q \in Proc, stack'[q] = stack[q], Treads(q)
  PROVE  Treads(q)'
<1>1. ASSUME NEW k \in 1..Len(stack[q])
      PROVE  TroddenAt(stack'[q][k]) /\ stack'[q] = stack[q]
  BY DEF Treads
<1> QED
  BY <1>1 DEF OldLinksFade, TroddenAt, Treads

\* What leads to a directory with its last name taken as it is, is no link.
LEMMA DirIsNoLink ==
  ASSUME NEW t, IsTree(t), NEW path \in Path, IsDir(t, NoFollow(t, path))
  PROVE  ~IsLink(t, path)
<1> SUFFICES ASSUME IsLink(t, path) PROVE FALSE
  OBVIOUS
<1>1. LinksLead(t) /\ ~ThroughLink(t, path)
  BY TreeIsGrown, ExistsStraight DEF Grown, IsLink
<1>2. NoFollow(t, path) = path
  BY <1>1, StraightPath
<1> QED
  BY <1>2 DEF IsDir, IsLink

\* An operand leads through no link, at any time.
LEMMA OperandStraight ==
  ASSUME TypeOK, OldLinksStay, NEW p \in Proc, NEW n \in DOMAIN cmd[p].args
  PROVE  /\ cmd[p].args[n] \in Path /\ ~ThroughLink(tree, cmd[p].args[n])
         /\ TroddenAt(Call(cmd[p].args[n]))
<1> DEFINE op == cmd[p].args[n]
<1>1. /\ op \in Path /\ Len(op) \in Nat /\ op \in Seq(Name)
      /\ ~ThroughLink(setting.tree, op)
      /\ \A l \in setting.links : l.at \in Path /\ ~IsPrefix(l.at, op)
  BY SettingsAssumption, OperandsArePaths DEF TypeOK, Setting, Path
<1>2. ASSUME NEW i \in 1..(Len(op) - 1) PROVE ~IsLink(tree, SubSeq(op, 1, i))
  <2>1. ~IsLink(setting.tree, SubSeq(op, 1, i))
    BY <1>1 DEF ThroughLink
  <2>2. ~OldLink(SubSeq(op, 1, i))
    BY <2>1 DEF OldLinksStay
  <2>3. IsPrefix(SubSeq(op, 1, i), op)
    <3>1. i \in 0..Len(op)
      BY <1>1
    <3> QED
      BY <1>1, <3>1, PartOfPath
  <2> QED
    BY <1>1, <2>2, <2>3 DEF OldLink
<1>3. ~ThroughLink(tree, op)
  BY <1>2 DEF ThroughLink
<1>4. Call(op).path = op /\ Call(op).at \notin OfDirectory
  BY DEF Call, OfDirectory
<1>5. TroddenAt(Call(op))
  <2> SUFFICES ASSUME NEW i \in 1..Len(op), i < Len(op) PROVE ~OldLink(SubSeq(op, 1, i))
    BY <1>4 DEF TroddenAt
  <2>1. i \in 1..(Len(op) - 1)
    BY <1>1
  <2> QED
    BY <1>2, <2>1 DEF OldLink
<1> QED
  BY <1>1, <1>3, <1>5

\* A step of rm descends from directories it has passed.
LEMMA TroddenOfOne ==
  ASSUME TypeOK, OldLinksFade, OldLinksStay, NEW p \in Proc, Step(p), Treads(p)
  PROVE  Treads(p)'
<1> DEFINE s == stack[p]
<1>1. s # <<>> => /\ s \in Seq(Activation) /\ Top(p) \in Activation /\ Len(s) \in Nat
                  /\ Len(s) >= 1 /\ s[Len(s)] = Top(p) /\ TroddenAt(Top(p))
                  /\ Front(s) \in Seq(Activation) /\ Len(Front(s)) = Len(s) - 1
                  /\ \A i \in 1..(Len(s) - 1) : Front(s)[i] = s[i]
                  /\ \A i \in 1..Len(s) : TroddenAt(s[i])
  BY TopOfStack DEF Treads
<1>2. ASSUME \A k \in 1..Len(stack'[p]) : TroddenAt(stack'[p][k])
      PROVE  Treads(p)'
  BY <1>2 DEF OldLinksFade, TroddenAt, Treads
<1> SUFFICES \A k \in 1..Len(stack'[p]) : TroddenAt(stack'[p][k])
  BY <1>2
<1>3. ASSUME stack' = stack \/ (s # <<>> /\ stack' = [stack EXCEPT ![p] = Front(s)])
      PROVE  \A k \in 1..Len(stack'[p]) : TroddenAt(stack'[p][k])
  <2>1. CASE stack' = stack
    BY <2>1 DEF Treads
  <2>2. CASE s # <<>> /\ stack' = [stack EXCEPT ![p] = Front(s)]
    <3>1. stack'[p] = Front(s)
      BY <2>2 DEF TypeOK
    <3> QED
      BY <1>1, <2>2, <3>1
  <2> QED
    BY <1>3, <2>1, <2>2
<1>4. ASSUME s # <<>>, NEW act \in Activation, TroddenAt(act), GoOn(p, act)
      PROVE  \A k \in 1..Len(stack'[p]) : TroddenAt(stack'[p][k])
  <2>1. stack'[p] = Append(Front(s), act)
    BY <1>4 DEF GoOn, TypeOK
  <2>2. /\ Len(stack'[p]) = Len(s) /\ stack'[p][Len(s)] = act
        /\ \A i \in 1..(Len(s) - 1) : stack'[p][i] = s[i]
    BY <1>1, <1>4, <2>1, StackAfter
  <2> QED
    BY <1>1, <1>4, <2>2
<1>5. CASE NextOperand(p)
  <2>1. operand[p] + 1 \in DOMAIN cmd[p].args
    BY <1>5, OperandsArePaths DEF TypeOK, NextOperand
  <2> DEFINE call == Call(cmd[p].args[operand[p] + 1])
  <2>2. stack'[p] = <<call>> /\ TroddenAt(call)
    BY <1>5, <2>1, OperandStraight DEF NextOperand, TypeOK
  <2> HIDE DEF call
  <2>3. Len(stack'[p]) = 1 /\ stack'[p][1] = call
    BY <2>2
  <2> QED
    BY <2>2, <2>3
<1>6. CASE Exit(p)
  BY <1>3, <1>6 DEF Exit
<1>7. CASE LstatAbsent(p)
  BY <1>3, <1>7 DEF LstatAbsent, Busy, Return, Fail
<1>8. CASE LstatFails(p)
  BY <1>3, <1>8 DEF LstatFails, Busy, Fail
<1>9. CASE LstatDir(p)
  <2>1. s # <<>> /\ IsDir(tree, Place(p))
    BY <1>9 DEF LstatDir, Busy
  <2>2. CASE cmd[p].recursive
    <3> DEFINE act == [Top(p) EXCEPT !.at = "opendir"]
    <3>1. act \in Activation /\ act.path = Top(p).path
      BY <1>1, <2>1 DEF Activation, Calls
    <3>2. GoOn(p, act)
      BY <1>9, <2>2 DEF LstatDir
    <3> HIDE DEF act
    <3>3. ~OldLink(Top(p).path)
      BY <2>1, Places, DirIsNoLink DEF Place, OldLink, TypeOK
    <3>4. TroddenAt(act)
      <4> SUFFICES ASSUME NEW i \in 1..Len(Top(p).path) PROVE ~OldLink(SubSeq(Top(p).path, 1, i))
        BY <3>1 DEF TroddenAt
      <4>1. Top(p).path \in Seq(Name) /\ Len(Top(p).path) \in Nat
        BY <2>1, Places DEF Path
      <4>2. CASE i < Len(Top(p).path)
        BY <1>1, <2>1, <4>2 DEF TroddenAt
      <4>3. CASE i = Len(Top(p).path)
        BY <3>3, <4>1, <4>3, SubSeqFull
      <4> QED
        BY <4>1, <4>2, <4>3
    <3> QED
      BY <1>4, <2>1, <3>1, <3>2, <3>4
  <2>3. CASE ~cmd[p].recursive
    BY <1>3, <1>9, <2>1, <2>3 DEF LstatDir, Fail
  <2> QED
    BY <2>2, <2>3
<1>10. CASE LstatOther(p)
  <2> DEFINE act == [Top(p) EXCEPT !.at = "unlink"]
  <2>1. s # <<>> /\ GoOn(p, act)
    BY <1>10 DEF LstatOther, Busy
  <2>2. act \in Activation /\ act.path = Top(p).path /\ act.at \notin OfDirectory
    BY <1>1, <2>1 DEF Activation, Calls, OfDirectory
  <2> HIDE DEF act
  <2> QED
    BY <1>1, <1>4, <2>1, <2>2 DEF TroddenAt
<1>11. CASE OpendirDone(p)
  <2> DEFINE act == [Top(p) EXCEPT !.at = "readdir", !.dir = Opened(p),
                            !.snap = Entries(tree, Opened(p)) \cup Dots]
  <2>1. s # <<>> /\ GoOn(p, act) /\ Top(p).at \in OfDirectory
    BY <1>11 DEF OpendirDone, Busy, Top, OfDirectory
  <2>2. act \in Activation /\ act.path = Top(p).path
    BY <1>1, <2>1, Places DEF Activation, Entries
  <2> HIDE DEF act
  <2> QED
    BY <1>1, <1>4, <2>1, <2>2 DEF TroddenAt
<1>12. CASE OpendirFails(p)
  BY <1>3, <1>12 DEF OpendirFails, Busy, Fail
<1>13. CASE ReaddirEntry(p)
  <2>1. s # <<>> /\ Top(p).at \in OfDirectory
    BY <1>13 DEF ReaddirEntry, Busy, Top, OfDirectory
  <2>2. PICK n \in Readable(tree, Top(p).dir, Top(p)) :
          LET read == Append(Front(stack[p]), [Top(p) EXCEPT !.seen = @ \cup {n}])
          IN  stack' = [stack EXCEPT ![p] =
                IF n \in Ignored THEN read
                                 ELSE Append(read, Call(FullName(Top(p).path, n)))]
    BY <1>13 DEF ReaddirEntry
  <2> DEFINE act  == [Top(p) EXCEPT !.seen = @ \cup {n}]
             call == Call(FullName(Top(p).path, n))
  <2>3. act \in Activation /\ act.path = Top(p).path /\ TroddenAt(act)
    BY <1>1, <2>1, NamesRead DEF Activation, TroddenAt
  <2>4. CASE n \in Ignored
    BY <1>4, <2>1, <2>2, <2>3, <2>4 DEF GoOn
  <2>5. CASE n \notin Ignored
    <3>1. /\ call \in Activation /\ n \in Name
          /\ call.path = Append(Top(p).path, n) /\ call.at \notin OfDirectory
      BY <1>1, <2>1, <2>5, NamesRead, CallIsActivation DEF Call, OfDirectory
    <3>2. stack'[p] = Append(Append(Front(s), act), call)
      BY <2>2, <2>5 DEF TypeOK
    <3>3. TroddenAt(call)
      <4>1. Top(p).path \in Seq(Name) /\ Len(Top(p).path) \in Nat
        BY <2>1, Places DEF Path
      <4> DEFINE path == Top(p).path
                 new  == Append(path, n)
      <4> SUFFICES ASSUME NEW i \in 1..Len(new), i < Len(new) PROVE ~OldLink(SubSeq(new, 1, i))
        BY <3>1 DEF TroddenAt
      <4>2. i \in 1..Len(path)
        BY <4>1
      <4>3. SubSeq(new, 1, i) = SubSeq(path, 1, i)
        BY <3>1, <4>1, <4>2
      <4>4. ~OldLink(SubSeq(path, 1, i))
        BY <1>1, <2>1, <4>2 DEF TroddenAt
      <4> QED
        BY <4>3, <4>4
    <3> HIDE DEF act, call
    <3>4. /\ Len(stack'[p]) = Len(s) + 1 /\ stack'[p][Len(s) + 1] = call
          /\ stack'[p][Len(s)] = act /\ \A i \in 1..(Len(s) - 1) : stack'[p][i] = s[i]
      BY <1>1, <2>1, <2>3, <3>1, <3>2, StackAfter
    <3>5. /\ TroddenAt(act) /\ TroddenAt(call) /\ Len(s) \in Nat
          /\ \A i \in 1..Len(s) : TroddenAt(s[i])
      BY <1>1, <2>1, <2>3, <3>3
    <3> HIDE DEF s
    <3>6. ASSUME NEW k \in 1..(Len(s) + 1) PROVE TroddenAt(stack'[p][k])
      <4>1. CASE k \in 1..(Len(s) - 1)
        BY <3>4, <3>5, <4>1
      <4>2. CASE k = Len(s) \/ k = Len(s) + 1
        BY <3>4, <3>5, <4>2
      <4> QED
        BY <3>5, <4>1, <4>2
    <3> QED
      BY <3>4, <3>6
  <2> QED
    BY <2>4, <2>5
<1>14. CASE ReaddirEnd(p)
  <2> DEFINE act == [Top(p) EXCEPT !.at = "rmdir", !.dir = <<>>, !.snap = {}, !.seen = {}]
  <2>1. s # <<>> /\ GoOn(p, act) /\ Top(p).at \in OfDirectory
    BY <1>14 DEF ReaddirEnd, Busy, Top, OfDirectory
  <2>2. act \in Activation /\ act.path = Top(p).path
    BY <1>1, <2>1, RootIsPath DEF Activation, Calls
  <2> HIDE DEF act
  <2> QED
    BY <1>1, <1>4, <2>1, <2>2 DEF TroddenAt
<1>15. CASE RmdirDone(p)
  BY <1>3, <1>15 DEF RmdirDone, Busy, Return
<1>16. CASE RmdirFails(p)
  BY <1>3, <1>16 DEF RmdirFails, Busy, Fail
<1>17. CASE UnlinkDone(p)
  BY <1>3, <1>17 DEF UnlinkDone, Busy, Return
<1>18. CASE UnlinkFails(p)
  BY <1>3, <1>18 DEF UnlinkFails, Busy, Fail
<1> QED
  BY <1>5, <1>6, <1>7, <1>8, <1>9, <1>10, <1>11, <1>12, <1>13, <1>14, <1>15, <1>16,
     <1>17, <1>18 DEF Step

LEMMA InitTrodden == Init => Trodden
<1> SUFFICES ASSUME Init PROVE Trodden
  OBVIOUS
<1>1. \A p \in Proc : stack[p] = <<>> /\ Len(stack[p]) = 0
  BY DEF Init
<1>2. \A p \in Proc : Treads(p)
  BY <1>1 DEF Treads
<1> QED
  BY <1>2 DEF Init, Trodden, OldLinksStay, OldLink

LEMMA NextKeepsTrodden == TypeOK /\ Trodden /\ [Next]_vars => Trodden'
<1> SUFFICES ASSUME TypeOK, Trodden, [Next]_vars PROVE Trodden'
  OBVIOUS
<1>1. ASSUME NEW p \in Proc, Step(p) PROVE Trodden'
  <2>1. OldLinksFade /\ setting' = setting
    BY <1>1, StepOfOne, StepShrinks, OldLinksOfShrinking
  <2>2. OldLinksStay'
    BY <2>1 DEF Trodden, OldLinksStay, OldLinksFade
  <2>3. ASSUME NEW q \in Proc PROVE Treads(q)'
    <3>1. CASE q = p
      BY <1>1, <2>1, <3>1, TroddenOfOne DEF Trodden
    <3>2. CASE q # p
      BY <1>1, <2>1, <3>2, StepOfOne, TroddenOfOthers DEF Trodden
    <3> QED
      BY <3>1, <3>2
  <2> QED
    BY <2>2, <2>3 DEF Trodden
<1>2. ASSUME OldLinksFade, UNCHANGED <<setting, stack>> PROVE Trodden'
  <2>1. OldLinksStay'
    BY <1>2 DEF Trodden, OldLinksStay, OldLinksFade
  <2>2. ASSUME NEW q \in Proc PROVE Treads(q)'
    BY <1>2, TroddenOfOthers DEF Trodden
  <2> QED
    BY <2>1, <2>2 DEF Trodden
<1>3. CASE \E q \in setting.fresh : Create(q)
  BY <1>2, <1>3, OldLinksOfCreate DEF Create
<1>4. CASE \E l \in setting.links : CreateLink(l)
  BY <1>2, <1>4, OldLinksOfCreateLink DEF CreateLink
<1>5. CASE UNCHANGED vars
  BY <1>2, <1>5 DEF vars, OldLinksFade, OldLink
<1> QED
  BY <1>1, <1>3, <1>4, <1>5 DEF Next, Done

\* The inductive invariant: the links of the start that are still there are none
\* of those rm has come through.
THEOREM TroddenHolds == Spec => []Trodden
<1>1. TypeOK /\ Trodden /\ [Next]_vars => Trodden'
  BY NextKeepsTrodden
<1> QED
  BY <1>1, InitTrodden, TypeCorrect, PTL DEF Spec

-------------------------------------------------------------------------------
(***************************************************************************)
(* What rm is done with: the invariant Accounted.                          *)
(***************************************************************************)
\* A return of rm(): the operand is gone or reported when it was the outermost.
LEMMA PopKeepsAccount ==
  ASSUME TypeOK, NEW p \in Proc, AccountedFor(p), stack[p] # <<>>,
         stack' = [stack EXCEPT ![p] = Front(stack[p])],
         DOMAIN tree' \subseteq DOMAIN tree,
         operand' = operand, setting' = setting, exited' = exited,
         \/ ret' = [ret EXCEPT ![p] = 1]
         \/ ret' = ret /\ (Len(stack[p]) = 1 => ~Exists(tree', Top(p).path))
  PROVE  AccountedFor(p)'
<1>1. /\ stack'[p] = Front(stack[p])
      /\ Len(stack[p]) \in Nat /\ Len(stack[p]) >= 1
      /\ Front(stack[p]) \in Seq(Activation)
      /\ Len(Front(stack[p])) = Len(stack[p]) - 1
      /\ \A i \in 1..(Len(stack[p]) - 1) : Front(stack[p])[i] = stack[p][i]
      /\ stack[p][Len(stack[p])] = Top(p)
  <2>1. stack'[p] = Front(stack[p])
    BY DEF TypeOK
  <2> QED
    BY <2>1, TopOfStack
<1>2. ~exited[p] /\ ret[p] \in {0, 1} /\ operand[p] \in Nat
  BY DEF AccountedFor, TypeOK
<1>3. GoneOrReported(p)'
  <2>1. CASE ret' = [ret EXCEPT ![p] = 1]
    BY <2>1 DEF GoneOrReported, TypeOK
  <2>2. CASE ret' = ret /\ (Len(stack[p]) = 1 => ~Exists(tree', Top(p).path))
    <3> SUFFICES ASSUME NEW i \in Finished(p)', ret[p] # 1
                 PROVE  ~Exists(tree', cmd[p].args[i])
      BY <2>2 DEF GoneOrReported
    <3>1. CASE i < operand[p]
      BY <3>1, <2>2 DEF AccountedFor, GoneOrReported, Finished, Exists
    <3>2. CASE i = operand[p] /\ stack'[p] = <<>>
      <4>1. Len(stack[p]) = 1
        BY <1>1, <3>2
      <4> QED
        BY <1>1, <2>2, <3>2, <4>1 DEF AccountedFor, InOperand
    <3> QED
      BY <3>1, <3>2, <1>2 DEF Finished
  <2> QED
    BY <2>1, <2>2
<1>4. InOperand(p)'
  <2> SUFFICES ASSUME stack'[p] # <<>>
               PROVE  /\ operand[p] >= 1
                      /\ stack'[p][1].path = cmd[p].args[operand[p]]
                      /\ \A k \in 1..Len(stack'[p]) :
                           IsPrefix(cmd[p].args[operand[p]], stack'[p][k].path)
    BY DEF InOperand
  <2>1. Len(stack[p]) >= 2
    BY <1>1
  <2> QED
    BY <1>1, <2>1 DEF AccountedFor, InOperand
<1> QED
  BY <1>2, <1>3, <1>4 DEF AccountedFor

\* A further call of the same activation.
LEMMA GoOnKeepsAccount ==
  ASSUME TypeOK, NEW p \in Proc, AccountedFor(p), stack[p] # <<>>,
         NEW act \in Activation, act.path = Top(p).path, GoOn(p, act),
         tree' = tree, operand' = operand, setting' = setting, exited' = exited, ret' = ret
  PROVE  AccountedFor(p)'
<1> DEFINE new == Append(Front(stack[p]), act)
<1>1. /\ stack'[p] = new
      /\ new \in Seq(Activation) /\ Len(new) = Len(stack[p]) /\ new # <<>>
      /\ Len(stack[p]) \in Nat /\ Len(stack[p]) >= 1
      /\ \A i \in 1..Len(stack[p]) : new[i].path = stack[p][i].path
  <2>1. stack'[p] = new
    BY DEF TypeOK, GoOn
  <2>2. new \in Seq(Activation)
    BY GoOnStack
  <2>3. /\ Front(stack[p]) \in Seq(Activation) /\ Len(Front(stack[p])) = Len(stack[p]) - 1
        /\ Len(stack[p]) \in Nat /\ Len(stack[p]) >= 1
    BY TopOfStack
  <2> DEFINE rest == Front(stack[p])
  <2> HIDE DEF rest
  <2>4. Len(Append(rest, act)) = Len(stack[p]) /\ Append(rest, act) # <<>>
    BY <2>3 DEF rest
  <2>5. ASSUME NEW i \in 1..Len(stack[p]) PROVE Append(rest, act)[i].path = stack[p][i].path
    <3>1. CASE i = Len(stack[p])
      <4>1. Append(rest, act)[i] = act
        BY <2>3, <3>1 DEF rest
      <4>2. stack[p][i] = Top(p)
        BY <3>1, TopOfStack
      <4> QED BY <4>1, <4>2
    <3>2. CASE i # Len(stack[p])
      <4>1. i \in 1..(Len(stack[p]) - 1)
        BY <2>3, <3>2
      <4>2. Append(rest, act)[i] = rest[i]
        BY <2>3, <4>1 DEF rest
      <4>3. rest[i] = stack[p][i]
        BY <4>1, TopOfStack DEF rest
      <4> QED BY <4>2, <4>3
    <3> QED BY <3>1, <3>2
  <2> QED
    BY <2>1, <2>2, <2>3, <2>4, <2>5 DEF rest
<1> HIDE DEF new
<1>2. ~exited[p]
  BY DEF AccountedFor
<1>3. GoneOrReported(p)'
  BY <1>1 DEF AccountedFor, GoneOrReported, Finished
<1>4. InOperand(p)'
  BY <1>1 DEF AccountedFor, InOperand
<1> QED
  BY <1>2, <1>3, <1>4 DEF AccountedFor

\* A process that does not move, while others remove entries.
LEMMA WaitKeepsAccount ==
  ASSUME TypeOK, NEW q \in Proc, AccountedFor(q),
         DOMAIN tree' \subseteq DOMAIN tree, setting' = setting, operand'[q] = operand[q],
         stack'[q] = stack[q], ret'[q] = ret[q], exited'[q] = exited[q]
  PROVE  AccountedFor(q)'
<1>1. GoneOrReported(q)'
  BY DEF AccountedFor, GoneOrReported, Finished, Exists
<1>2. InOperand(q)'
  BY DEF AccountedFor, InOperand
<1> QED
  BY <1>1, <1>2 DEF AccountedFor

\* The outermost activation is about the operand, which leads through no link.
LEMMA OutermostIsPlace ==
  ASSUME TypeOK, OldLinksStay, NEW p \in Proc, AccountedFor(p), stack[p] # <<>>, Len(stack[p]) = 1
  PROVE  Place(p) = Top(p).path
<1>1. operand[p] \in Nat /\ operand[p] \in DOMAIN cmd[p].args /\ Top(p).path = cmd[p].args[operand[p]]
  BY TopOfStack, OperandsArePaths DEF TypeOK, AccountedFor, InOperand
<1>2. Top(p).path \in Path /\ ~ThroughLink(tree, Top(p).path)
  BY <1>1, OperandStraight
<1> QED
  BY <1>2, Places, StraightPath DEF Place

\* Every step of rm keeps its own account.
LEMMA StepKeepsAccount ==
  ASSUME TypeOK, OldLinksStay, NEW p \in Proc, AccountedFor(p), Step(p)
  PROVE  AccountedFor(p)'
<1>0. DOMAIN tree' \subseteq DOMAIN tree
  BY StepOfOne
<1>1. CASE NextOperand(p)
  <2> DEFINE path == cmd[p].args[operand[p] + 1]
  <2>1. operand[p] \in Nat
    BY DEF TypeOK
  <2>2. operand[p] + 1 \in 1..Len(cmd[p].args) /\ path \in Path
    BY <1>1, <2>1, OperandsArePaths DEF NextOperand
  <2>3. /\ stack[p] = <<>> /\ ~exited[p]
        /\ stack'[p] = <<Call(path)>> /\ operand'[p] = operand[p] + 1
        /\ tree' = tree /\ setting' = setting /\ ret' = ret /\ exited' = exited
    BY <1>1 DEF NextOperand, TypeOK
  <2>4. GoneOrReported(p)'
    BY <2>1, <2>2, <2>3 DEF AccountedFor, GoneOrReported, Finished
  <2>5. InOperand(p)'
    <3>1. Call(path).path = path /\ IsPrefix(path, path)
      BY <2>2 DEF Call, IsPrefix, Path
    <3> QED
      BY <2>1, <2>3, <3>1 DEF InOperand
  <2> QED
    BY <2>1, <2>2, <2>3, <2>4, <2>5 DEF AccountedFor
<1>2. CASE Exit(p)
  <2>1. /\ stack[p] = <<>> /\ stack' = stack /\ operand' = operand /\ setting' = setting
        /\ tree' = tree /\ operand[p] = Len(cmd[p].args)
    BY <1>2 DEF Exit
  <2>2. ret'[p] = ret[p] \/ ret'[p] = 1
    BY <1>2 DEF Exit, TypeOK
  <2>3. GoneOrReported(p)'
    BY <2>1, <2>2 DEF AccountedFor, GoneOrReported, Finished
  <2> QED
    BY <2>1, <2>3 DEF AccountedFor, InOperand
<1>3. CASE LstatAbsent(p)
  <2>1. Len(stack[p]) = 1 => ~Exists(tree', Top(p).path)
    BY <1>3, OutermostIsPlace DEF LstatAbsent, Busy
  <2> QED
    BY <1>0, <1>3, <2>1, PopKeepsAccount DEF LstatAbsent, Busy, Return, Fail
<1>4. CASE LstatFails(p)
  BY <1>0, <1>4, PopKeepsAccount DEF LstatFails, Busy, Fail
<1>5. CASE LstatDir(p)
  <2>1. stack[p] # <<>>
    BY <1>5 DEF LstatDir, Busy
  <2>2. CASE cmd[p].recursive
    <3>1. /\ [Top(p) EXCEPT !.at = "opendir"] \in Activation
          /\ [Top(p) EXCEPT !.at = "opendir"].path = Top(p).path
      BY <2>1, TopOfStack DEF Activation, Calls
    <3> QED
      BY <1>5, <2>1, <2>2, <3>1, GoOnKeepsAccount DEF LstatDir
  <2>3. CASE ~cmd[p].recursive
    BY <1>0, <1>5, <2>1, <2>3, PopKeepsAccount DEF LstatDir, Fail
  <2> QED
    BY <2>2, <2>3
<1>6. CASE LstatOther(p)
  <2>1. stack[p] # <<>>
    BY <1>6 DEF LstatOther, Busy
  <2>2. /\ [Top(p) EXCEPT !.at = "unlink"] \in Activation
        /\ [Top(p) EXCEPT !.at = "unlink"].path = Top(p).path
    BY <2>1, TopOfStack DEF Activation, Calls
  <2> QED
    BY <1>6, <2>1, <2>2, GoOnKeepsAccount DEF LstatOther
<1>7. CASE OpendirDone(p)
  <2> DEFINE act == [Top(p) EXCEPT !.at = "readdir", !.dir = Opened(p),
                            !.snap = Entries(tree, Opened(p)) \cup Dots]
  <2>1. stack[p] # <<>>
    BY <1>7 DEF OpendirDone, Busy
  <2>2. act \in Activation /\ act.path = Top(p).path
    BY <2>1, TopOfStack, Places DEF Activation, Entries
  <2>3. GoOn(p, act) /\ UNCHANGED <<tree, setting, operand, ret, exited>>
    BY <1>7 DEF OpendirDone
  <2> QED
    BY <2>1, <2>2, <2>3, GoOnKeepsAccount
<1>8. CASE OpendirFails(p)
  BY <1>0, <1>8, PopKeepsAccount DEF OpendirFails, Busy, Fail
<1>9. CASE ReaddirEntry(p)
  <2>1. stack[p] # <<>>
    BY <1>9 DEF ReaddirEntry, Busy
  <2>2. PICK n \in Readable(tree, Top(p).dir, Top(p)) :
          LET read == Append(Front(stack[p]), [Top(p) EXCEPT !.seen = @ \cup {n}])
          IN  stack' = [stack EXCEPT ![p] =
                IF n \in Ignored THEN read
                                 ELSE Append(read, Call(FullName(Top(p).path, n)))]
    BY <1>9 DEF ReaddirEntry
  <2> DEFINE act  == [Top(p) EXCEPT !.seen = @ \cup {n}]
             read == Append(Front(stack[p]), act)
             call == Call(FullName(Top(p).path, n))
  <2>3. act \in Activation /\ act.path = Top(p).path
    BY <2>1, TopOfStack, NamesRead DEF Activation
  <2>4. UNCHANGED <<tree, setting, operand, ret, exited>>
    BY <1>9 DEF ReaddirEntry
  <2>5. CASE n \in Ignored
    BY <2>1, <2>2, <2>3, <2>4, <2>5, GoOnKeepsAccount DEF GoOn
  <2>6. CASE n \notin Ignored
    <3>1. /\ read \in Seq(Activation) /\ Len(read) = Len(stack[p])
          /\ Len(stack[p]) \in Nat /\ Len(stack[p]) >= 1
          /\ \A i \in 1..Len(stack[p]) : read[i].path = stack[p][i].path
      <4>1. read \in Seq(Activation)
        BY <2>1, <2>3, GoOnStack
      <4> QED
        BY <4>1, <2>1, <2>3, TopOfStack
    <3>2. /\ call \in Activation
          /\ call.path = Append(Top(p).path, n) /\ n \in Name
      BY <2>1, <2>6, TopOfStack, NamesRead, CallIsActivation DEF Call
    <3>3. stack'[p] = Append(read, call)
      BY <2>2, <2>6 DEF TypeOK
    <3>4. IsPrefix(cmd[p].args[operand[p]], Top(p).path)
      BY <2>1, TopOfStack DEF AccountedFor, InOperand
    <3>5. IsPrefix(cmd[p].args[operand[p]], call.path)
      <4>1. operand[p] \in Nat
        BY DEF TypeOK
      <4>2. operand[p] \in 1..Len(cmd[p].args)
        BY <2>1, <4>1, OperandsArePaths DEF AccountedFor, InOperand
      <4>3. cmd[p].args[operand[p]] \in Seq(Name) /\ Top(p).path \in Seq(Name)
        BY <2>1, <4>1, <4>2, OperandsArePaths, TopOfStack DEF Activation, Path
      <4> QED
        BY <3>2, <3>4, <4>3, PrefixOfEntry
    <3> HIDE DEF read, call
    <3>6. /\ stack'[p] # <<>> /\ Len(stack'[p]) = Len(stack[p]) + 1
          /\ \A i \in 1..Len(stack[p]) : stack'[p][i].path = stack[p][i].path
          /\ stack'[p][Len(stack[p]) + 1].path = call.path
      <4>1. /\ Len(Append(read, call)) = Len(stack[p]) + 1
            /\ Append(read, call) # <<>>
            /\ Append(read, call)[Len(stack[p]) + 1] = call
            /\ \A i \in 1..Len(stack[p]) : Append(read, call)[i] = read[i]
        BY <3>1, <3>2
      <4> QED
        BY <3>1, <3>3, <4>1
    <3>7. InOperand(p)'
      BY <2>1, <2>4, <3>1, <3>5, <3>6 DEF AccountedFor, InOperand
    <3>8. GoneOrReported(p)'
      BY <2>1, <2>4, <3>6 DEF AccountedFor, GoneOrReported, Finished
    <3> QED
      BY <2>1, <2>4, <3>7, <3>8 DEF AccountedFor
  <2> QED
    BY <2>5, <2>6
<1>10. CASE ReaddirEnd(p)
  <2>1. stack[p] # <<>>
    BY <1>10 DEF ReaddirEnd, Busy
  <2>2. /\ [Top(p) EXCEPT !.at = "rmdir", !.dir = <<>>, !.snap = {}, !.seen = {}] \in Activation
        /\ [Top(p) EXCEPT !.at = "rmdir", !.dir = <<>>, !.snap = {}, !.seen = {}].path = Top(p).path
    BY <2>1, TopOfStack, RootIsPath DEF Activation, Calls
  <2> QED
    BY <1>10, <2>1, <2>2, GoOnKeepsAccount DEF ReaddirEnd
<1>11. CASE RmdirDone(p)
  <2>1. Len(stack[p]) = 1 => ~Exists(tree', Top(p).path)
    BY <1>11, OutermostIsPlace DEF RmdirDone, Busy, Without, Exists
  <2> QED
    BY <1>0, <1>11, <2>1, PopKeepsAccount DEF RmdirDone, Busy, Return
<1>12. CASE RmdirFails(p)
  BY <1>0, <1>12, PopKeepsAccount DEF RmdirFails, Busy, Fail
<1>13. CASE UnlinkDone(p)
  <2>1. Len(stack[p]) = 1 => ~Exists(tree', Top(p).path)
    BY <1>13, OutermostIsPlace DEF UnlinkDone, Busy, Without, Exists
  <2> QED
    BY <1>0, <1>13, <2>1, PopKeepsAccount DEF UnlinkDone, Busy, Return
<1>14. CASE UnlinkFails(p)
  BY <1>0, <1>14, PopKeepsAccount DEF UnlinkFails, Busy, Fail
<1> QED
  BY <1>1, <1>2, <1>3, <1>4, <1>5, <1>6, <1>7, <1>8, <1>9, <1>10, <1>11, <1>12,
     <1>13, <1>14 DEF Step

\* What another program creates is no operand, so that no account changes.
LEMMA CreateKeepsAccount ==
  ASSUME TypeOK, Accounted, NEW q \in setting.fresh, Create(q)
  PROVE  Accounted'
<1>1. DOMAIN tree' = DOMAIN tree \cup {q}
  BY DEF Create, With
<1>2. ASSUME NEW p \in Proc PROVE AccountedFor(p)'
  <2>1. AccountedFor(p) /\ operand[p] \in Nat
    BY DEF Accounted, TypeOK
  <2>2. \A i \in 1..operand[p] : cmd[p].args[i] # q
    <3>1. \A i \in 1..operand[p] : i \in DOMAIN cmd[p].args
      BY <2>1, OperandsArePaths DEF AccountedFor
    <3> QED
      BY <2>1, <3>1, SettingsAssumption DEF TypeOK, Setting
  <2>3. GoneOrReported(p)'
    BY <1>1, <2>1, <2>2 DEF Create, AccountedFor, GoneOrReported, Finished, Exists
  <2> QED
    BY <2>1, <2>3 DEF Create, AccountedFor, InOperand
<1> QED
  BY <1>2 DEF Accounted

\* Nor is a link another program makes.
LEMMA CreateLinkKeepsAccount ==
  ASSUME TypeOK, Accounted, NEW l \in setting.links, CreateLink(l)
  PROVE  Accounted'
<1>1. DOMAIN tree' = DOMAIN tree \cup {l.at}
  BY DEF CreateLink, With
<1>2. ASSUME NEW p \in Proc PROVE AccountedFor(p)'
  <2>1. AccountedFor(p) /\ operand[p] \in Nat
    BY DEF Accounted, TypeOK
  <2>2. \A i \in 1..operand[p] : cmd[p].args[i] # l.at
    <3>1. \A i \in 1..operand[p] : i \in DOMAIN cmd[p].args /\ cmd[p].args[i] \in Seq(Name)
      BY <2>1, OperandsArePaths DEF AccountedFor, Path
    <3>2. \A i \in 1..operand[p] : ~IsPrefix(l.at, cmd[p].args[i])
      BY <3>1, SettingsAssumption DEF TypeOK, Setting
    <3> QED
      BY <3>1, <3>2, PrefixOfItself
  <2>3. GoneOrReported(p)'
    BY <1>1, <2>1, <2>2 DEF CreateLink, AccountedFor, GoneOrReported, Finished, Exists
  <2> QED
    BY <2>1, <2>3 DEF CreateLink, AccountedFor, InOperand
<1> QED
  BY <1>2 DEF Accounted

LEMMA NextKeepsAccount == TypeOK /\ Trodden /\ Accounted /\ [Next]_vars => Accounted'
<1> SUFFICES ASSUME TypeOK, Trodden, Accounted, [Next]_vars PROVE Accounted'
  OBVIOUS
<1>1. ASSUME NEW p \in Proc, Step(p) PROVE Accounted'
  <2> SUFFICES ASSUME NEW q \in Proc PROVE AccountedFor(q)'
    BY DEF Accounted
  <2>1. CASE q = p
    BY <1>1, <2>1, StepKeepsAccount DEF Accounted, Trodden
  <2>2. CASE q # p
    BY <1>1, <2>2, StepOfOne, WaitKeepsAccount DEF Accounted
  <2> QED
    BY <2>1, <2>2
<1>2. CASE \E q \in setting.fresh : Create(q)
  BY <1>2, CreateKeepsAccount
<1>3. CASE \E l \in setting.links : CreateLink(l)
  BY <1>3, CreateLinkKeepsAccount
<1>4. CASE UNCHANGED vars
  BY <1>4 DEF vars, Accounted, AccountedFor, GoneOrReported, Finished, InOperand
<1> QED
  BY <1>1, <1>2, <1>3, <1>4 DEF Next, Done

LEMMA InitAccounted == Init => Accounted
<1> SUFFICES ASSUME Init, NEW p \in Proc PROVE AccountedFor(p)
  BY DEF Accounted
<1>1. TypeOK /\ operand[p] = 0 /\ stack[p] = <<>> /\ ~exited[p]
  BY InitTypeOK DEF Init
<1>2. 0 <= Len(cmd[p].args)
  BY <1>1, OperandsArePaths
<1> QED
  BY <1>1, <1>2 DEF AccountedFor, GoneOrReported, Finished, InOperand

\* The inductive invariant: what rm has dealt with is gone or reported, what it
\* works on lies in its current operand.
THEOREM AccountsHold == Spec => []Accounted
<1>1. Init => Accounted
  BY InitAccounted
<1>2. TypeOK /\ Trodden /\ Accounted /\ [Next]_vars => Accounted'
  BY NextKeepsAccount
<1> QED
  BY <1>1, <1>2, TypeCorrect, TroddenHolds, PTL DEF Spec

\* An exit status of 0 means that no operand is left, for any number of
\* processes, any refused calls and whatever else is created.
THEOREM SuccessIsHonest == Spec => []SuccessMeansGone
<1>1. TypeOK /\ Accounted => SuccessMeansGone
  <2> SUFFICES ASSUME TypeOK, Accounted, NEW p \in Proc, exited[p], ret[p] = 0,
                      NEW i \in DOMAIN cmd[p].args
               PROVE  ~Exists(tree, cmd[p].args[i])
    BY DEF SuccessMeansGone
  <2>1. AccountedFor(p)
    BY DEF Accounted, TypeOK
  <2>2. i \in Finished(p)
    BY <2>1, OperandsArePaths DEF AccountedFor, Finished
  <2> QED
    BY <2>1, <2>2 DEF AccountedFor, GoneOrReported
<1> QED
  BY <1>1, TypeCorrect, AccountsHold, PTL

\* What p may remove lies at or below its operand, or below the end of a link
\* that can lead it astray.
LEMMA PlaceIsReached ==
  ASSUME TypeOK, OldLinksStay, NEW p \in Proc, AccountedFor(p), Treads(p), stack[p] # <<>>,
         NEW S \in SUBSET LinkEnds, Astray(p, S)
  PROVE  Below(Begins(p) \cup S, Place(p))
<1> DEFINE op == cmd[p].args[operand[p]]
           path == Top(p).path
           n == Len(path)
           r == Reached(tree, path)
<1>1. /\ operand[p] \in Nat /\ operand[p] \in 1..operand[p] /\ operand[p] \in DOMAIN cmd[p].args
      /\ op \in Path /\ IsPrefix(op, path) /\ op \in Begins(p)
      /\ \A l \in setting.links : l.at \in Path /\ l.to \in Path /\ ~IsPrefix(l.at, op)
  <2>1. operand[p] \in Nat /\ operand[p] \in 1..operand[p] /\ operand[p] \in DOMAIN cmd[p].args
    BY OperandsArePaths DEF TypeOK, AccountedFor, InOperand
  <2>2. IsPrefix(op, path)
    BY TopOfStack DEF AccountedFor, InOperand
  <2> QED
    BY <2>1, <2>2, OperandsArePaths, SettingsAssumption DEF TypeOK, Setting, Begins
<1>2. /\ path \in Path /\ path \in Seq(Name) /\ n \in Nat /\ LinksLead(tree)
      /\ \A i \in 1..(n - 1) : ~OldLink(SubSeq(path, 1, i))
  <2>1. TroddenAt(Top(p)) /\ path \in Path /\ LinksLead(tree)
    BY TopOfStack, Places DEF Treads
  <2> QED
    BY <2>1 DEF TroddenAt, Path
<1>3. /\ r \in [0..n -> Path] /\ r[0] = <<>>
      /\ \A i \in 1..n : r[i] = Onward(tree, r[i - 1], path[i])
  BY <1>2, ReachedIs
<1> HIDE DEF r, op, path, n
<1>4. ASSUME NEW q \in Path, IsLink(tree, q), Below(S, q) \/ (IsPrefix(op, q) /\ ~OldLink(q))
      PROVE  tree[q].to \in S
  <2>1. CASE OldLink(q)
    <3>1. IsLink(setting.tree, q) /\ setting.tree[q] = tree[q] /\ Below(S, q)
      BY <1>4, <2>1 DEF OldLinksStay
    <3> QED
      BY <3>1 DEF Astray, IsLink, Exists
  <2>2. CASE ~OldLink(q)
    <3> DEFINE l == [at |-> q, to |-> tree[q].to]
    <3>1. l \in setting.links /\ l.at = q /\ l.to = tree[q].to
      BY <1>4, <2>2 DEF OldLink
    <3>2. Below(Begins(p) \cup S, q)
      BY <1>1, <1>4, <2>2 DEF Below
    <3> QED
      BY <3>1, <3>2 DEF Astray
  <2> QED
    BY <2>1, <2>2
<1>10. \A u \in S : u \in Seq(Name)
  <2>1. setting \in Settings /\ IsTree(setting.tree)
    BY SettingsAssumption DEF TypeOK, Setting
  <2>2. \A q \in DOMAIN setting.tree : IsLink(setting.tree, q) => setting.tree[q].to \in Path
    BY <2>1 DEF IsTree
  <2> QED
    BY <1>1, <2>2 DEF LinkEnds, Path
<1> DEFINE T == {m \in Nat : m < n => r[m] = SubSeq(path, 1, m) \/ Below(S, r[m])}
<1>5. 0 \in T
  <2>1. SubSeq(path, 1, 0) = <<>>
    BY <1>2
  <2> QED
    BY <1>3, <2>1
<1>6. ASSUME NEW m \in Nat, m \in T PROVE m + 1 \in T
  <2> SUFFICES ASSUME m + 1 < n
               PROVE  r[m + 1] = SubSeq(path, 1, m + 1) \/ Below(S, r[m + 1])
    OBVIOUS
  <2> DEFINE q == Append(r[m], path[m + 1])
  <2>1. /\ m + 1 \in 1..n /\ m + 1 \in 1..(n - 1) /\ (m + 1) - 1 = m /\ m < n /\ m \in 0..n
        /\ r[m] \in Path /\ r[m] \in Seq(Name) /\ path[m + 1] \in Name
        /\ r[m + 1] = Onward(tree, r[m], path[m + 1])
    <3>1. m + 1 \in 1..n /\ m + 1 \in 1..(n - 1) /\ (m + 1) - 1 = m /\ m < n /\ m \in 0..n
      BY <1>2
    <3>2. r[m] \in Path
      BY <1>3, <3>1
    <3>3. r[m + 1] = Onward(tree, r[m], path[m + 1])
      BY <1>3, <3>1
    <3>4. path[m + 1] \in Name
      BY <1>2, <3>1 DEF n
    <3> QED
      BY <3>1, <3>2, <3>3, <3>4 DEF Path
  <2>2. q \in Path /\ r[m + 1] = IF IsLink(tree, q) THEN tree[q].to ELSE q
    BY <2>1 DEF Onward, Path
  <2>3. CASE Below(S, r[m])
    <3>1. PICK u \in S : IsPrefix(u, r[m])
      BY <2>3 DEF Below
    <3>2. u \in Seq(Name)
      BY <1>10
    <3>3. Below(S, q)
      BY <2>1, <3>1, <3>2, PrefixOfEntry DEF Below
    <3>4. IsLink(tree, q) => Below(S, tree[q].to)
      <4> SUFFICES ASSUME IsLink(tree, q) PROVE Below(S, tree[q].to)
        OBVIOUS
      <4>1. tree[q].to \in S /\ tree[q].to \in Seq(Name)
        BY <1>2, <1>4, <2>2, <3>3 DEF LinksLead, IsLink, Exists, Path
      <4> QED
        BY <4>1, PrefixOfItself DEF Below
    <3> QED
      BY <2>2, <3>3, <3>4
  <2>4. CASE r[m] = SubSeq(path, 1, m)
    <3>1. q = SubSeq(path, 1, m + 1)
      BY <1>2, <2>1, <2>4, OneMore DEF n
    <3>2. IsLink(tree, q) => Below(S, tree[q].to)
      <4> SUFFICES ASSUME IsLink(tree, q) PROVE Below(S, tree[q].to)
        OBVIOUS
      <4>1. ~OldLink(q)
        BY <1>2, <2>1, <3>1
      <4>2. ~IsPrefix(q, op)
        BY <1>1, <4>1 DEF OldLink
      <4>3. IsPrefix(q, path)
        BY <1>2, <2>1, <3>1, PartOfPath DEF n
      <4>4. IsPrefix(op, q)
        <5>1. op \in Seq(Name) /\ q \in Seq(Name) /\ IsPrefix(op, path)
          BY <1>1, <2>2 DEF Path
        <5>2. Len(op) <= Len(q) \/ Len(q) <= Len(op)
          BY <5>1
        <5> QED
          BY <1>2, <4>2, <4>3, <5>1, <5>2, PrefixesNest
      <4>5. tree[q].to \in S /\ tree[q].to \in Seq(Name)
        BY <1>2, <1>4, <2>2, <4>1, <4>4 DEF LinksLead, IsLink, Exists, Path
      <4> QED
        BY <4>5, PrefixOfItself DEF Below
    <3> QED
      BY <2>2, <3>1, <3>2
  <2> QED
    BY <1>6, <2>1, <2>3, <2>4
<1>7. Nat \subseteq T
  <2> HIDE DEF T
  <2> QED
    BY <1>5, <1>6, InductionOnSet
<1>8. CASE path = <<>>
  <2>1. Place(p) = path
    BY <1>8 DEF Place, NoFollow, path
  <2> QED
    BY <1>1, <2>1 DEF Below
<1>9. CASE path # <<>>
  <2>1. n - 1 \in Nat /\ n - 1 < n /\ (n - 1) + 1 = n /\ n - 1 \in 0..n
    BY <1>2, <1>9 DEF n
  <2>2. Place(p) = Append(r[n - 1], path[n]) /\ path[n] \in Name /\ r[n - 1] \in Seq(Name)
    <3>1. NoFollow(tree, path) = Append(r[n - 1], Last(path)) /\ Last(path) \in Name
      BY <1>2, <1>9, LastStep DEF r, n
    <3>2. Last(path) = path[n] /\ Place(p) = NoFollow(tree, path)
      BY DEF Last, n, Place, path
    <3> QED
      BY <1>3, <2>1, <3>1, <3>2 DEF Path
  <2>3. CASE r[n - 1] = SubSeq(path, 1, n - 1)
    <3>1. SubSeq(path, 1, n) = Append(SubSeq(path, 1, n - 1), path[n])
      <4>1. SubSeq(path, 1, (n - 1) + 1) = Append(SubSeq(path, 1, n - 1), path[(n - 1) + 1])
        BY <1>2, <2>1, OneMore DEF n
      <4> QED
        BY <2>1, <4>1
    <3>2. Place(p) = path
      BY <1>2, <2>2, <2>3, <3>1, SubSeqFull DEF n
    <3> QED
      BY <1>1, <3>2 DEF Below
  <2>4. CASE Below(S, r[n - 1])
    <3>1. PICK u \in S : IsPrefix(u, r[n - 1])
      BY <2>4 DEF Below
    <3>2. u \in Seq(Name)
      BY <1>10
    <3> QED
      BY <2>2, <3>1, <3>2, PrefixOfEntry DEF Below
  <2> QED
    BY <1>7, <2>1, <2>3, <2>4
<1> QED
  BY <1>8, <1>9

\* Nothing outside the operands is ever removed, but what a link made by another
\* program in the middle of the work leads to.
THEOREM OnlyOperandsRemoved == Spec => OnlyOperands
<1> DEFINE A == \A q \in DOMAIN tree \ DOMAIN tree' :
                  \E p \in Proc : \A S \in SUBSET LinkEnds :
                    Astray(p, S) => Below(Begins(p) \cup S, q)
<1>1. TypeOK /\ Trodden /\ Accounted /\ [Next]_vars => [A]_vars
  <2> SUFFICES ASSUME TypeOK, Trodden, Accounted, Next, NEW q \in DOMAIN tree \ DOMAIN tree'
               PROVE  \E p \in Proc : \A S \in SUBSET LinkEnds :
                        Astray(p, S) => Below(Begins(p) \cup S, q)
    OBVIOUS
  <2>1. ASSUME NEW p \in Proc, Step(p), NEW S \in SUBSET LinkEnds, Astray(p, S)
        PROVE  Below(Begins(p) \cup S, q)
    <3>1. tree' = Without(tree, Place(p)) /\ stack[p] # <<>>
      BY <2>1 DEF Step, NextOperand, Exit, LstatAbsent, LstatFails, LstatDir, LstatOther,
         OpendirDone, OpendirFails, ReaddirEntry, ReaddirEnd, RmdirDone, RmdirFails,
         UnlinkDone, UnlinkFails, Busy
    <3>2. q = Place(p)
      BY <3>1 DEF Without
    <3> QED
      BY <2>1, <3>1, <3>2, PlaceIsReached DEF Accounted, Trodden
  <2>2. ASSUME NEW f \in setting.fresh, Create(f) PROVE FALSE
    BY <2>2 DEF Create, With
  <2>3. ASSUME NEW l \in setting.links, CreateLink(l) PROVE FALSE
    BY <2>3 DEF CreateLink, With
  <2>4. ~UNCHANGED vars
    BY DEF vars
  <2> QED
    BY <2>1, <2>2, <2>3, <2>4 DEF Next, Done
<1> QED
  BY <1>1, TypeCorrect, TroddenHolds, AccountsHold, PTL DEF Spec, OnlyOperands

-------------------------------------------------------------------------------
(***************************************************************************)
(* Why rm -r leaves nothing: the invariant Clears.                         *)
(***************************************************************************)

\* While no other program makes a link, every activation works where its path
\* says.
LEMMA QuietIsStraight ==
  ASSUME TypeOK, Trodden, Quiet, NEW p \in Proc, stack[p] # <<>>
  PROVE  /\ Place(p) = Top(p).path
         /\ Obstructed(tree, Top(p).path) <=> ThroughFile(tree, Top(p).path)
         /\ Top(p).at \in OfDirectory => Opened(p) = Top(p).path
<1> DEFINE path == Top(p).path
<1>1. /\ path \in Path /\ path \in Seq(Name) /\ Len(path) \in Nat /\ LinksLead(tree)
      /\ TroddenAt(Top(p)) /\ \A q : IsLink(tree, q) => OldLink(q)
  BY Places, TopOfStack DEF Path, Trodden, Treads, Quiet, OldLink
<1>2. ~ThroughLink(tree, path)
  <2> SUFFICES ASSUME NEW i \in 1..(Len(path) - 1) PROVE ~IsLink(tree, SubSeq(path, 1, i))
    BY DEF ThroughLink
  <2>1. i \in 1..Len(path) /\ i < Len(path)
    BY <1>1
  <2> QED
    BY <1>1, <2>1 DEF TroddenAt
<1>3. Top(p).at \in OfDirectory => ~IsLink(tree, path)
  <2> SUFFICES ASSUME Top(p).at \in OfDirectory PROVE ~IsLink(tree, path)
    OBVIOUS
  <2>1. CASE path = <<>>
    BY <2>1 DEF TypeOK, IsTree, IsDir, IsLink
  <2>2. CASE path # <<>>
    <3>1. Len(path) \in 1..Len(path) /\ SubSeq(path, 1, Len(path)) = path
      BY <1>1, <2>2, SubSeqFull
    <3> QED
      BY <1>1, <3>1 DEF TroddenAt
  <2> QED
    BY <2>1, <2>2
<1> QED
  BY <1>1, <1>2, <1>3, StraightPath DEF Place, Opened

\* What is seen of a path while entries are removed.
LEMMA SeenWhileShrinking ==
  ASSUME NEW t, NEW u, ShrinksTo(t, u), NEW path
  PROVE  /\ Exists(u, path) => Exists(t, path)
         /\ IsDir(t, path) /\ Exists(u, path) => IsDir(u, path)
         /\ ~IsDir(t, path) => ~IsDir(u, path)
         /\ Entries(u, path) \subseteq Entries(t, path)
  BY DEF ShrinksTo, Exists, IsDir, Entries

\* What an activation knows it still knows when entries are removed and the
\* activations above it change, as long as the one it called stays.
LEMMA StillKnows ==
  ASSUME NEW s, NEW r, NEW k \in Nat, NEW t, NEW u, KnowsAt(s, k, t), ShrinksTo(t, u),
         r[k] = s[k], k < Len(s) => k < Len(r) /\ r[k + 1].path = s[k + 1].path
  PROVE  KnowsAt(r, k, u)
  BY SeenWhileShrinking DEF KnowsAt

LEMMA StillDescends ==
  ASSUME NEW s, NEW r, NEW k \in Nat, NEW rec, DescendsAt(s, k, rec),
         r[k] = s[k], r[1].path = s[1].path,
         k < Len(r) => k < Len(s) /\ r[k + 1].path = s[k + 1].path
  PROVE  DescendsAt(r, k, rec)
  BY DEF DescendsAt

\* A process that does not move, while others remove entries.
LEMMA WaitKeepsClear ==
  ASSUME TypeOK, NEW q \in Proc, ClearsFor(q), ShrinksTo(tree, tree'), setting' = setting,
         operand'[q] = operand[q], stack'[q] = stack[q]
  PROVE  ClearsFor(q)'
<1>1. Descends(q)'
  BY DEF ClearsFor, Descends
<1>2. Knows(q)'
  <2> SUFFICES ASSUME NEW k \in 1..Len(stack[q]) PROVE KnowsAt(stack[q], k, tree')
    BY DEF Knows
  <2>1. KnowsAt(stack[q], k, tree) /\ k \in Nat
    BY DEF ClearsFor, Knows
  <2> QED
    BY <2>1, StillKnows, Zenon
<1>3. cmd[q].recursive => \A i \in Finished(q)' : Emptied(cmd[q].args[i])'
  BY DEF ClearsFor, Finished, Emptied, ShrinksTo
<1> QED
  BY <1>1, <1>2, <1>3 DEF ClearsFor

\* A return of rm(): with -r there is nothing left to be removed.
LEMMA PopKeepsClear ==
  ASSUME TypeOK, TypeOK', NEW p \in Proc, AccountedFor(p), ClearsFor(p), stack[p] # <<>>,
         stack' = [stack EXCEPT ![p] = Front(stack[p])],
         ShrinksTo(tree, tree'), operand' = operand, setting' = setting,
         cmd[p].recursive => \/ ~Exists(tree', Top(p).path)
                             \/ Top(p).path = <<>> /\ Entries(tree', Top(p).path) = {}
  PROVE  ClearsFor(p)'
<1> DEFINE s == stack[p]
           f == Front(stack[p])
<1>1. /\ stack'[p] = f
      /\ Len(s) \in Nat /\ Len(s) >= 1
      /\ f \in Seq(Activation) /\ Len(f) = Len(s) - 1
      /\ \A i \in 1..(Len(s) - 1) : f[i] = s[i]
      /\ s[Len(s)] = Top(p) /\ Top(p) \in Activation
  <2>1. stack'[p] = f
    BY DEF TypeOK
  <2> QED
    BY <2>1, TopOfStack
<1> HIDE DEF f
<1>2. Descends(p)'
  <2> SUFFICES ASSUME NEW k \in 1..Len(f) PROVE DescendsAt(f, k, cmd[p].recursive)
    BY <1>1 DEF Descends
  <2>1. k \in 1..Len(s) /\ f[k] = s[k] /\ f[1] = s[1]
    BY <1>1
  <2>2. k < Len(f) => k < Len(s) /\ f[k + 1] = s[k + 1]
    BY <1>1
  <2>3. DescendsAt(s, k, cmd[p].recursive)
    BY <2>1 DEF ClearsFor, Descends
  <2> QED
    BY <2>1, <2>2, <2>3, StillDescends
<1>3. Knows(p)'
  <2> SUFFICES ASSUME NEW k \in 1..Len(f) PROVE KnowsAt(f, k, tree')
    BY <1>1 DEF Knows
  <2>1. k \in 1..Len(s) /\ k < Len(s) /\ f[k] = s[k] /\ s[k] \in Activation
    BY <1>1
  <2>2. KnowsAt(s, k, tree) /\ DescendsAt(s, k, cmd[p].recursive)
    BY <2>1 DEF ClearsFor, Knows, Descends
  <2>3. CASE k < Len(f)
    <3>1. k < Len(s) => k < Len(f) /\ f[k + 1].path = s[k + 1].path
      BY <1>1, <2>3
    <3> QED
      BY <2>1, <2>2, <3>1, StillKnows
  <2>4. CASE k = Len(f)
    <3>1. s[k + 1] = Top(p)
      BY <1>1, <2>4
    <3>2. KnowsAt(s, k, tree')
      BY <2>2, StillKnows
    <3>3. s[k].at = "readdir" => s[k].seen \cap Entries(tree', s[k].path) = {}
      <4> SUFFICES ASSUME s[k].at = "readdir", NEW n \in s[k].seen \cap Entries(tree', s[k].path)
                   PROVE  FALSE
        OBVIOUS
      <4>1. Top(p).path = Append(s[k].path, n)
        BY <3>1, <3>2 DEF KnowsAt
      <4>2. Exists(tree', Top(p).path) /\ n \in Name
        BY <4>1 DEF Entries
      <4>3. cmd[p].recursive
        BY <2>2 DEF DescendsAt, OfDirectory
      <4>4. s[k].path \in Seq(Name)
        BY <2>1 DEF Activation, Path
      <4>5. Append(s[k].path, n) # <<>>
        BY <4>2, <4>4
      <4> QED
        BY <4>1, <4>2, <4>3, <4>5
    <3> QED
      BY <2>1, <3>2, <3>3 DEF KnowsAt
  <2> QED
    BY <1>1, <2>3, <2>4
<1>4. ASSUME cmd[p].recursive, NEW i \in Finished(p)'
      PROVE  Emptied(cmd[p].args[i])'
  <2>1. i \in 1..operand[p] /\ (i < operand[p] \/ f = <<>>)
    BY <1>1, <1>4 DEF Finished
  <2>2. CASE i < operand[p]
    BY <1>4, <2>1, <2>2 DEF ClearsFor, Finished, Emptied, ShrinksTo
  <2>3. CASE i = operand[p] /\ f = <<>>
    <3>1. Len(s) = 1
      BY <1>1, <2>3
    <3>2. Top(p).path = cmd[p].args[i]
      BY <1>1, <2>3, <3>1 DEF AccountedFor, InOperand
    <3>3. Top(p).path \in Path /\ IsTree(tree')
      BY <1>1 DEF Activation, TypeOK
    <3>4. \/ ~Exists(tree', Top(p).path)
          \/ Top(p).path = <<>> /\ Entries(tree', Top(p).path) = {}
      BY <1>4
    <3>5. \A q \in DOMAIN tree' : IsPrefix(Top(p).path, q) => q = <<>>
      BY <3>3, <3>4, GoneWithAllBelow, EmptyHasNothingBelow
    <3> QED
      BY <3>2, <3>5 DEF Emptied
  <2> QED
    BY <2>1, <2>2, <2>3 DEF TypeOK
<1>5. (cmd[p].recursive)' <=> cmd[p].recursive
  OBVIOUS
<1> QED
  BY <1>2, <1>3, <1>4, <1>5 DEF ClearsFor

\* A further call of the same activation, which knows what that call needs.
LEMMA GoOnKeepsClear ==
  ASSUME TypeOK, NEW p \in Proc, ClearsFor(p), stack[p] # <<>>,
         NEW act \in Activation, act.path = Top(p).path, GoOn(p, act),
         UNCHANGED <<tree, setting, operand>>,
         act.at \in OfDirectory => cmd[p].recursive,
         act.at # "readdir" => act.seen = {},
         Exists(tree, act.path) => /\ act.at \in OfDirectory => IsDir(tree, act.path)
                                   /\ act.at = "unlink" => ~IsDir(tree, act.path),
         act.at = "readdir" => /\ act.dir = act.path
                               /\ Entries(tree, act.path) \subseteq act.snap
                               /\ act.seen \cap Entries(tree, act.path) = {},
         act.at = "rmdir" => Entries(tree, act.path) = {}
  PROVE  ClearsFor(p)'
<1> DEFINE s == stack[p]
           new == Append(Front(stack[p]), act)
<1>1. /\ stack'[p] = new
      /\ Len(s) \in Nat /\ Len(s) >= 1 /\ Len(new) = Len(s) /\ new # <<>>
      /\ \A i \in 1..(Len(s) - 1) : new[i] = s[i]
      /\ new[Len(s)] = act
      /\ s[Len(s)] = Top(p)
  <2>1. stack'[p] = new
    BY DEF TypeOK, GoOn
  <2> QED
    BY <2>1, TopOfStack, StackAfter
<1> HIDE DEF new
<1>2. \A i \in 1..Len(s) : new[i].path = s[i].path
  BY <1>1
<1>3. Descends(p)'
  <2> SUFFICES ASSUME NEW k \in 1..Len(s) PROVE DescendsAt(new, k, cmd[p].recursive)
    BY <1>1 DEF Descends
  <2>1. DescendsAt(s, k, cmd[p].recursive)
    BY DEF ClearsFor, Descends
  <2>2. CASE k < Len(s)
    <3>1. new[k] = s[k] /\ new[k + 1].path = s[k + 1].path /\ new[1].path = s[1].path
      BY <1>1, <1>2, <2>2
    <3>2. k \in Nat /\ k < Len(s)
      BY <2>2
    <3>3. k < Len(new) => k < Len(s) /\ new[k + 1].path = s[k + 1].path
      BY <3>1, <3>2
    <3> HIDE DEF s
    <3> QED
      BY <2>1, <3>1, <3>2, <3>3, StillDescends
  <2>3. CASE k = Len(s)
    <3>1. new[k] = act /\ act.path = s[k].path /\ new[1].path = s[1].path
      BY <1>1, <1>2, <2>3
    <3>2. /\ Len(act.path) = Len(new[1].path) + k - 1
          /\ ~(k < Len(new))
      BY <1>1, <2>1, <2>3, <3>1 DEF DescendsAt
    <3> QED
      BY <3>1, <3>2 DEF DescendsAt
  <2> QED
    BY <1>1, <2>2, <2>3
<1>4. Knows(p)'
  <2> SUFFICES ASSUME NEW k \in 1..Len(s) PROVE KnowsAt(new, k, tree)
    BY <1>1 DEF Knows
  <2>1. CASE k < Len(s)
    <3>1. new[k] = s[k] /\ new[k + 1].path = s[k + 1].path
      BY <1>1, <1>2, <2>1
    <3>2. KnowsAt(s, k, tree) /\ ShrinksTo(tree, tree)
      BY DEF ClearsFor, Knows, ShrinksTo
    <3> QED
      BY <1>1, <2>1, <3>1, <3>2, StillKnows
  <2>2. CASE k = Len(s)
    BY <1>1, <2>2 DEF KnowsAt
  <2> QED
    BY <1>1, <2>1, <2>2
<1>5. cmd[p].recursive => \A i \in Finished(p)' : Emptied(cmd[p].args[i])'
  BY <1>1 DEF ClearsFor, Finished, Emptied
<1> QED
  BY <1>3, <1>4, <1>5 DEF ClearsFor

\* The call of rm() for an entry that was read.
LEMMA DescendKeepsClear ==
  ASSUME TypeOK, NEW p \in Proc, ClearsFor(p), Busy(p, "readdir"),
         NEW n \in Readable(tree, Top(p).dir, Top(p)), n \notin Ignored,
         Top(p).dir = Top(p).path, NEW act, act = [Top(p) EXCEPT !.seen = @ \cup {n}],
         NEW call, call = Call(FullName(Top(p).path, n)),
         stack' = [stack EXCEPT ![p] = Append(Append(Front(stack[p]), act), call)],
         UNCHANGED <<tree, setting, operand>>
  PROVE  ClearsFor(p)'
<1> DEFINE s   == stack[p]
           new == Append(Append(Front(stack[p]), act), call)
<1>0. stack[p] # <<>> /\ Top(p).at = "readdir"
  BY DEF Busy, Top
<1>1. /\ act \in Activation /\ act.path = Top(p).path /\ act.at = "readdir"
      /\ act.dir = act.path
      /\ act.snap = Top(p).snap /\ n \in act.seen /\ act.seen = Top(p).seen \cup {n}
      /\ n \in Name
      /\ call \in Activation /\ call.at = "lstat" /\ call.seen = {}
      /\ call.path = Append(Top(p).path, n) /\ Len(call.path) = Len(Top(p).path) + 1
  <2>1. Top(p) \in Activation
    BY <1>0, TopOfStack
  <2>2. /\ act \in Activation /\ n \in Name /\ FullName(Top(p).path, n) \in Path
        /\ FullName(Top(p).path, n) = Append(Top(p).path, n)
    BY <2>1, NamesRead
  <2>3. /\ call \in Activation /\ call.at = "lstat" /\ call.seen = {}
        /\ call.path = Append(Top(p).path, n)
    BY <2>2, CallIsActivation DEF Call
  <2>4. Len(call.path) = Len(Top(p).path) + 1
    BY <2>1, <2>2, <2>3 DEF Activation, Path
  <2> QED
    BY <1>0, <2>1, <2>2, <2>3, <2>4 DEF Activation
<1>2. /\ stack'[p] = new
      /\ Len(s) \in Nat /\ Len(s) >= 1 /\ Len(new) = Len(s) + 1 /\ new # <<>>
      /\ \A i \in 1..(Len(s) - 1) : new[i] = s[i]
      /\ new[Len(s)] = act /\ new[Len(s) + 1] = call
      /\ s[Len(s)] = Top(p)
  <2>1. stack'[p] = new
    BY DEF TypeOK
  <2> QED
    BY <1>0, <1>1, <2>1, TopOfStack, StackAfter
<1> HIDE DEF new
<1>3. ASSUME NEW i \in 1..Len(s) PROVE new[i].path = s[i].path
  <2>1. CASE i = Len(s)
    BY <1>1, <1>2, <2>1
  <2>2. CASE i # Len(s)
    <3>1. i \in 1..(Len(s) - 1)
      BY <1>2, <2>2
    <3> QED
      BY <1>2, <3>1
  <2> QED
    BY <2>1, <2>2
<1>4. 1 \in 1..Len(s) /\ Len(s) \in 1..Len(s)
  BY <1>2
<1>5. Descends(p)'
  <2> SUFFICES ASSUME NEW k \in 1..Len(new) PROVE DescendsAt(new, k, cmd[p].recursive)
    BY <1>2 DEF Descends
  <2>1. DescendsAt(s, Len(s), cmd[p].recursive) /\ cmd[p].recursive
    BY <1>0, <1>2, <1>4 DEF ClearsFor, Descends, DescendsAt, OfDirectory
  <2>2. CASE k < Len(s)
    <3>1. DescendsAt(s, k, cmd[p].recursive)
      BY <2>2 DEF ClearsFor, Descends
    <3>2. k \in 1..(Len(s) - 1) /\ k + 1 \in 1..Len(s) /\ k \in Nat
      BY <1>2, <2>2
    <3>3. new[k] = s[k] /\ new[k + 1].path = s[k + 1].path /\ new[1].path = s[1].path
      BY <1>2, <1>3, <1>4, <3>2
    <3> QED
      BY <2>2, <3>1, <3>2, <3>3, StillDescends, Zenon
  <2>3. CASE k = Len(s)
    <3>1. new[k] = act /\ new[1].path = s[1].path /\ new[k + 1] = call
      BY <1>2, <1>3, <1>4, <2>3
    <3>2. Len(act.path) = Len(s[1].path) + k - 1
      BY <1>1, <1>2, <2>1, <2>3 DEF DescendsAt
    <3> QED
      BY <1>1, <2>1, <3>1, <3>2 DEF DescendsAt
  <2>4. CASE k = Len(s) + 1
    <3>1. new[k] = call /\ new[1].path = s[1].path /\ ~(k < Len(new))
      BY <1>2, <1>3, <1>4, <2>4
    <3>2. Len(Top(p).path) = Len(s[1].path) + Len(s) - 1
      BY <1>2, <2>1 DEF DescendsAt
    <3>3. Len(call.path) = Len(s[1].path) + k - 1
      <4>1. Len(s[1].path) \in Nat
        <5>1. s[1] \in Activation
          BY <1>4 DEF TypeOK
        <5> QED
          BY <5>1 DEF Activation, Path
      <4> QED
        BY <1>1, <1>2, <2>4, <3>2, <4>1
    <3> QED
      BY <1>1, <3>1, <3>3 DEF DescendsAt, OfDirectory
  <2> QED
    BY <1>2, <2>2, <2>3, <2>4
<1>6. Knows(p)'
  <2> SUFFICES ASSUME NEW k \in 1..Len(new) PROVE KnowsAt(new, k, tree)
    BY <1>2 DEF Knows
  <2>1. KnowsAt(s, Len(s), tree)
    BY <1>4 DEF ClearsFor, Knows
  <2>2. CASE k < Len(s)
    <3>1. new[k] = s[k] /\ new[k + 1].path = s[k + 1].path /\ k < Len(new)
      <4>1. k \in 1..(Len(s) - 1) /\ k + 1 \in 1..Len(s)
        BY <1>2, <2>2
      <4> QED
        BY <1>2, <1>3, <2>2, <4>1
    <3>2. KnowsAt(s, k, tree) /\ ShrinksTo(tree, tree)
      BY <2>2 DEF ClearsFor, Knows, ShrinksTo
    <3>3. k \in Nat
      BY <2>2
    <3> QED
      BY <3>1, <3>2, <3>3, StillKnows, Zenon
  <2>3. CASE k = Len(s)
    <3>1. /\ Exists(tree, Top(p).path) => IsDir(tree, Top(p).path)
          /\ Entries(tree, Top(p).path) \subseteq Top(p).snap
          /\ Top(p).seen \cap Entries(tree, Top(p).path) = {}
      BY <1>0, <1>2, <2>1 DEF KnowsAt, OfDirectory
    <3>2. new[k] = act /\ new[k + 1].path = Append(act.path, n) /\ k < Len(new)
      BY <1>1, <1>2, <2>3
    <3>3. act.seen \cap Entries(tree, act.path) \subseteq {n}
      BY <1>1, <3>1
    <3> QED
      BY <1>1, <3>1, <3>2, <3>3 DEF KnowsAt
  <2>4. CASE k = Len(s) + 1
    BY <1>1, <1>2, <2>4 DEF KnowsAt, OfDirectory
  <2> QED
    BY <1>2, <2>2, <2>3, <2>4
<1>7. cmd[p].recursive => \A i \in Finished(p)' : Emptied(cmd[p].args[i])'
  BY <1>0, <1>2 DEF ClearsFor, Finished, Emptied
<1> QED
  BY <1>5, <1>6, <1>7 DEF ClearsFor

\* On a quiet system every step of rm -r keeps its own knowledge.
LEMMA StepKeepsClear ==
  ASSUME TypeOK, TypeOK', Trodden, NEW p \in Proc, AccountedFor(p), ClearsFor(p), Quiet, Step(p)
  PROVE  ClearsFor(p)'
<1>0. ShrinksTo(tree, tree')
  BY StepShrinks
<1>1. stack[p] # <<>> =>
        /\ Top(p) \in Activation /\ Top(p).path \in Path
        /\ Top(p).at \in OfDirectory => cmd[p].recursive
        /\ Top(p).at # "readdir" => Top(p).seen = {}
        /\ KnowsAt(stack[p], Len(stack[p]), tree)
        /\ stack[p][Len(stack[p])] = Top(p)
  <2> SUFFICES ASSUME stack[p] # <<>>
               PROVE  /\ Top(p) \in Activation /\ Top(p).path \in Path
                      /\ Top(p).at \in OfDirectory => cmd[p].recursive
                      /\ Top(p).at # "readdir" => Top(p).seen = {}
                      /\ KnowsAt(stack[p], Len(stack[p]), tree)
                      /\ stack[p][Len(stack[p])] = Top(p)
    OBVIOUS
  <2>1. /\ Len(stack[p]) \in 1..Len(stack[p]) /\ Top(p) \in Activation
        /\ stack[p][Len(stack[p])] = Top(p)
    BY TopOfStack
  <2>2. /\ DescendsAt(stack[p], Len(stack[p]), cmd[p].recursive)
        /\ KnowsAt(stack[p], Len(stack[p]), tree)
    BY <2>1 DEF ClearsFor, Descends, Knows
  <2> QED
    BY <2>1, <2>2 DEF DescendsAt, Activation
<1>2. IsTree(tree)
  BY DEF TypeOK
<1>17. stack[p] # <<>> =>
         /\ Place(p) = Top(p).path
         /\ Obstructed(tree, Top(p).path) <=> ThroughFile(tree, Top(p).path)
         /\ Top(p).at \in OfDirectory => Opened(p) = Top(p).path
         /\ Top(p).at = "readdir" => Top(p).dir = Top(p).path
  BY <1>1, QuietIsStraight DEF KnowsAt
<1>3. CASE NextOperand(p)
  <2> DEFINE path == cmd[p].args[operand[p] + 1]
             new  == <<Call(path)>>
  <2>1. operand[p] \in Nat /\ stack[p] = <<>>
    BY <1>3 DEF TypeOK, NextOperand
  <2>2. path \in Path /\ Call(path) \in Activation
    BY <1>3, <2>1, OperandsArePaths, CallIsActivation DEF NextOperand
  <2>3. stack'[p] = new /\ operand'[p] = operand[p] + 1 /\ tree' = tree /\ setting' = setting
    BY <1>3 DEF NextOperand, TypeOK
  <2>4. Len(new) = 1 /\ new[1] = Call(path) /\ new # <<>>
    OBVIOUS
  <2> HIDE DEF new, path
  <2>8. /\ Call(path).path = path /\ Len(path) \in Nat
        /\ Call(path).at = "lstat" /\ Call(path).seen = {}
    BY <2>2 DEF Call, Path
  <2>5. DescendsAt(new, 1, cmd[p].recursive) /\ KnowsAt(new, 1, tree)
    BY <2>4, <2>8 DEF DescendsAt, KnowsAt, OfDirectory
  <2>6. Descends(p)' /\ Knows(p)'
    BY <2>3, <2>4, <2>5 DEF Descends, Knows
  <2>7. cmd[p].recursive => \A i \in Finished(p)' : Emptied(cmd[p].args[i])'
    <3>1. Finished(p)' = Finished(p)
      BY <2>1, <2>3, <2>4 DEF Finished
    <3> QED
      BY <2>3, <3>1 DEF ClearsFor, Emptied
  <2> QED
    BY <2>3, <2>6, <2>7 DEF ClearsFor
<1>4. CASE Exit(p)
  BY <1>0, <1>4, WaitKeepsClear DEF Exit
<1>5. CASE LstatAbsent(p)
  BY <1>0, <1>5, <1>17, PopKeepsClear DEF LstatAbsent, Busy, Return, Fail
<1>6. CASE LstatFails(p)
  <2>1. ~Exists(tree, Top(p).path)
    BY <1>2, <1>6, <1>17, ThroughFileIsGone DEF LstatFails, Busy, Quiet, Refused
  <2> QED
    BY <1>0, <1>6, <2>1, PopKeepsClear DEF LstatFails, Busy, Fail
<1>7. CASE LstatDir(p)
  <2>1. stack[p] # <<>> /\ Top(p).at = "lstat"
    BY <1>7 DEF LstatDir, Busy, Top
  <2>2. CASE cmd[p].recursive
    <3> DEFINE act == [Top(p) EXCEPT !.at = "opendir"]
    <3>1. /\ act \in Activation /\ act.path = Top(p).path /\ act.at = "opendir"
          /\ act.seen = Top(p).seen
      BY <1>1, <2>1 DEF Activation, Calls
    <3>2. GoOn(p, act) /\ UNCHANGED <<tree, setting, operand>> /\ IsDir(tree, act.path)
      BY <1>7, <1>17, <2>1, <2>2, <3>1 DEF LstatDir
    <3> HIDE DEF act
    <3> QED
      BY <1>1, <2>1, <2>2, <3>1, <3>2, GoOnKeepsClear
  <2>3. CASE ~cmd[p].recursive
    BY <1>0, <1>7, <2>1, <2>3, PopKeepsClear DEF LstatDir, Fail
  <2> QED
    BY <2>2, <2>3
<1>8. CASE LstatOther(p)
  <2>1. stack[p] # <<>> /\ Top(p).at = "lstat"
    BY <1>8 DEF LstatOther, Busy, Top
  <2> DEFINE act == [Top(p) EXCEPT !.at = "unlink"]
  <2>2. /\ act \in Activation /\ act.path = Top(p).path /\ act.at = "unlink"
        /\ act.seen = Top(p).seen
    BY <1>1, <2>1 DEF Activation, Calls
  <2>3. GoOn(p, act) /\ UNCHANGED <<tree, setting, operand>> /\ ~IsDir(tree, act.path)
    BY <1>8, <1>17, <2>1, <2>2 DEF LstatOther
  <2> HIDE DEF act
  <2> QED
    BY <1>1, <2>1, <2>2, <2>3, GoOnKeepsClear DEF OfDirectory
<1>9. CASE OpendirDone(p)
  <2>1. stack[p] # <<>> /\ Top(p).at = "opendir"
    BY <1>9 DEF OpendirDone, Busy, Top
  <2> DEFINE act == [Top(p) EXCEPT !.at = "readdir", !.dir = Opened(p),
                            !.snap = Entries(tree, Opened(p)) \cup Dots]
  <2>2. /\ act \in Activation /\ act.path = Top(p).path /\ act.at = "readdir"
        /\ act.seen = {} /\ Entries(tree, act.path) \subseteq act.snap /\ act.dir = act.path
    BY <1>1, <1>17, <2>1 DEF Activation, Entries, OfDirectory
  <2>3. GoOn(p, act) /\ UNCHANGED <<tree, setting, operand>> /\ IsDir(tree, act.path)
    BY <1>9, <1>17, <2>1, <2>2 DEF OpendirDone, OfDirectory
  <2>4. cmd[p].recursive
    BY <1>1, <2>1 DEF OfDirectory
  <2> HIDE DEF act
  <2> QED
    BY <2>1, <2>2, <2>3, <2>4, GoOnKeepsClear
<1>10. CASE OpendirFails(p)
  <2>1. stack[p] # <<>> /\ Top(p).at = "opendir" /\ ~IsDir(tree, Top(p).path)
    BY <1>10, <1>17 DEF OpendirFails, Busy, Top, Quiet, Refused, OfDirectory
  <2>2. ~Exists(tree, Top(p).path)
    BY <1>1, <2>1 DEF KnowsAt, OfDirectory
  <2> QED
    BY <1>0, <1>10, <2>1, <2>2, PopKeepsClear DEF OpendirFails, Fail
<1>11. CASE ReaddirEntry(p)
  <2>1. stack[p] # <<>> /\ Busy(p, "readdir") /\ Top(p).at = "readdir"
    BY <1>11 DEF ReaddirEntry, Busy, Top
  <2>2. PICK n \in Readable(tree, Top(p).dir, Top(p)) :
          LET read == Append(Front(stack[p]), [Top(p) EXCEPT !.seen = @ \cup {n}])
          IN  stack' = [stack EXCEPT ![p] =
                IF n \in Ignored THEN read
                                 ELSE Append(read, Call(FullName(Top(p).path, n)))]
    BY <1>11 DEF ReaddirEntry
  <2>3. UNCHANGED <<tree, setting, operand>>
    BY <1>11 DEF ReaddirEntry
  <2>4. CASE n \in Ignored
    <3> DEFINE act == [Top(p) EXCEPT !.seen = @ \cup {n}]
    <3>1. /\ act \in Activation /\ act.path = Top(p).path /\ act.at = "readdir"
          /\ act.snap = Top(p).snap /\ act.seen = Top(p).seen \cup {n} /\ act.dir = act.path
      BY <1>1, <1>17, <2>1, NamesRead DEF Activation
    <3>2. GoOn(p, act)
      BY <2>2, <2>4 DEF GoOn
    <3>3. /\ Exists(tree, Top(p).path) => IsDir(tree, Top(p).path)
          /\ Entries(tree, Top(p).path) \subseteq Top(p).snap
          /\ Top(p).seen \cap Entries(tree, Top(p).path) = {}
      <4>1. ~(Len(stack[p]) < Len(stack[p]))
        BY <2>1, TopOfStack
      <4> QED
        BY <1>1, <2>1, <4>1 DEF KnowsAt, OfDirectory
    <3>4. n \notin Entries(tree, Top(p).path)
      BY <2>4, NameAssumption DEF Ignored, Dots, Entries
    <3>5. cmd[p].recursive
      BY <1>1, <2>1 DEF OfDirectory
    <3> HIDE DEF act
    <3>6. act.seen \cap Entries(tree, act.path) = {}
      BY <3>1, <3>3, <3>4
    <3> QED
      BY <2>1, <2>3, <3>1, <3>2, <3>3, <3>5, <3>6, GoOnKeepsClear
  <2>5. CASE n \notin Ignored
    BY <1>17, <2>1, <2>2, <2>3, <2>5, DescendKeepsClear
  <2> QED
    BY <2>4, <2>5
<1>12. CASE ReaddirEnd(p)
  <2>1. stack[p] # <<>> /\ Top(p).at = "readdir"
    BY <1>12 DEF ReaddirEnd, Busy, Top
  <2> DEFINE act == [Top(p) EXCEPT !.at = "rmdir", !.dir = <<>>, !.snap = {}, !.seen = {}]
  <2>2. /\ act \in Activation /\ act.path = Top(p).path /\ act.at = "rmdir" /\ act.seen = {}
    BY <1>1, <2>1, RootIsPath DEF Activation, Calls
  <2>3. GoOn(p, act) /\ UNCHANGED <<tree, setting, operand>>
    BY <1>12 DEF ReaddirEnd
  <2>4. /\ Exists(tree, Top(p).path) => IsDir(tree, Top(p).path)
        /\ Entries(tree, Top(p).path) \subseteq Top(p).snap
        /\ Top(p).seen \cap Entries(tree, Top(p).path) = {}
    <3>1. ~(Len(stack[p]) < Len(stack[p]))
      BY <2>1, TopOfStack
    <3> QED
      BY <1>1, <2>1, <3>1 DEF KnowsAt, OfDirectory
  <2>5. Entries(tree, Top(p).path) = {}
    BY <1>12, <1>17, <2>1, <2>4 DEF ReaddirEnd, Pending, Readable
  <2>6. cmd[p].recursive
    BY <1>1, <2>1 DEF OfDirectory
  <2> HIDE DEF act
  <2> QED
    BY <2>1, <2>2, <2>3, <2>4, <2>5, <2>6, GoOnKeepsClear
<1>13. CASE RmdirDone(p)
  <2>1. ~Exists(tree', Top(p).path)
    BY <1>13, <1>17 DEF RmdirDone, Busy, Without, Exists
  <2> QED
    BY <1>0, <1>13, <2>1, PopKeepsClear DEF RmdirDone, Busy, Return
<1>14. CASE RmdirFails(p)
  <2>1. stack[p] # <<>> /\ Top(p).at = "rmdir" /\ ~CanRmdir(tree, Top(p).path)
    BY <1>14, <1>17 DEF RmdirFails, Busy, Top, Quiet, Refused
  <2>2. Entries(tree, Top(p).path) = {} /\ (Exists(tree, Top(p).path) => Top(p).path = <<>>)
    BY <1>1, <2>1 DEF KnowsAt, OfDirectory, CanRmdir
  <2> QED
    BY <1>0, <1>14, <2>1, <2>2, PopKeepsClear DEF RmdirFails, Fail
<1>15. CASE UnlinkDone(p)
  <2>1. ~Exists(tree', Top(p).path)
    BY <1>15, <1>17 DEF UnlinkDone, Busy, Without, Exists
  <2> QED
    BY <1>0, <1>15, <2>1, PopKeepsClear DEF UnlinkDone, Busy, Return
<1>16. CASE UnlinkFails(p)
  <2>1. stack[p] # <<>> /\ Top(p).at = "unlink" /\ ~CanUnlink(tree, Top(p).path)
    BY <1>16, <1>17 DEF UnlinkFails, Busy, Top, Quiet, Refused
  <2>2. ~Exists(tree, Top(p).path)
    BY <1>1, <2>1 DEF KnowsAt, CanUnlink
  <2> QED
    BY <1>0, <1>16, <2>1, <2>2, PopKeepsClear DEF UnlinkFails, Fail
<1> QED
  BY <1>3, <1>4, <1>5, <1>6, <1>7, <1>8, <1>9, <1>10, <1>11, <1>12, <1>13, <1>14,
     <1>15, <1>16 DEF Step

\* No other program makes an entry while the system is quiet.
LEMMA NextKeepsClear ==
  TypeOK /\ TypeOK' /\ Trodden /\ Accounted /\ Clears /\ [Next]_vars => Clears'
<1> SUFFICES ASSUME TypeOK, TypeOK', Trodden, Accounted, Clears, [Next]_vars, Quiet', NEW q \in Proc
             PROVE  ClearsFor(q)'
  BY DEF Clears
<1>1. CASE \E p \in Proc : Step(p)
  <2>1. PICK p \in Proc : Step(p)
    BY <1>1
  <2>2. setting' = setting /\ ShrinksTo(tree, tree') /\ Quiet
    BY <2>1, StepOfOne, StepShrinks DEF Quiet
  <2>3. CASE q = p
    BY <2>1, <2>2, <2>3, StepKeepsClear DEF Clears, Accounted
  <2>4. CASE q # p
    BY <2>1, <2>2, <2>4, StepOfOne, WaitKeepsClear DEF Clears
  <2> QED
    BY <2>3, <2>4
<1>2. CASE \E f \in setting.fresh : Create(f)
  BY <1>2 DEF Create, Quiet
<1>3. CASE \E l \in setting.links : CreateLink(l)
  BY <1>3 DEF CreateLink, Quiet
<1>4. CASE UNCHANGED vars
  <2>1. ShrinksTo(tree, tree') /\ Quiet
    BY <1>4 DEF vars, ShrinksTo, Quiet
  <2> QED
    BY <1>4, <2>1, WaitKeepsClear DEF vars, Clears
<1> QED
  BY <1>1, <1>2, <1>3, <1>4 DEF Next, Done

LEMMA InitClears == Init => Clears
<1> SUFFICES ASSUME Init, NEW p \in Proc PROVE ClearsFor(p)
  BY DEF Clears
<1>1. stack[p] = <<>> /\ operand[p] = 0
  BY DEF Init
<1> QED
  BY <1>1 DEF ClearsFor, Descends, Knows, Finished

\* The inductive invariant: what every activation has seen of its directory
\* stays true whatever other processes remove.
THEOREM ClearsHold == Spec => []Clears
<1>1. TypeOK /\ TypeOK' /\ Trodden /\ Accounted /\ Clears /\ [Next]_vars => Clears'
  BY NextKeepsClear
<1> QED
  BY <1>1, InitClears, TypeCorrect, TroddenHolds, AccountsHold, PTL DEF Spec

\* With nothing created and no call refused, rm -r leaves nothing at or below
\* any operand, for any trees, operands and number of processes.
THEOREM RecursiveRemoves == Spec => []RecursiveRemovesAll
<1>1. TypeOK /\ Accounted /\ Clears => RecursiveRemovesAll
  <2> SUFFICES ASSUME TypeOK, Accounted, Clears, Quiet,
                      NEW p \in Proc, exited[p], cmd[p].recursive,
                      NEW i \in DOMAIN cmd[p].args
               PROVE  Emptied(cmd[p].args[i])
    BY DEF RecursiveRemovesAll
  <2>1. i \in Finished(p)
    BY OperandsArePaths DEF Accounted, AccountedFor, Finished
  <2> QED
    BY <2>1 DEF Clears, ClearsFor
<1> QED
  BY <1>1, TypeCorrect, AccountsHold, ClearsHold, PTL

-------------------------------------------------------------------------------
(***************************************************************************)
(* Why a lone rm is exact: the invariant Exact.                            *)
(***************************************************************************)

\* What an operand is to come to is settled by the setting alone.
LEMMA SettledAtFirst ==
  ASSUME setting' = setting, NEW p, NEW i
  PROVE  /\ (cmd[p] = cmd[p])' /\ cmd'[p] = cmd[p]
         /\ Removable(cmd[p], cmd[p].args[i])' <=> Removable(cmd[p], cmd[p].args[i])
         /\ Rejected(cmd[p], i)' <=> Rejected(cmd[p], i)
  BY DEF Removable, Rejected, Taken

\* The operands rm is at or done with are paths.
LEMMA OperandIsPath ==
  ASSUME TypeOK, NEW p \in Proc, AccountedFor(p), NEW i \in 1..operand[p]
  PROVE  cmd[p].args[i] \in Path /\ i \in DOMAIN cmd[p].args
<1>1. operand[p] \in Nat
  BY DEF TypeOK
<1> QED
  BY <1>1, OperandsArePaths DEF AccountedFor

\* The only activation works on the operand.
LEMMA OutermostIsOperand ==
  ASSUME TypeOK, NEW p \in Proc, AccountedFor(p), Len(stack[p]) = 1
  PROVE  /\ stack[p] # <<>> /\ operand[p] \in 1..operand[p]
         /\ Top(p) = stack[p][1] /\ Top(p).path = cmd[p].args[operand[p]]
<1>1. stack[p] # <<>> /\ operand[p] \in Nat
  <2>1. Len(<<>>) = 0
    OBVIOUS
  <2>2. stack[p] # <<>>
    BY <2>1
  <2> QED
    BY <2>2 DEF TypeOK
<1>2. Top(p) = stack[p][1]
  BY <1>1, TopOfStack
<1> QED
  BY <1>1, <1>2 DEF AccountedFor, InOperand

\* What lies below an operand that was removed is gone when rm comes to it.
LEMMA TakenIsGone ==
  ASSUME TypeOK, NEW p \in Proc, AccountedFor(p), ExactFor(p),
         NEW i \in 1..operand[p], Taken(cmd[p], i), Exists(tree, cmd[p].args[i])
  PROVE  cmd[p].args[i] = <<>>
<1>1. PICK j \in 1..(i - 1) : /\ Removable(cmd[p], cmd[p].args[j])
                              /\ IsPrefix(cmd[p].args[j], cmd[p].args[i])
  BY DEF Taken
<1>2. operand[p] \in Nat
  BY DEF TypeOK
<1>3. j \in Finished(p)
  BY <1>2 DEF Finished
<1> QED
  BY <1>1, <1>3 DEF ExactFor, Emptied, Exists

\* Where nothing was taken rm finds what was there at first.
LEMMA NotTakenIsThere ==
  ASSUME TypeOK, NEW p \in Proc, AccountedFor(p), ExactFor(p),
         Len(stack[p]) = 1, Top(p).at = "lstat",
         ~Taken(cmd[p], operand[p]),
         NEW q \in Path, IsPrefix(q, Top(p).path), Exists(setting.tree, q)
  PROVE  Exists(tree, q)
<1> SUFFICES ASSUME q \in DOMAIN setting.tree \ DOMAIN tree PROVE FALSE
  BY DEF Exists
<1>1. /\ stack[p] # <<>> /\ operand[p] \in 1..operand[p] /\ operand[p] \in Nat
      /\ Top(p) = stack[p][1] /\ Top(p).path = cmd[p].args[operand[p]]
  BY OutermostIsOperand DEF TypeOK
<1>2. PICK j \in Begun(p) : /\ Removable(cmd[p], cmd[p].args[j])
                            /\ IsPrefix(cmd[p].args[j], q)
  BY DEF ExactFor
<1>3. j \in 1..(operand[p] - 1) /\ j \in 1..operand[p]
  BY <1>1 DEF Begun
<1>4. cmd[p].args[j] \in Path /\ Top(p).path \in Path
  BY <1>1, <1>3, OperandIsPath
<1>5. IsPrefix(cmd[p].args[j], cmd[p].args[operand[p]])
  BY <1>1, <1>2, <1>4, PrefixTransitive DEF Path
<1> QED
  BY <1>2, <1>3, <1>5 DEF Taken

\* rm leads through something that is no directory exactly if it did at first.
LEMMA ThroughWhatWasThere ==
  ASSUME TypeOK, NEW p \in Proc, AccountedFor(p), ExactFor(p),
         Len(stack[p]) = 1, Top(p).at = "lstat",
         ~Taken(cmd[p], operand[p])
  PROVE  /\ ThroughFile(tree, Top(p).path) <=> ThroughFile(setting.tree, Top(p).path)
         /\ Exists(tree, Top(p).path) <=> Exists(setting.tree, Top(p).path)
         /\ IsDir(tree, Top(p).path) <=> IsDir(setting.tree, Top(p).path)
<1> DEFINE path == Top(p).path
<1>1. path \in Path /\ path \in Seq(Name) /\ Len(path) \in Nat
  BY OutermostIsOperand, OperandIsPath DEF Path
<1>2. ASSUME NEW i \in 0..Len(path)
      PROVE  LET q == SubSeq(path, 1, i)
             IN  /\ Exists(tree, q) <=> Exists(setting.tree, q)
                 /\ IsDir(tree, q) <=> IsDir(setting.tree, q)
  <2> DEFINE q == SubSeq(path, 1, i)
  <2>1. q \in Path /\ IsPrefix(q, path)
    BY <1>1, PartOfPath DEF Path
  <2>2. Exists(setting.tree, q) => Exists(tree, q)
    BY <2>1, NotTakenIsThere
  <2>3. Exists(tree, q) => Exists(setting.tree, q) /\ tree[q] = setting.tree[q]
    BY DEF ExactFor, OnlyLost, Exists
  <2> QED
    BY <2>2, <2>3 DEF IsDir
<1>3. SubSeq(path, 1, Len(path)) = path /\ Len(path) \in 0..Len(path)
  BY <1>1, SubSeqFull
<1> HIDE DEF path
<1>4. /\ Exists(tree, path) <=> Exists(setting.tree, path)
      /\ IsDir(tree, path) <=> IsDir(setting.tree, path)
  BY <1>2, <1>3
<1>5. ThroughFile(tree, path) <=> ThroughFile(setting.tree, path)
  <2>1. \A i \in 1..(Len(path) - 1) : i \in 0..Len(path)
    BY <1>1
  <2> QED
    BY <1>2, <2>1 DEF ThroughFile
<1> QED
  BY <1>4, <1>5 DEF path

\* No operand leads through something that is no directory and was taken.
LEMMA TakenIsNotThrough ==
  ASSUME TypeOK, NEW p \in Proc, AccountedFor(p), ExactFor(p),
         NEW i \in 1..operand[p], ThroughFile(tree, cmd[p].args[i])
  PROVE  ~Taken(cmd[p], i)
<1> DEFINE path == cmd[p].args[i]
<1> SUFFICES ASSUME Taken(cmd[p], i) PROVE FALSE
  OBVIOUS
<1>0. operand[p] \in Nat /\ path \in Path /\ Len(path) \in Nat
  BY OperandIsPath DEF TypeOK, Path
<1>1. PICK j \in 1..(i - 1) : /\ Removable(cmd[p], cmd[p].args[j])
                              /\ IsPrefix(cmd[p].args[j], path)
  BY DEF Taken
<1> DEFINE r == cmd[p].args[j]
<1>2. j \in Finished(p) /\ j \in 1..operand[p]
  BY <1>0 DEF Finished
<1>3. Emptied(r) /\ r \in Path
  BY <1>1, <1>2, OperandIsPath DEF ExactFor
<1>4. PICK k \in 1..(Len(path) - 1) : LET q == SubSeq(path, 1, k)
                                      IN  Exists(tree, q) /\ ~IsDir(tree, q)
  BY DEF ThroughFile
<1> DEFINE q == SubSeq(path, 1, k)
<1>5. k \in 0..Len(path)
  BY <1>0
<1>6. q \in Path /\ IsPrefix(q, path) /\ Len(q) = k
  BY <1>0, <1>5, PartOfPath DEF Path
<1>7. Exists(tree, q) /\ ~IsDir(tree, q)
  BY <1>4
<1>8. IsPrefix(r, path) /\ Exists(setting.tree, r)
  BY <1>1 DEF Removable
<1> HIDE DEF q, r, path
<1>9. CASE Len(r) <= Len(q)
  <2>1. IsPrefix(r, q)
    BY <1>0, <1>3, <1>6, <1>8, <1>9, PrefixesNest DEF Path
  <2>2. q = <<>>
    BY <1>3, <1>7, <2>1 DEF Emptied, Exists
  <2> QED
    BY <1>6, <2>2
<1>10. CASE Len(q) <= Len(r) /\ Len(q) # Len(r)
  <2>1. IsPrefix(q, r)
    BY <1>0, <1>3, <1>6, <1>8, <1>10, PrefixesNest DEF Path
  <2>2. IsTree(setting.tree)
    BY SettingsAssumption DEF TypeOK, Setting
  <2>3. IsDir(setting.tree, q)
    BY <1>6, <1>8, <1>10, <2>1, <2>2, AboveIsDir DEF Exists
  <2>4. tree[q] = setting.tree[q]
    BY <1>7 DEF ExactFor, OnlyLost, Exists
  <2> QED
    BY <1>7, <2>3, <2>4 DEF IsDir
<1>11. Len(r) \in Nat /\ Len(q) \in Nat
  BY <1>3, <1>6 DEF Path
<1> QED
  BY <1>9, <1>10, <1>11

\* The verdict on an operand that is not removed because of what lstat says.
LEMMA VerdictOfLstat ==
  ASSUME TypeOK, Trodden, NEW p \in Proc, AccountedFor(p), ExactFor(p), Quiet,
         Len(stack[p]) = 1, Top(p).at = "lstat"
  PROVE  /\ LstatAbsent(p) => (Rejected(cmd[p], operand[p]) <=> ~cmd[p].force)
         /\ LstatFails(p) => Rejected(cmd[p], operand[p])
         /\ LstatDir(p) /\ ~cmd[p].recursive =>
              /\ Rejected(cmd[p], operand[p])
              /\ ~Removable(cmd[p], cmd[p].args[operand[p]])
<1> DEFINE c == cmd[p]
           i == operand[p]
           path == c.args[i]
<1>1. i \in 1..operand[p] /\ Top(p).path = path
  BY OutermostIsOperand
<1>2. Exists(tree, <<>>)
  BY DEF TypeOK, IsTree, IsDir
<1>6. Place(p) = path /\ (Obstructed(tree, path) <=> ThroughFile(tree, path))
  BY <1>1, OutermostIsOperand, QuietIsStraight
<1>3. ASSUME LstatAbsent(p) PROVE Rejected(c, i) <=> ~c.force
  <2>1. ~Exists(tree, path) /\ ~ThroughFile(tree, path) /\ path # <<>>
    BY <1>1, <1>2, <1>3, <1>6 DEF LstatAbsent
  <2>2. CASE Taken(c, i)
    BY <2>1, <2>2 DEF Rejected
  <2>3. CASE ~Taken(c, i)
    <3>1. ~ThroughFile(setting.tree, path) /\ ~Exists(setting.tree, path)
      BY <1>1, <2>1, <2>3, ThroughWhatWasThere
    <3> QED
      BY <2>1, <3>1 DEF Rejected, IsDir
  <2> QED
    BY <2>2, <2>3
<1>4. ASSUME LstatFails(p) PROVE Rejected(c, i)
  <2>1. ThroughFile(tree, path)
    BY <1>1, <1>4, <1>6 DEF LstatFails, Quiet, Refused
  <2>2. ~Taken(c, i)
    BY <1>1, <2>1, TakenIsNotThrough
  <2>3. ThroughFile(setting.tree, path)
    BY <1>1, <2>1, <2>2, ThroughWhatWasThere
  <2> QED
    BY <2>2, <2>3 DEF Rejected
<1>5. ASSUME LstatDir(p), ~c.recursive PROVE Rejected(c, i) /\ ~Removable(c, path)
  <2>1. IsDir(tree, path) /\ Exists(tree, path)
    BY <1>1, <1>5, <1>6 DEF LstatDir, IsDir
  <2>2. IsDir(setting.tree, path)
    BY <2>1 DEF ExactFor, OnlyLost, IsDir, Exists
  <2>3. Taken(c, i) => path = <<>>
    BY <1>1, <2>1, TakenIsGone
  <2> QED
    BY <1>5, <2>2, <2>3 DEF Rejected, Removable
<1> QED
  BY <1>3, <1>4, <1>5

\* The verdict on an operand that rm is about to remove.
LEMMA VerdictOfRemoval ==
  ASSUME TypeOK, NEW p \in Proc, AccountedFor(p), ExactFor(p),
         Len(stack[p]) = 1, Exists(tree, Top(p).path), Top(p).path # <<>>,
         IsDir(tree, Top(p).path) => cmd[p].recursive
  PROVE  ~Rejected(cmd[p], operand[p])
<1> DEFINE path == Top(p).path
<1>1. operand[p] \in 1..operand[p] /\ path = cmd[p].args[operand[p]]
  BY OutermostIsOperand
<1>2. ~Taken(cmd[p], operand[p])
  BY <1>1, TakenIsGone
<1>3. Exists(setting.tree, path) /\ (IsDir(setting.tree, path) => cmd[p].recursive)
  BY DEF ExactFor, OnlyLost, Exists, IsDir
<1>4. ~ThroughFile(setting.tree, path)
  BY <1>3, ThroughFileIsGone, SettingsAssumption DEF TypeOK, Setting
<1> QED
  BY <1>1, <1>2, <1>3, <1>4 DEF Rejected

\* While rm works on an entry it is on an operand that is to be removed.
LEMMA OperandIsRemovable ==
  ASSUME TypeOK, NEW p \in Proc, AccountedFor(p), ClearsFor(p), ExactFor(p),
         stack[p] # <<>>, Exists(tree, Top(p).path), Top(p).at # "lstat" \/ Len(stack[p]) >= 2,
         Len(stack[p]) = 1 /\ IsDir(tree, Top(p).path) => cmd[p].recursive
  PROVE  Removable(cmd[p], cmd[p].args[operand[p]])
<1>1. 1 \in 1..Len(stack[p]) /\ stack[p][1].path = cmd[p].args[operand[p]]
  BY TopOfStack DEF AccountedFor, InOperand
<1> DEFINE path == stack[p][1].path
<1>2. Len(stack[p]) = 1 => stack[p][1] = Top(p)
  BY OutermostIsOperand
<1>3. Exists(tree, path) /\ (IsDir(tree, path) => cmd[p].recursive)
  <2>1. CASE Len(stack[p]) = 1
    BY <1>2, <2>1
  <2>2. CASE Len(stack[p]) >= 2
    <3>1. DescendsAt(stack[p], 1, cmd[p].recursive) /\ HoldsAt(stack[p], 1, tree)
      BY <1>1 DEF ClearsFor, Descends, ExactFor, Holds
    <3>2. 1 < Len(stack[p])
      BY <2>2, TopOfStack
    <3>3. stack[p][1].at = "readdir" /\ cmd[p].recursive
      BY <3>1, <3>2 DEF DescendsAt, OfDirectory
    <3> QED
      BY <3>1, <3>3 DEF HoldsAt
  <2>3. Len(stack[p]) \in Nat /\ Len(stack[p]) >= 1
    BY TopOfStack
  <2> DEFINE m == Len(stack[p])
  <2>4. m = 1 \/ m >= 2
    <3>1. m \in Nat /\ m >= 1
      BY <2>3
    <3> HIDE DEF m
    <3> QED
      BY <3>1
  <2> QED
    BY <2>1, <2>2, <2>4
<1>4. Exists(setting.tree, path) /\ (IsDir(setting.tree, path) => cmd[p].recursive)
  BY <1>3 DEF ExactFor, OnlyLost, Exists, IsDir
<1> QED
  BY <1>1, <1>4 DEF Removable

-------------------------------------------------------------------------------
\* A process that does not move while nothing is removed.
LEMMA WaitKeepsExact ==
  ASSUME TypeOK, NEW p \in Proc, ExactFor(p), tree' = tree, setting' = setting,
         operand'[p] = operand[p], stack'[p] = stack[p], ret'[p] = ret[p],
         exited'[p] = exited[p]
  PROVE  ExactFor(p)'
<1>1. OnlyLost' /\ Holds(p)'
  BY DEF ExactFor, OnlyLost, Holds
<1>2. Begun(p)' = Begun(p) /\ Finished(p)' = Finished(p)
  BY DEF Begun, Finished
<1>3. \A i : /\ Removable(cmd[p], cmd[p].args[i])' <=> Removable(cmd[p], cmd[p].args[i])
             /\ Rejected(cmd[p], i)' <=> Rejected(cmd[p], i)
             /\ Emptied(cmd[p].args[i])' <=> Emptied(cmd[p].args[i])
  BY SettledAtFirst DEF Emptied
<1> QED
  BY <1>1, <1>2, <1>3 DEF ExactFor

\* A further call, on a path that is there.
LEMMA GoOnKeepsExact ==
  ASSUME TypeOK, NEW p \in Proc, ExactFor(p), stack[p] # <<>>,
         NEW act \in Activation, act.path = Top(p).path, act.at # "lstat", GoOn(p, act),
         UNCHANGED <<tree, setting, operand, ret, exited>>,
         Exists(tree, act.path),
         act.at = "readdir" => act.snap \ act.seen \subseteq Entries(tree, act.path) \cup Dots
  PROVE  ExactFor(p)'
<1> DEFINE s == stack[p]
           new == Append(Front(stack[p]), act)
<1>1. /\ stack'[p] = new
      /\ Len(s) \in Nat /\ Len(s) >= 1 /\ Len(new) = Len(s) /\ new # <<>>
      /\ \A i \in 1..(Len(s) - 1) : new[i] = s[i]
      /\ new[Len(s)] = act
  <2>1. stack'[p] = new
    BY DEF TypeOK, GoOn
  <2> QED
    BY <2>1, TopOfStack, StackAfter
<1> HIDE DEF new
<1>2. Holds(p)'
  <2> SUFFICES ASSUME NEW k \in 1..Len(s) PROVE HoldsAt(new, k, tree)
    BY <1>1 DEF Holds
  <2>1. HoldsAt(s, k, tree)
    BY DEF ExactFor, Holds
  <2>2. CASE k < Len(s)
    <3>1. new[k] = s[k]
      BY <1>1, <2>2
    <3> QED
      BY <2>1, <3>1 DEF HoldsAt
  <2>3. CASE k = Len(s)
    BY <1>1, <2>3 DEF HoldsAt
  <2> QED
    BY <1>1, <2>2, <2>3
<1>3. Finished(p)' = Finished(p) /\ Begun(p) \subseteq Begun(p)'
  <2>1. stack[p][1].at # "lstat" => stack'[p][1].at # "lstat"
    BY <1>1
  <2> QED
    BY <1>1, <2>1 DEF Finished, Begun
<1>4. \A i : /\ Removable(cmd[p], cmd[p].args[i])' <=> Removable(cmd[p], cmd[p].args[i])
             /\ Rejected(cmd[p], i)' <=> Rejected(cmd[p], i)
             /\ Emptied(cmd[p].args[i])' <=> Emptied(cmd[p].args[i])
  BY SettledAtFirst DEF Emptied
<1>5. OnlyLost'
  BY DEF ExactFor, OnlyLost
<1> QED
  BY <1>2, <1>3, <1>4, <1>5 DEF ExactFor

\* The call for an entry, which is there.
LEMMA DescendKeepsExact ==
  ASSUME TypeOK, NEW p \in Proc, ExactFor(p), Busy(p, "readdir"),
         NEW n \in Readable(tree, Top(p).dir, Top(p)), n \notin Ignored,
         Top(p).dir = Top(p).path, NEW act, act = [Top(p) EXCEPT !.seen = @ \cup {n}],
         NEW call, call = Call(FullName(Top(p).path, n)),
         stack' = [stack EXCEPT ![p] = Append(Append(Front(stack[p]), act), call)],
         UNCHANGED <<tree, setting, operand, ret, exited>>
  PROVE  ExactFor(p)'
<1> DEFINE s   == stack[p]
           new == Append(Append(Front(stack[p]), act), call)
<1>0. stack[p] # <<>> /\ Top(p).at = "readdir"
  BY DEF Busy, Top
<1>1. /\ act \in Activation /\ act.path = Top(p).path /\ act.at = "readdir"
      /\ act.snap = Top(p).snap /\ act.seen = Top(p).seen \cup {n}
      /\ n \in Name /\ n \notin Dots
      /\ call \in Activation /\ call.at = "lstat"
      /\ call.path = Append(Top(p).path, n)
  <2>1. Top(p) \in Activation
    BY <1>0, TopOfStack
  <2>2. /\ act \in Activation /\ n \in Name /\ FullName(Top(p).path, n) \in Path
        /\ FullName(Top(p).path, n) = Append(Top(p).path, n)
    BY <2>1, NamesRead
  <2>3. call \in Activation /\ call.at = "lstat" /\ call.path = Append(Top(p).path, n)
    BY <2>2, CallIsActivation DEF Call
  <2> QED
    BY <1>0, <2>1, <2>2, <2>3 DEF Activation, Ignored
<1>2. /\ stack'[p] = new
      /\ Len(s) \in Nat /\ Len(s) >= 1 /\ Len(new) = Len(s) + 1 /\ new # <<>>
      /\ \A i \in 1..(Len(s) - 1) : new[i] = s[i]
      /\ new[Len(s)] = act /\ new[Len(s) + 1] = call
      /\ s[Len(s)] = Top(p)
  <2>1. stack'[p] = new
    BY DEF TypeOK
  <2> QED
    BY <1>0, <1>1, <2>1, TopOfStack, StackAfter
<1> HIDE DEF new
<1>3. /\ Exists(tree, Top(p).path)
      /\ Top(p).snap \ Top(p).seen \subseteq Entries(tree, Top(p).path) \cup Dots
  <2>1. HoldsAt(s, Len(s), tree)
    BY <1>2 DEF ExactFor, Holds
  <2> QED
    BY <1>0, <1>2, <2>1 DEF HoldsAt
<1>4. Exists(tree, call.path)
  BY <1>1, <1>3 DEF Readable, Entries
<1>5. Holds(p)'
  <2> SUFFICES ASSUME NEW k \in 1..Len(new) PROVE HoldsAt(new, k, tree)
    BY <1>2 DEF Holds
  <2>1. CASE k < Len(s)
    <3>1. new[k] = s[k] /\ HoldsAt(s, k, tree)
      BY <1>2, <2>1 DEF ExactFor, Holds
    <3> QED
      BY <3>1 DEF HoldsAt
  <2>2. CASE k = Len(s)
    BY <1>1, <1>2, <1>3, <2>2 DEF HoldsAt
  <2>3. CASE k = Len(s) + 1
    BY <1>1, <1>2, <1>4, <2>3 DEF HoldsAt
  <2> QED
    BY <1>2, <2>1, <2>2, <2>3
<1>6. Finished(p)' = Finished(p) /\ Begun(p) \subseteq Begun(p)'
  <2>1. stack[p][1].at # "lstat" => stack'[p][1].at # "lstat"
    <3>1. CASE Len(s) = 1
      BY <1>1, <1>2, <3>1
    <3>2. CASE Len(s) # 1
      <4>1. new[1] = s[1]
        <5> DEFINE m == Len(s)
        <5>0. m \in Nat /\ m >= 1 /\ m # 1
          BY <1>2, <3>2
        <5> HIDE DEF m
        <5>2. 1 \in 1..(m - 1)
          BY <5>0
        <5>1. 1 \in 1..(Len(s) - 1)
          BY <5>2 DEF m
        <5> QED
          BY <1>2, <5>1
      <4> QED
        BY <1>2, <4>1
    <3> QED
      BY <3>1, <3>2
  <2> QED
    BY <1>0, <1>2, <2>1 DEF Finished, Begun
<1>7. \A i : /\ Removable(cmd[p], cmd[p].args[i])' <=> Removable(cmd[p], cmd[p].args[i])
             /\ Rejected(cmd[p], i)' <=> Rejected(cmd[p], i)
             /\ Emptied(cmd[p].args[i])' <=> Emptied(cmd[p].args[i])
  BY SettledAtFirst DEF Emptied
<1>8. OnlyLost'
  BY DEF ExactFor, OnlyLost
<1> QED
  BY <1>5, <1>6, <1>7, <1>8 DEF ExactFor

\* A return of rm(), after it has removed its path or as no call for an entry
\* ever does.
LEMMA PopKeepsExact ==
  ASSUME TypeOK, TypeOK', NEW p \in Proc, AccountedFor(p), ClearsFor(p), ExactFor(p),
         stack[p] # <<>>, stack' = [stack EXCEPT ![p] = Front(stack[p])],
         UNCHANGED <<setting, operand, exited>>,
         \/ tree' = tree
         \/ /\ tree' = Without(tree, Top(p).path)
            /\ Removable(cmd[p], cmd[p].args[operand[p]]),
         Len(stack[p]) >= 2 => ret'[p] = ret[p],
         Len(stack[p]) = 1 =>
           /\ ret'[p] = 1 <=> ret[p] = 1 \/ Rejected(cmd[p], operand[p])
           /\ Removable(cmd[p], cmd[p].args[operand[p]]) =>
                \/ ~Exists(tree', Top(p).path)
                \/ Top(p).path = <<>> /\ Entries(tree', Top(p).path) = {}
  PROVE  ExactFor(p)'
<1> DEFINE s == stack[p]
           f == Front(stack[p])
           c == cmd[p]
           top == Top(p).path
<1>1. /\ stack'[p] = f
      /\ Len(s) \in Nat /\ Len(s) >= 1
      /\ f \in Seq(Activation) /\ Len(f) = Len(s) - 1
      /\ \A i \in 1..(Len(s) - 1) : f[i] = s[i]
      /\ s[Len(s)] = Top(p) /\ Top(p) \in Activation
  <2>1. stack'[p] = f
    BY DEF TypeOK
  <2> QED
    BY <2>1, TopOfStack
<1> HIDE DEF f
<1>2. /\ ShrinksTo(tree, tree')
      /\ \A q \in DOMAIN tree \ DOMAIN tree' : q = top /\ Removable(c, c.args[operand[p]])
      /\ DOMAIN tree \ {top} \subseteq DOMAIN tree'
  BY DEF ShrinksTo, Without
<1>3. /\ operand[p] \in Nat /\ operand[p] \in 1..operand[p] /\ ~exited[p]
      /\ IsPrefix(c.args[operand[p]], top)
      /\ stack[p][1].path = c.args[operand[p]]
  BY <1>1 DEF AccountedFor, InOperand, TypeOK
<1>4. \A i : /\ Removable(cmd[p], cmd[p].args[i])' <=> Removable(cmd[p], cmd[p].args[i])
             /\ Rejected(cmd[p], i)' <=> Rejected(cmd[p], i)
  BY SettledAtFirst
<1>5. Len(s) = 1 => f = <<>> /\ top = c.args[operand[p]]
  BY <1>1, OutermostIsOperand
<1>6. Len(s) # 1 => /\ 1 \in 1..(Len(s) - 1) /\ Len(s) >= 2 /\ f # <<>> /\ f[1] = s[1]
                    /\ s[1].at = "readdir"
  <2> SUFFICES ASSUME Len(s) # 1
               PROVE  /\ 1 \in 1..(Len(s) - 1) /\ Len(s) >= 2 /\ f # <<>> /\ f[1] = s[1]
                      /\ s[1].at = "readdir"
    OBVIOUS
  <2> DEFINE m == Len(s)
  <2>1. m \in Nat /\ m >= 1 /\ m # 1
    BY <1>1
  <2> HIDE DEF m
  <2>2. 1 \in 1..(m - 1) /\ m >= 2 /\ 1 < m /\ 1 \in 1..m
    BY <2>1
  <2>3. f # <<>> /\ f[1] = s[1]
    BY <1>1, <2>2 DEF m
  <2>4. DescendsAt(s, 1, c.recursive)
    BY <2>2 DEF ClearsFor, Descends, m
  <2> QED
    BY <2>2, <2>3, <2>4 DEF DescendsAt, m
<1>7. OnlyLost'
  BY <1>2 DEF ExactFor, OnlyLost, ShrinksTo
<1>8. Holds(p)'
  <2> SUFFICES ASSUME NEW k \in 1..Len(f) PROVE HoldsAt(f, k, tree')
    BY <1>1 DEF Holds
  <2>1. /\ k \in 1..Len(s) /\ k < Len(s) /\ f[k] = s[k] /\ s[k] \in Activation
        /\ k \in 1..(Len(s) - 1)
    BY <1>1
  <2>2. HoldsAt(s, k, tree) /\ DescendsAt(s, k, c.recursive)
    BY <2>1 DEF ExactFor, Holds, ClearsFor, Descends
  <2>3. DescendsAt(s, Len(s), c.recursive) /\ Len(s) \in 1..Len(s)
    BY <1>1 DEF ClearsFor, Descends
  <2>4. /\ s[k].at = "readdir" /\ s[k].path \in Seq(Name) /\ Len(s[k].path) \in Nat
        /\ Exists(tree, s[k].path)
        /\ s[k].snap \ s[k].seen \subseteq Entries(tree, s[k].path) \cup Dots
    BY <2>1, <2>2 DEF DescendsAt, HoldsAt, Activation, Path
  <2>5. /\ Len(s[k].path) = Len(s[1].path) + k - 1
        /\ Len(top) = Len(s[1].path) + Len(s) - 1
        /\ Len(s[1].path) \in Nat
    <3>1. s[1] \in Activation
      BY <1>1 DEF TypeOK
    <3> QED
      BY <1>1, <2>2, <2>3, <3>1 DEF DescendsAt, Activation, Path
  <2>6. s[k].path # top
    <3> DEFINE a == Len(s[1].path)
               m == Len(s)
    <3>1. a \in Nat /\ m \in Nat /\ k \in 1..m /\ k < m
      BY <1>1, <2>1, <2>5
    <3>2. Len(s[k].path) = a + k - 1 /\ Len(top) = a + m - 1
      BY <2>5
    <3> HIDE DEF a, m
    <3>3. a + k - 1 # a + m - 1
      BY <3>1
    <3> QED
      BY <3>2, <3>3
  <2>7. ASSUME NEW n \in Name, n \in s[k].snap \ s[k].seen
        PROVE  Append(s[k].path, n) # top
    <3> SUFFICES ASSUME Append(s[k].path, n) = top PROVE FALSE
      OBVIOUS
    <3>1. Len(top) = Len(s[k].path) + 1
      BY <2>4
    <3>2. k + 1 = Len(s)
      <4> DEFINE a == Len(s[1].path)
                 m == Len(s)
      <4>1. a \in Nat /\ m \in Nat /\ k \in 1..m
        BY <1>1, <2>1, <2>5
      <4>2. a + m - 1 = (a + k - 1) + 1
        BY <2>5, <3>1
      <4> HIDE DEF a, m
      <4>3. k + 1 = m
        BY <4>1, <4>2
      <4> QED
        BY <4>3 DEF m
    <3>3. PICK e \in s[k].seen \cap Name : top = Append(s[k].path, e)
      BY <1>1, <2>1, <2>2, <3>2 DEF DescendsAt
    <3>4. e = n
      <4> DEFINE d == s[k].path
      <4>1. d \in Seq(Name) /\ Append(d, e) = Append(d, n)
        BY <2>4, <3>3
      <4> HIDE DEF d
      <4>2. Append(d, e)[Len(d) + 1] = e /\ Append(d, n)[Len(d) + 1] = n
        BY <4>1
      <4> QED
        BY <4>1, <4>2
    <3> QED
      BY <2>7, <3>3, <3>4
  <2>8. Exists(tree', s[k].path)
    BY <1>2, <2>4, <2>6 DEF Exists
  <2>9. s[k].snap \ s[k].seen \subseteq Entries(tree', s[k].path) \cup Dots
    BY <1>2, <2>4, <2>7 DEF Entries, Exists
  <2> QED
    BY <2>1, <2>8, <2>9 DEF HoldsAt
<1>9. Begun(p)' = 1..operand[p] /\ Begun(p) \subseteq 1..operand[p]
  <2>1. stack'[p] = <<>> \/ stack'[p][1].at # "lstat"
    BY <1>1, <1>5, <1>6
  <2> QED
    BY <1>3, <2>1 DEF Begun
<1>10. \A q \in (DOMAIN setting.tree \ DOMAIN tree)' : \E i \in Begun(p)' :
          Removable(c, c.args[i]) /\ IsPrefix(c.args[i], q)
  <2> SUFFICES ASSUME NEW q \in DOMAIN setting.tree \ DOMAIN tree'
               PROVE  \E i \in 1..operand[p] : Removable(c, c.args[i]) /\ IsPrefix(c.args[i], q)
    BY <1>9
  <2>1. CASE q \in DOMAIN tree
    BY <1>2, <1>3, <2>1
  <2>2. CASE q \notin DOMAIN tree
    BY <1>9, <2>2 DEF ExactFor
  <2> QED
    BY <2>1, <2>2
<1>11. ASSUME NEW i \in Finished(p)', Removable(c, c.args[i])
       PROVE  Emptied(c.args[i])'
  <2>1. i \in 1..operand[p] /\ (i < operand[p] \/ f = <<>>)
    BY <1>1 DEF Finished
  <2>2. CASE i < operand[p]
    BY <1>2, <1>11, <2>1, <2>2 DEF ExactFor, Finished, Emptied, ShrinksTo
  <2>3. CASE i = operand[p] /\ f = <<>>
    <3>1. Len(s) = 1
      BY <1>1, <2>3
    <3>2. top = c.args[i]
      BY <1>5, <2>3, <3>1
    <3>3. top \in Path /\ IsTree(tree')
      BY <1>1 DEF Activation, TypeOK
    <3>4. \/ ~Exists(tree', top)
          \/ top = <<>> /\ Entries(tree', top) = {}
      BY <1>11, <2>3, <3>1
    <3>5. \A q \in DOMAIN tree' : IsPrefix(top, q) => q = <<>>
      BY <3>3, <3>4, GoneWithAllBelow, EmptyHasNothingBelow
    <3> QED
      BY <3>2, <3>5 DEF Emptied
  <2> QED
    BY <1>3, <2>1, <2>2, <2>3
<1>12. ret'[p] = 1 <=> \E i \in Finished(p)' : Rejected(c, i)
  <2>1. ret[p] = 1 <=> \E i \in Finished(p) : Rejected(c, i)
    BY <1>3 DEF ExactFor
  <2>2. Finished(p) = 1..(operand[p] - 1)
    BY <1>3 DEF Finished
  <2>3. CASE Len(s) = 1
    <3>1. Finished(p)' = Finished(p) \cup {operand[p]}
      BY <1>1, <1>3, <1>5, <2>2, <2>3 DEF Finished
    <3> QED
      BY <2>1, <2>3, <3>1
  <2>4. CASE Len(s) # 1
    <3>1. Finished(p)' = Finished(p)
      BY <1>1, <1>3, <1>6, <2>2, <2>4 DEF Finished
    <3> QED
      BY <1>6, <2>1, <2>4, <3>1
  <2> QED
    BY <2>3, <2>4
<1>13. ~exited'[p] /\ cmd'[p] = c
  BY <1>3
<1> QED
  BY <1>4, <1>7, <1>8, <1>10, <1>11, <1>12, <1>13 DEF ExactFor

\* Every step of a lone rm on a quiet system keeps it exact.
LEMMA StepKeepsExact ==
  ASSUME TypeOK, Trodden, TypeOK', NEW p \in Proc, AccountedFor(p), ClearsFor(p), ExactFor(p), Quiet,
         Step(p)
  PROVE  ExactFor(p)'
<1> DEFINE s == stack[p]
           c == cmd[p]
           top == Top(p).path
<1>1. s # <<>> =>
        /\ Top(p) \in Activation /\ top \in Path
        /\ Len(s) \in Nat /\ Len(s) >= 1
        /\ s[Len(s)] = Top(p)
        /\ KnowsAt(s, Len(s), tree) /\ HoldsAt(s, Len(s), tree)
        /\ Top(p).at \in OfDirectory => c.recursive
        /\ Len(s) = 1 => top = c.args[operand[p]]
        /\ Len(s) = 1 \/ Len(s) >= 2
        /\ Len(s) >= 2 => c.recursive /\ top # <<>>
  <2> SUFFICES ASSUME s # <<>>
               PROVE  /\ Top(p) \in Activation /\ top \in Path
                      /\ Len(s) \in Nat /\ Len(s) >= 1
                      /\ s[Len(s)] = Top(p)
                      /\ KnowsAt(s, Len(s), tree) /\ HoldsAt(s, Len(s), tree)
                      /\ Top(p).at \in OfDirectory => c.recursive
                      /\ Len(s) = 1 => top = c.args[operand[p]]
                      /\ Len(s) = 1 \/ Len(s) >= 2
                      /\ Len(s) >= 2 => c.recursive /\ top # <<>>
    OBVIOUS
  <2>1. /\ Len(s) \in Nat /\ Len(s) >= 1 /\ Top(p) \in Activation /\ s[Len(s)] = Top(p)
        /\ s \in Seq(Activation)
    BY TopOfStack
  <2>2. 1 \in 1..Len(s) /\ Len(s) \in 1..Len(s) /\ (Len(s) = 1 \/ Len(s) >= 2)
    <3> DEFINE m == Len(s)
    <3>1. m \in Nat /\ m >= 1
      BY <2>1
    <3> HIDE DEF m
    <3>2. 1 \in 1..m /\ m \in 1..m /\ (m = 1 \/ m >= 2)
      BY <3>1
    <3> QED
      BY <3>2 DEF m
  <2>3. /\ DescendsAt(s, Len(s), c.recursive) /\ DescendsAt(s, 1, c.recursive)
        /\ KnowsAt(s, Len(s), tree) /\ HoldsAt(s, Len(s), tree)
    BY <2>2 DEF ClearsFor, Descends, Knows, ExactFor, Holds
  <2>4. Len(s) >= 2 => c.recursive /\ top # <<>>
    <3> SUFFICES ASSUME Len(s) >= 2 PROVE c.recursive /\ top # <<>>
      OBVIOUS
    <3>1. 1 < Len(s)
      BY <2>1
    <3>2. c.recursive
      BY <2>3, <3>1 DEF DescendsAt, OfDirectory
    <3>3. Len(top) = Len(s[1].path) + Len(s) - 1
      BY <2>1, <2>3 DEF DescendsAt
    <3>4. Len(s[1].path) \in Nat
      <4>1. s[1] \in Activation
        BY <2>1, <2>2
      <4> QED
        BY <4>1 DEF Activation, Path
    <3>5. Len(top) # 0
      BY <2>1, <3>1, <3>3, <3>4
    <3> QED
      BY <3>2, <3>5
  <2>5. Top(p).at \in OfDirectory => c.recursive
    BY <2>1, <2>3 DEF DescendsAt
  <2>6. Top(p).path \in Path
    BY <2>1 DEF Activation
  <2>7. Len(s) = 1 => top = c.args[operand[p]]
    BY OutermostIsOperand
  <2> QED
    BY <2>1, <2>2, <2>3, <2>4, <2>5, <2>6, <2>7
<1>2. IsTree(tree) /\ ret[p] \in {0, 1} /\ p \in Proc
  BY DEF TypeOK
<1>3. s # <<>> /\ (Len(s) >= 2 \/ Top(p).at # "lstat") =>
        /\ Exists(tree, top)
        /\ Top(p).at = "readdir" =>
             Top(p).snap \ Top(p).seen \subseteq Entries(tree, top) \cup Dots
  BY <1>1 DEF HoldsAt
<1>19. s # <<>> =>
         /\ Place(p) = top
         /\ Obstructed(tree, top) <=> ThroughFile(tree, top)
         /\ Top(p).at \in OfDirectory => Opened(p) = top
         /\ Top(p).at = "readdir" => Top(p).dir = top
  BY <1>1, QuietIsStraight DEF KnowsAt
<1>4. ~exited[p] /\ operand[p] \in Nat
  BY DEF Step, NextOperand, Exit, AccountedFor, LstatAbsent, LstatFails, LstatDir, LstatOther,
         OpendirDone, OpendirFails, ReaddirEntry, ReaddirEnd, RmdirDone, RmdirFails,
         UnlinkDone, UnlinkFails, Busy, TypeOK
<1>5. CASE NextOperand(p)
  <2> DEFINE path == c.args[operand[p] + 1]
             new  == <<Call(path)>>
  <2>1. s = <<>> /\ stack'[p] = new /\ operand'[p] = operand[p] + 1
        /\ UNCHANGED <<tree, setting, ret, exited>>
    BY <1>5 DEF NextOperand, TypeOK
  <2>2. Len(new) = 1 /\ new[1].at = "lstat" /\ new # <<>>
    BY DEF Call
  <2> HIDE DEF new
  <2>3. Holds(p)'
    BY <2>1, <2>2 DEF Holds, HoldsAt
  <2>4. Finished(p)' = Finished(p) /\ Begun(p)' = Begun(p)
    BY <1>4, <2>1, <2>2 DEF Finished, Begun
  <2>5. \A i : /\ Removable(c, c.args[i])' <=> Removable(c, c.args[i])
               /\ Rejected(c, i)' <=> Rejected(c, i)
               /\ Emptied(c.args[i])' <=> Emptied(c.args[i])
    BY <2>1, SettledAtFirst DEF Emptied
  <2>6. OnlyLost'
    BY <2>1 DEF ExactFor, OnlyLost
  <2> QED
    BY <2>1, <2>3, <2>4, <2>5, <2>6 DEF ExactFor
<1>6. CASE Exit(p)
  <2>1. /\ UNCHANGED <<tree, setting, operand, stack>> /\ exited'[p] /\ s = <<>>
        /\ ret' = IF c.args = <<>> THEN [ret EXCEPT ![p] = 1] ELSE ret
    BY <1>6 DEF Exit, TypeOK
  <2>2. Finished(p)' = Finished(p) /\ Begun(p)' = Begun(p)
    BY <2>1 DEF Finished, Begun
  <2>3. \A i : /\ Removable(c, c.args[i])' <=> Removable(c, c.args[i])
               /\ Rejected(c, i)' <=> Rejected(c, i)
               /\ Emptied(c.args[i])' <=> Emptied(c.args[i])
    BY <2>1, SettledAtFirst DEF Emptied
  <2>4. OnlyLost' /\ Holds(p)'
    BY <2>1 DEF ExactFor, OnlyLost, Holds
  <2>5. ret'[p] = 1 <=> c.args = <<>> \/ ret[p] = 1
    BY <2>1 DEF TypeOK
  <2> QED
    BY <1>4, <2>1, <2>2, <2>3, <2>4, <2>5 DEF ExactFor
<1>7. CASE LstatAbsent(p)
  <2>1. /\ s # <<>> /\ Top(p).at = "lstat" /\ ~Exists(tree, top)
        /\ UNCHANGED <<tree, setting, operand, exited>>
        /\ stack' = [stack EXCEPT ![p] = Front(stack[p])]
        /\ ret'[p] = IF c.force THEN ret[p] ELSE 1
    BY <1>7, <1>19 DEF LstatAbsent, Busy, Top, Return, Fail, TypeOK
  <2>2. ~(Len(s) >= 2) /\ Len(s) = 1
    BY <1>1, <1>3, <2>1
  <2>3. Rejected(c, operand[p]) <=> ~c.force
    BY <1>7, <2>1, <2>2, VerdictOfLstat
  <2> QED
    BY <2>1, <2>2, <2>3, PopKeepsExact
<1>8. CASE LstatFails(p)
  <2>1. /\ s # <<>> /\ Top(p).at = "lstat" /\ ThroughFile(tree, top)
        /\ UNCHANGED <<tree, setting, operand, exited>>
        /\ stack' = [stack EXCEPT ![p] = Front(stack[p])]
        /\ ret'[p] = 1
    BY <1>8, <1>19 DEF LstatFails, Busy, Top, Fail, TypeOK, Quiet, Refused
  <2>2. ~Exists(tree, top)
    BY <1>2, <2>1, ThroughFileIsGone
  <2>3. ~(Len(s) >= 2) /\ Len(s) = 1
    BY <1>1, <1>3, <2>1, <2>2
  <2>4. Rejected(c, operand[p])
    BY <1>8, <2>1, <2>3, VerdictOfLstat
  <2> QED
    BY <2>1, <2>2, <2>3, <2>4, PopKeepsExact
<1>9. CASE LstatDir(p)
  <2>1. /\ s # <<>> /\ Top(p).at = "lstat" /\ Exists(tree, top)
        /\ UNCHANGED <<tree, setting, operand, exited>>
    BY <1>9, <1>19 DEF LstatDir, Busy, Top, IsDir
  <2>2. CASE c.recursive
    <3> DEFINE act == [Top(p) EXCEPT !.at = "opendir"]
    <3>1. act \in Activation /\ act.path = top /\ act.at = "opendir"
      BY <1>1, <2>1 DEF Activation, Calls
    <3>2. GoOn(p, act) /\ ret' = ret
      BY <1>9, <2>2 DEF LstatDir
    <3> HIDE DEF act
    <3> QED
      BY <2>1, <3>1, <3>2, GoOnKeepsExact
  <2>3. CASE ~c.recursive
    <3>1. stack' = [stack EXCEPT ![p] = Front(stack[p])] /\ ret'[p] = 1
      BY <1>9, <2>3 DEF LstatDir, Fail, TypeOK
    <3>2. ~(Len(s) >= 2) /\ Len(s) = 1
      BY <1>1, <2>1, <2>3
    <3>3. Rejected(c, operand[p]) /\ ~Removable(c, c.args[operand[p]])
      BY <1>9, <2>1, <2>3, <3>2, VerdictOfLstat
    <3> QED
      BY <2>1, <3>1, <3>2, <3>3, PopKeepsExact
  <2> QED
    BY <2>2, <2>3
<1>10. CASE LstatOther(p)
  <2>1. /\ s # <<>> /\ Top(p).at = "lstat" /\ Exists(tree, top)
        /\ UNCHANGED <<tree, setting, operand, ret, exited>>
    BY <1>10, <1>19 DEF LstatOther, Busy, Top
  <2> DEFINE act == [Top(p) EXCEPT !.at = "unlink"]
  <2>2. act \in Activation /\ act.path = top /\ act.at = "unlink"
    BY <1>1, <2>1 DEF Activation, Calls
  <2>3. GoOn(p, act)
    BY <1>10 DEF LstatOther
  <2> HIDE DEF act
  <2> QED
    BY <2>1, <2>2, <2>3, GoOnKeepsExact
<1>11. CASE OpendirDone(p)
  <2>1. /\ s # <<>> /\ Top(p).at = "opendir"
        /\ UNCHANGED <<tree, setting, operand, ret, exited>>
    BY <1>11 DEF OpendirDone, Busy, Top
  <2> DEFINE act == [Top(p) EXCEPT !.at = "readdir", !.dir = Opened(p),
                            !.snap = Entries(tree, Opened(p)) \cup Dots]
  <2>2. /\ act \in Activation /\ act.path = top /\ act.at = "readdir"
        /\ act.snap = Entries(tree, top) \cup Dots
    BY <1>1, <1>19, <2>1 DEF Activation, Entries, OfDirectory
  <2>3. GoOn(p, act)
    BY <1>11 DEF OpendirDone
  <2> HIDE DEF act
  <2> QED
    BY <1>3, <2>1, <2>2, <2>3, GoOnKeepsExact
<1>12. CASE OpendirFails(p)
  <2>1. s # <<>> /\ Top(p).at = "opendir" /\ ~IsDir(tree, top)
    BY <1>12, <1>19 DEF OpendirFails, Busy, Top, Quiet, Refused, OfDirectory
  <2> QED
    BY <1>1, <1>3, <2>1 DEF KnowsAt, OfDirectory
<1>13. CASE ReaddirEntry(p)
  <2>1. /\ s # <<>> /\ Busy(p, "readdir") /\ Top(p).at = "readdir"
        /\ UNCHANGED <<tree, setting, operand, ret, exited>>
    BY <1>13 DEF ReaddirEntry, Busy, Top
  <2>2. PICK n \in Readable(tree, Top(p).dir, Top(p)) :
          LET read == Append(Front(stack[p]), [Top(p) EXCEPT !.seen = @ \cup {n}])
          IN  stack' = [stack EXCEPT ![p] =
                IF n \in Ignored THEN read
                                 ELSE Append(read, Call(FullName(Top(p).path, n)))]
    BY <1>13 DEF ReaddirEntry
  <2>3. CASE n \in Ignored
    <3> DEFINE act == [Top(p) EXCEPT !.seen = @ \cup {n}]
    <3>1. /\ act \in Activation /\ act.path = top /\ act.at = "readdir"
          /\ act.snap = Top(p).snap /\ act.seen = Top(p).seen \cup {n}
      BY <1>1, <2>1, NamesRead DEF Activation
    <3>2. GoOn(p, act)
      BY <2>2, <2>3 DEF GoOn
    <3> HIDE DEF act
    <3>3. act.snap \ act.seen \subseteq Entries(tree, act.path) \cup Dots
      BY <1>3, <2>1, <3>1
    <3> QED
      BY <1>3, <2>1, <3>1, <3>2, <3>3, GoOnKeepsExact
  <2>4. CASE n \notin Ignored
    BY <1>19, <2>1, <2>2, <2>4, DescendKeepsExact
  <2> QED
    BY <2>3, <2>4
<1>14. CASE ReaddirEnd(p)
  <2>1. /\ s # <<>> /\ Top(p).at = "readdir"
        /\ UNCHANGED <<tree, setting, operand, ret, exited>>
    BY <1>14 DEF ReaddirEnd, Busy, Top
  <2> DEFINE act == [Top(p) EXCEPT !.at = "rmdir", !.dir = <<>>, !.snap = {}, !.seen = {}]
  <2>2. act \in Activation /\ act.path = top /\ act.at = "rmdir"
    BY <1>1, <2>1, RootIsPath DEF Activation, Calls
  <2>3. GoOn(p, act)
    BY <1>14 DEF ReaddirEnd
  <2> HIDE DEF act
  <2> QED
    BY <1>3, <2>1, <2>2, <2>3, GoOnKeepsExact
<1>15. CASE RmdirDone(p)
  <2>1. /\ s # <<>> /\ Top(p).at = "rmdir" /\ CanRmdir(tree, top)
        /\ tree' = Without(tree, top)
        /\ UNCHANGED <<setting, operand, exited, ret>>
        /\ stack' = [stack EXCEPT ![p] = Front(stack[p])]
    BY <1>15, <1>19 DEF RmdirDone, Busy, Top, Return
  <2>2. Exists(tree, top) /\ top # <<>> /\ c.recursive /\ ~Exists(tree', top)
    BY <1>1, <2>1 DEF CanRmdir, IsDir, OfDirectory, Without, Exists
  <2>3. Removable(c, c.args[operand[p]])
    BY <2>1, <2>2, OperandIsRemovable
  <2>4. Len(s) = 1 => ~Rejected(c, operand[p])
    BY <2>2, VerdictOfRemoval
  <2> QED
    BY <2>1, <2>2, <2>3, <2>4, PopKeepsExact
<1>16. CASE RmdirFails(p)
  <2>1. /\ s # <<>> /\ Top(p).at = "rmdir" /\ ~CanRmdir(tree, top)
        /\ UNCHANGED <<tree, setting, operand, exited>>
        /\ stack' = [stack EXCEPT ![p] = Front(stack[p])]
        /\ ret'[p] = 1
    BY <1>16, <1>19 DEF RmdirFails, Busy, Top, Fail, TypeOK, Quiet, Refused
  <2>2. Entries(tree, top) = {} /\ top = <<>>
    BY <1>1, <1>3, <2>1 DEF KnowsAt, OfDirectory, CanRmdir
  <2>3. Len(s) = 1 /\ ~(Len(s) >= 2)
    BY <1>1, <2>1, <2>2
  <2>4. Rejected(c, operand[p])
    BY <1>1, <2>1, <2>2, <2>3 DEF Rejected
  <2> QED
    BY <2>1, <2>2, <2>3, <2>4, PopKeepsExact
<1>17. CASE UnlinkDone(p)
  <2>1. /\ s # <<>> /\ Top(p).at = "unlink" /\ CanUnlink(tree, top)
        /\ tree' = Without(tree, top)
        /\ UNCHANGED <<setting, operand, exited, ret>>
        /\ stack' = [stack EXCEPT ![p] = Front(stack[p])]
    BY <1>17, <1>19 DEF UnlinkDone, Busy, Top, Return
  <2>2. Exists(tree, top) /\ top # <<>> /\ ~IsDir(tree, top) /\ ~Exists(tree', top)
    BY <1>2, <2>1 DEF CanUnlink, IsTree, Without, Exists
  <2>3. Removable(c, c.args[operand[p]])
    BY <2>1, <2>2, OperandIsRemovable
  <2>4. Len(s) = 1 => ~Rejected(c, operand[p])
    BY <2>2, VerdictOfRemoval
  <2> QED
    BY <2>1, <2>2, <2>3, <2>4, PopKeepsExact
<1>18. CASE UnlinkFails(p)
  <2>1. s # <<>> /\ Top(p).at = "unlink" /\ ~CanUnlink(tree, top)
    BY <1>18, <1>19 DEF UnlinkFails, Busy, Top, Quiet, Refused
  <2> QED
    BY <1>1, <1>3, <2>1 DEF KnowsAt, CanUnlink
<1> QED
  BY <1>5, <1>6, <1>7, <1>8, <1>9, <1>10, <1>11, <1>12, <1>13, <1>14, <1>15, <1>16,
     <1>17, <1>18 DEF Step

\* A process with no operands does nothing but return.
LEMMA IdleOnlyExits ==
  ASSUME TypeOK, NEW q \in Proc, AccountedFor(q), cmd[q].args = <<>>, Step(q)
  PROVE  Exit(q)
<1>1. operand[q] \in Nat /\ operand[q] <= 0
  BY DEF TypeOK, AccountedFor
<1>2. stack[q] = <<>>
  BY <1>1 DEF AccountedFor, InOperand
<1>3. ~(operand[q] < Len(cmd[q].args))
  BY <1>1
<1> QED
  BY <1>2, <1>3 DEF Step, NextOperand, LstatAbsent, LstatFails, LstatDir, LstatOther,
         OpendirDone, OpendirFails, ReaddirEntry, ReaddirEnd, RmdirDone, RmdirFails,
         UnlinkDone, UnlinkFails, Busy

LEMMA NextKeepsExact ==
  TypeOK /\ TypeOK' /\ Trodden /\ Accounted /\ Clears /\ Exact /\ [Next]_vars => Exact'
<1> SUFFICES ASSUME TypeOK, TypeOK', Trodden, Accounted, Clears, Exact, [Next]_vars,
                    NEW p \in Proc, Quiet', Alone(p)'
             PROVE  ExactFor(p)'
  BY DEF Exact
<1>1. setting' = setting
  BY StepOfOne DEF Next, Done, Create, CreateLink, vars
<1>2. Quiet /\ Alone(p)
  BY <1>1 DEF Quiet, Alone
<1>3. ExactFor(p) /\ AccountedFor(p) /\ ClearsFor(p)
  BY <1>2 DEF Exact, Accounted, Clears
<1>4. CASE Step(p)
  BY <1>2, <1>3, <1>4, StepKeepsExact
<1>5. CASE \E q \in Proc \ {p} : Step(q)
  <2>1. PICK q \in Proc \ {p} : Step(q)
    BY <1>5
  <2>2. Exit(q)
    BY <1>2, <2>1, IdleOnlyExits DEF Alone, Accounted
  <2>3. tree' = tree
    BY <2>2 DEF Exit
  <2> QED
    BY <1>1, <1>3, <2>1, <2>3, StepOfOne, WaitKeepsExact
<1>6. CASE \E f \in setting.fresh : Create(f)
  BY <1>2, <1>6 DEF Quiet
<1>7. CASE \E l \in setting.links : CreateLink(l)
  BY <1>2, <1>7 DEF Quiet
<1>8. CASE UNCHANGED vars
  BY <1>3, <1>8, WaitKeepsExact DEF vars
<1> QED
  BY <1>4, <1>5, <1>6, <1>7, <1>8 DEF Next, Done

LEMMA InitExact == Init => Exact
<1> SUFFICES ASSUME Init, NEW p \in Proc PROVE ExactFor(p)
  BY DEF Exact
<1>1. /\ stack[p] = <<>> /\ operand[p] = 0 /\ tree = setting.tree /\ ret[p] = 0
      /\ ~exited[p]
  BY DEF Init
<1>2. OnlyLost /\ Holds(p) /\ Finished(p) = {}
  BY <1>1 DEF OnlyLost, Holds, Finished
<1> QED
  BY <1>1, <1>2 DEF ExactFor

\* The inductive invariant: what a lone rm works on is there until it removes it
\* itself, and what it has removed lies at or below an operand to be removed.
THEOREM ExactHolds == Spec => []Exact
<1>1. TypeOK /\ TypeOK' /\ Trodden /\ Accounted /\ Clears /\ Exact /\ [Next]_vars => Exact'
  BY NextKeepsExact
<1> QED
  BY <1>1, InitExact, TypeCorrect, TroddenHolds, AccountsHold, ClearsHold, PTL DEF Spec

\* A lone rm on a quiet system removes exactly what it was told to, and its exit
\* status tells exactly whether an operand was rejected: for every tree, every
\* list of operands and both options.
THEOREM LoneIsExact == Spec => []LoneRmIsExact
<1>1. TypeOK /\ Accounted /\ Exact => LoneRmIsExact
  <2> SUFFICES ASSUME TypeOK, Accounted, Exact, NEW p \in Proc, Quiet, Alone(p), exited[p]
               PROVE  LET c == cmd[p]
                      IN  /\ ret[p] = 1 <=> c.args = <<>> \/ \E i \in DOMAIN c.args : Rejected(c, i)
                          /\ tree = [q \in {q \in DOMAIN setting.tree :
                                \A i \in DOMAIN c.args :
                                  Removable(c, c.args[i]) /\ IsPrefix(c.args[i], q) => q = <<>>}
                               |-> setting.tree[q]]
    BY DEF LoneRmIsExact
  <2> DEFINE c == cmd[p]
             Kept == {q \in DOMAIN setting.tree :
                        \A i \in DOMAIN c.args :
                          Removable(c, c.args[i]) /\ IsPrefix(c.args[i], q) => q = <<>>}
  <2>1. ExactFor(p) /\ AccountedFor(p) /\ IsTree(tree)
    BY DEF Exact, Accounted, TypeOK
  <2>2. Finished(p) = DOMAIN c.args /\ Begun(p) \subseteq DOMAIN c.args
    <3>1. /\ operand[p] = Len(c.args) /\ stack[p] = <<>> /\ c.args \in Seq(Path)
          /\ Len(c.args) \in Nat
      BY <2>1, OperandsArePaths DEF AccountedFor
    <3> QED
      BY <3>1 DEF Finished, Begun
  <2>3. ret[p] = 1 <=> c.args = <<>> \/ \E i \in DOMAIN c.args : Rejected(c, i)
    BY <2>1, <2>2 DEF ExactFor
  <2>4. DOMAIN tree \subseteq Kept
    BY <2>1, <2>2 DEF ExactFor, OnlyLost, Emptied
  <2>5. Kept \subseteq DOMAIN tree
    <3> SUFFICES ASSUME NEW q \in DOMAIN setting.tree, q \notin DOMAIN tree, q \in Kept
                 PROVE  FALSE
      OBVIOUS
    <3>1. PICK i \in Begun(p) : Removable(c, c.args[i]) /\ IsPrefix(c.args[i], q)
      BY <2>1 DEF ExactFor
    <3>2. q = <<>>
      BY <2>2, <3>1
    <3> QED
      BY <2>1, <3>2 DEF IsTree, IsDir, Exists
  <2>6. tree = [q \in DOMAIN tree |-> tree[q]]
    BY <2>1 DEF IsTree
  <2> QED
    BY <2>1, <2>3, <2>4, <2>5, <2>6 DEF ExactFor, OnlyLost
<1> QED
  BY <1>1, TypeCorrect, AccountsHold, ExactHolds, PTL
===============================================================================
