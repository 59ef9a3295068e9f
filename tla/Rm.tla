---------------------------------- MODULE Rm ----------------------------------
(***************************************************************************)
(* src/rm.c: `rm [-rf] FILES...`, run by several processes at once on one  *)
(* file tree, while other programs may add entries to it and any system    *)
(* call may be refused.  One action is one system call with the code that  *)
(* follows it up to the next call.                                         *)
(***************************************************************************)
EXTENDS Integers, FileSystem

CONSTANTS Proc,      \* the rm processes
          Settings   \* what they may meet, see below

Command == [args : Seq(Path), force : BOOLEAN, recursive : BOOLEAN]

Calls == {"lstat", "opendir", "rmdir", "unlink"}

(***************************************************************************)
(* A setting: the tree at the start, the command line of every process,    *)
(* the files and directories (fresh) and the symbolic links other programs *)
(* may create, and the calls that may be refused (EACCES, EMFILE...).      *)
(* Other programs bring no operand back, and no operand leads through a    *)
(* symbolic link.                                                          *)
(***************************************************************************)
Setting(s) ==
  /\ IsTree(s.tree)
  /\ s.cmd \in [Proc -> Command]
  /\ \A p \in Proc : \A i \in DOMAIN s.cmd[p].args : ~ThroughLink(s.tree, s.cmd[p].args[i])
  /\ s.fresh \subseteq Path
  /\ s.links \subseteq [at : Path, to : Path]
  /\ s.faults \subseteq Calls
  /\ \A p \in Proc : \A i \in DOMAIN s.cmd[p].args :
       /\ s.cmd[p].args[i] \notin s.fresh
       /\ \A l \in s.links : ~IsPrefix(l.at, s.cmd[p].args[i])

ASSUME SettingsAssumption == \A s \in Settings : Setting(s)

VARIABLES tree,     \* the shared file tree
          setting,  \* the setting of this run
          operand,  \* operand[p]: the index of the operand p works on
          stack,    \* stack[p]: the activations of rm(), the innermost last
          ret,      \* ret[p]: the static int ret, the exit status to be
          exited    \* exited[p]: p has returned from rm_main

vars == <<tree, setting, operand, stack, ret, exited>>

cmd == setting.cmd   \* cmd[p]: what p was started with

(***************************************************************************)
(* An activation of rm(path): the call it makes next, the directory it has *)
(* open, the entries this had when it was opened, and those readdir has    *)
(* returned.                                                               *)
(***************************************************************************)
Activation == [at : Calls \cup {"readdir"}, path : Path, dir : Path,
               snap : SUBSET (Name \cup Dots),
               seen : SUBSET (Name \cup Dots)]

Call(path) == [at |-> "lstat", path |-> path, dir |-> <<>>, snap |-> {}, seen |-> {}]

\* The type invariant: the tree stays a tree, and the exit status of rm_main is
\* 0 or 1 whatever rm() returns.
TypeOK ==
  /\ setting \in Settings
  /\ IsTree(tree)
  /\ operand \in [Proc -> Nat]
  /\ stack \in [Proc -> Seq(Activation)]
  /\ ret \in [Proc -> {0, 1}]
  /\ exited \in [Proc -> BOOLEAN]

-------------------------------------------------------------------------------
Init ==
  /\ setting \in Settings
  /\ tree = setting.tree
  /\ operand = [p \in Proc |-> 0]
  /\ stack = [p \in Proc |-> <<>>]
  /\ ret = [p \in Proc |-> 0]
  /\ exited = [p \in Proc |-> FALSE]

Busy(p, call) == stack[p] # <<>> /\ Last(stack[p]).at = call
Top(p) == Last(stack[p])

\* What lstat, unlink and rmdir name by the path, and what opendir does: opendir
\* follows a link in the last place, too.
Place(p)  == NoFollow(tree, Top(p).path)
Opened(p) == Follow(tree, Top(p).path)

GoOn(p, act) == stack' = [stack EXCEPT ![p] = Append(Front(stack[p]), act)]

\* `return 0;` and `perror(path); ret = 1; return -1;`
Return(p) == stack' = [stack EXCEPT ![p] = Front(stack[p])] /\ ret' = ret
Fail(p)   == /\ stack' = [stack EXCEPT ![p] = Front(stack[p])]
             /\ ret' = [ret EXCEPT ![p] = 1]

IgnoredOnlyDot == {"."}

\* Entries that readdir returns and the loop passes over.
Ignored == Dots

\* sprintf(full_name, "%s/%s", path, name), and where that path leads.
FullName(path, n) ==
  CASE n = "."  -> path
    [] n = ".." -> IF path = <<>> THEN path ELSE Front(path)
    [] OTHER    -> Append(path, n)

\* The loop of rm_main calls rm() on the next operand.
NextOperand(p) ==
  /\ stack[p] = <<>> /\ ~exited[p] /\ operand[p] < Len(cmd[p].args)
  /\ operand' = [operand EXCEPT ![p] = @ + 1]
  /\ stack' = [stack EXCEPT ![p] = <<Call(cmd[p].args[operand[p] + 1])>>]
  /\ UNCHANGED <<tree, setting, ret, exited>>

\* rm_main returns: at once with status 1 when there is no operand.
Exit(p) ==
  /\ stack[p] = <<>> /\ ~exited[p] /\ operand[p] = Len(cmd[p].args)
  /\ exited' = [exited EXCEPT ![p] = TRUE]
  /\ ret' = IF cmd[p].args = <<>> THEN [ret EXCEPT ![p] = 1] ELSE ret
  /\ UNCHANGED <<tree, setting, operand, stack>>

Refused(call) == call \in setting.faults

LstatAbsentAlwaysFails(p) ==
  /\ Busy(p, "lstat")
  /\ ~Exists(tree, Place(p)) /\ ~Obstructed(tree, Top(p).path)
  /\ Fail(p)
  /\ UNCHANGED <<tree, setting, operand, exited>>

\* lstat() of the path, and the branches of rm() on what it says.
LstatAbsent(p) ==
  /\ Busy(p, "lstat")
  /\ ~Exists(tree, Place(p)) /\ ~Obstructed(tree, Top(p).path)
  /\ IF cmd[p].force THEN Return(p) ELSE Fail(p)
  /\ UNCHANGED <<tree, setting, operand, exited>>

\* errno is not ENOENT: with -f, too, this counts as an error.
LstatFails(p) ==
  /\ Busy(p, "lstat") /\ (Obstructed(tree, Top(p).path) \/ Refused("lstat"))
  /\ Fail(p)
  /\ UNCHANGED <<tree, setting, operand, exited>>

LstatDir(p) ==
  /\ Busy(p, "lstat") /\ IsDir(tree, Place(p))
  /\ IF cmd[p].recursive
     THEN GoOn(p, [Top(p) EXCEPT !.at = "opendir"]) /\ ret' = ret
     ELSE Fail(p)
  /\ UNCHANGED <<tree, setting, operand, exited>>

LstatOther(p) ==
  /\ Busy(p, "lstat") /\ Exists(tree, Place(p)) /\ ~IsDir(tree, Place(p))
  /\ GoOn(p, [Top(p) EXCEPT !.at = "unlink"])
  /\ UNCHANGED <<tree, setting, operand, ret, exited>>

\* opendir() of a directory that may be gone since lstat() saw it, or be a link
\* by now, which opendir follows.
OpendirDone(p) ==
  /\ Busy(p, "opendir") /\ IsDir(tree, Opened(p))
  /\ GoOn(p, [Top(p) EXCEPT !.at = "readdir", !.dir = Opened(p),
                            !.snap = Entries(tree, Opened(p)) \cup Dots])
  /\ UNCHANGED <<tree, setting, operand, ret, exited>>

OpendirFails(p) ==
  /\ Busy(p, "opendir") /\ (~IsDir(tree, Opened(p)) \/ Refused("opendir"))
  /\ Fail(p)
  /\ UNCHANGED <<tree, setting, operand, exited>>

ReaddirEntry(p) ==
  /\ Busy(p, "readdir")
  /\ \E n \in Readable(tree, Top(p).dir, Top(p)) :
       LET read == Append(Front(stack[p]), [Top(p) EXCEPT !.seen = @ \cup {n}])
       IN  stack' = [stack EXCEPT ![p] =
             IF n \in Ignored THEN read
                              ELSE Append(read, Call(FullName(Top(p).path, n)))]
  /\ UNCHANGED <<tree, setting, operand, ret, exited>>

ReaddirEndOnError(p) ==
  /\ Busy(p, "readdir") /\ (Pending(tree, Top(p).dir, Top(p)) = {} \/ ret[p] = 1)
  /\ GoOn(p, [Top(p) EXCEPT !.at = "rmdir", !.dir = <<>>, !.snap = {}, !.seen = {}])
  /\ UNCHANGED <<tree, setting, operand, ret, exited>>

ReaddirEnd(p) ==
  /\ Busy(p, "readdir") /\ Pending(tree, Top(p).dir, Top(p)) = {}
  /\ GoOn(p, [Top(p) EXCEPT !.at = "rmdir", !.dir = <<>>, !.snap = {}, !.seen = {}])
  /\ UNCHANGED <<tree, setting, operand, ret, exited>>

RmdirDone(p) ==
  /\ Busy(p, "rmdir") /\ CanRmdir(tree, Place(p))
  /\ tree' = Without(tree, Place(p))
  /\ Return(p)
  /\ UNCHANGED <<setting, operand, exited>>

RmdirFailsQuietly(p) ==
  /\ Busy(p, "rmdir") /\ (~CanRmdir(tree, Place(p)) \/ Refused("rmdir"))
  /\ Return(p)
  /\ UNCHANGED <<tree, setting, operand, exited>>

RmdirFailsAndRetries(p) ==
  /\ Busy(p, "rmdir") /\ (~CanRmdir(tree, Place(p)) \/ Refused("rmdir"))
  /\ GoOn(p, [Top(p) EXCEPT !.at = "lstat"])
  /\ UNCHANGED <<tree, setting, operand, ret, exited>>

RmdirFails(p) ==
  /\ Busy(p, "rmdir") /\ (~CanRmdir(tree, Place(p)) \/ Refused("rmdir"))
  /\ Fail(p)
  /\ UNCHANGED <<tree, setting, operand, exited>>

UnlinkDone(p) ==
  /\ Busy(p, "unlink") /\ CanUnlink(tree, Place(p))
  /\ tree' = Without(tree, Place(p))
  /\ Return(p)
  /\ UNCHANGED <<setting, operand, exited>>

UnlinkFails(p) ==
  /\ Busy(p, "unlink") /\ (~CanUnlink(tree, Place(p)) \/ Refused("unlink"))
  /\ Fail(p)
  /\ UNCHANGED <<tree, setting, operand, exited>>

\* Some other program makes a file or a directory.
Create(q) ==
  /\ CanMake(tree, q)
  /\ \E node \in {Dir, File(0)} : tree' = With(tree, q, node)
  /\ UNCHANGED <<setting, operand, stack, ret, exited>>

\* Some other program makes a symbolic link, none that leads to a link.
CreateLink(l) ==
  /\ CanMake(tree, l.at)
  /\ tree' = With(tree, l.at, Link(l.to)) /\ IsTree(tree')
  /\ UNCHANGED <<setting, operand, stack, ret, exited>>

Step(p) ==
  \/ NextOperand(p) \/ Exit(p)
  \/ LstatAbsent(p) \/ LstatFails(p) \/ LstatDir(p) \/ LstatOther(p)
  \/ OpendirDone(p) \/ OpendirFails(p)
  \/ ReaddirEntry(p) \/ ReaddirEnd(p)
  \/ RmdirDone(p) \/ RmdirFails(p) \/ UnlinkDone(p) \/ UnlinkFails(p)

Done == (\A p \in Proc : exited[p]) /\ UNCHANGED vars

Next == \/ \E p \in Proc : Step(p)
        \/ \E q \in setting.fresh : Create(q)
        \/ \E l \in setting.links : CreateLink(l)
        \/ Done

\* The kernel runs every process again and again; it owes other programs nothing.
Spec == Init /\ [][Next]_vars /\ \A p \in Proc : WF_vars(Step(p))

-------------------------------------------------------------------------------
(***************************************************************************)
(* What rm promises.                                                       *)
(***************************************************************************)

\* An exit status of 0 means that every operand is gone: no refused call,
\* no race with another rm or with a program that fills the directories
\* being emptied leaves one behind unreported (`ret = 1` on every error
\* path of rm(), lines 34, 41, 49, 78, 86).
SuccessMeansGone ==
  \A p \in Proc : exited[p] /\ ret[p] = 0 =>
    \A i \in DOMAIN cmd[p].args : ~Exists(tree, cmd[p].args[i])

(***************************************************************************)
(* Where p can come: below the operands it has reached and, when another   *)
(* program puts a link in the place of a directory between lstat (line 27) *)
(* and opendir (line 45), to where that link leads, and on from there by   *)
(* any link.                                                               *)
(***************************************************************************)
Below(S, q) == \E u \in S : IsPrefix(u, q)

Begins(p) == {cmd[p].args[i] : i \in 1..operand[p]}

LinkEnds == {l.to : l \in setting.links}
       \cup {setting.tree[q].to : q \in {q \in DOMAIN setting.tree : IsLink(setting.tree, q)}}

Astray(p, S) ==
  /\ \A l \in setting.links : Below(Begins(p) \cup S, l.at) => l.to \in S
  /\ \A q \in DOMAIN setting.tree :
       IsLink(setting.tree, q) /\ Below(S, q) => setting.tree[q].to \in S

\* Only what lies at or below an operand some rm has reached disappears: "."
\* and ".." are passed over (lines 58-64) and the links found there are removed,
\* not descended into (lstat, line 27).  What a link made by another program in
\* the middle of the work can lead rm to is all that can be lost besides.
OnlyOperands ==
  [][\A q \in DOMAIN tree \ DOMAIN tree' :
       \E p \in Proc : \A S \in SUBSET LinkEnds :
         Astray(p, S) => Below(Begins(p) \cup S, q)]_vars

Quiet == setting.fresh = {} /\ setting.links = {} /\ setting.faults = {}

\* Nothing at or below the path is left; the working directory itself stays,
\* as rmdir(2) refuses to remove it.
Emptied(path) == \A q \in DOMAIN tree : IsPrefix(path, q) => q = <<>>

\* When no call is refused and nothing is created, `rm -r` leaves nothing of
\* its operands, whatever other rm processes take away under its feet and
\* whatever status it then reports: no error inside the loop of lines 54-72
\* ends it early.
RecursiveRemovesAll ==
  Quiet => \A p \in Proc : exited[p] /\ cmd[p].recursive =>
             \A i \in DOMAIN cmd[p].args : Emptied(cmd[p].args[i])

\* Every rm returns, even while another program goes on filling the very
\* directories it empties: readdir returns a name once and no call is
\* tried again.
Termination == \A p \in Proc : <>exited[p]

(***************************************************************************)
(* A single rm on a quiet system, operand by operand: what an operand      *)
(* comes to depends on the starting tree and the operands before it.       *)
(***************************************************************************)
Alone(p) == \A q \in Proc \ {p} : cmd[q].args = <<>>

Removable(c, path) ==
  Exists(setting.tree, path) /\ (IsDir(setting.tree, path) => c.recursive)

Taken(c, i) ==
  \E j \in 1..(i-1) : Removable(c, c.args[j]) /\ IsPrefix(c.args[j], c.args[i])

Rejected(c, i) ==
  \/ c.args[i] = <<>>
  \/ ~c.force /\ (Taken(c, i) \/ ~Exists(setting.tree, c.args[i]))
  \/ ~Taken(c, i) /\ ThroughFile(setting.tree, c.args[i])
  \/ ~Taken(c, i) /\ IsDir(setting.tree, c.args[i]) /\ ~c.recursive

\* A lone rm removes exactly the removable operands with all below them (of the
\* working directory, only what is in it), and its status is 1 exactly if there is no operand or one is rejected.
LoneRmIsExact ==
  \A p \in Proc : Quiet /\ Alone(p) /\ exited[p] =>
    LET c == cmd[p]
    IN  /\ ret[p] = 1 <=> c.args = <<>> \/ \E i \in DOMAIN c.args : Rejected(c, i)
        /\ tree = [q \in {q \in DOMAIN setting.tree :
                            \A i \in DOMAIN c.args :
                              Removable(c, c.args[i]) /\ IsPrefix(c.args[i], q) => q = <<>>}
                   |-> setting.tree[q]]

(***************************************************************************)
(* Why status 0 is honest: every operand rm is done with is gone or        *)
(* reported, the first activation is the one for the current               *)
(* operand, and every other activation works below it.                     *)
(***************************************************************************)
Finished(p) == {i \in 1..operand[p] : i < operand[p] \/ stack[p] = <<>>}

\* An operand rm is done with is gone, or the exit status will tell (the
\* `ret = 1` of lines 34, 41, 49, 78 and 86).
GoneOrReported(p) ==
  \A i \in Finished(p) : ret[p] = 1 \/ ~Exists(tree, cmd[p].args[i])

\* rm() works on the operand it was called with and, when it calls itself,
\* on what lies below (line 71).
InOperand(p) ==
  stack[p] # <<>> =>
    /\ operand[p] >= 1
    /\ stack[p][1].path = cmd[p].args[operand[p]]
    /\ \A k \in 1..Len(stack[p]) : IsPrefix(cmd[p].args[operand[p]], stack[p][k].path)

AccountedFor(p) ==
  /\ operand[p] <= Len(cmd[p].args)
  /\ exited[p] => stack[p] = <<>> /\ operand[p] = Len(cmd[p].args)
  /\ GoneOrReported(p)
  /\ InOperand(p)

\* The inductive invariant behind SuccessMeansGone: what rm
\* has dealt with, what it works on and what it still has to do add up to the
\* operands it was given.
Accounted == \A p \in Proc : AccountedFor(p)

(***************************************************************************)
(* Why rm keeps to the places of OnlyOperands: a link on its way that was  *)
(* there from the start it has passed by, whatever lies on the way now.    *)
(***************************************************************************)
\* A link of the tree that no other program has made.
OldLink(q) == IsLink(tree, q) /\ [at |-> q, to |-> tree[q].to] \notin setting.links

OldLinksStay == \A q : OldLink(q) => IsLink(setting.tree, q) /\ setting.tree[q] = tree[q]

OfDirectory == {"opendir", "readdir", "rmdir"}

\* The directories an activation has come through, and the one lstat has found,
\* are no old links.
TroddenAt(a) ==
  \A i \in 1..Len(a.path) :
    i < Len(a.path) \/ a.at \in OfDirectory => ~OldLink(SubSeq(a.path, 1, i))

Treads(p) == \A k \in 1..Len(stack[p]) : TroddenAt(stack[p][k])

\* The inductive invariant behind OnlyOperands.
Trodden == OldLinksStay /\ \A p \in Proc : Treads(p)

(***************************************************************************)
(* Why rm -r leaves nothing when nothing is created or refused: what every *)
(* activation knows of its directory stays true whatever others remove.    *)
(***************************************************************************)
\* In a stack s of activations, each but the last is in the loop of lines 54-72,
\* in its call for an entry it has read.
DescendsAt(s, k, recursive) ==
  LET a == s[k]
  IN  /\ a.at \in OfDirectory => recursive
      /\ a.at # "readdir" => a.seen = {}
      /\ Len(a.path) = Len(s[1].path) + k - 1
      /\ k < Len(s) => /\ a.at = "readdir"
                       /\ \E n \in a.seen \cap Name : s[k + 1].path = Append(a.path, n)

\* In a tree t, lstat told a directory from the rest; every entry of a directory
\* being read is still to be read, or gone, or what the next activation is about;
\* a directory about to be removed is empty.
KnowsAt(s, k, t) ==
  LET a == s[k]
  IN  /\ Exists(t, a.path) => /\ a.at \in OfDirectory => IsDir(t, a.path)
                              /\ a.at = "unlink" => ~IsDir(t, a.path)
      /\ a.at = "readdir" =>
           /\ a.dir = a.path
           /\ Entries(t, a.path) \subseteq a.snap
           /\ \A n \in a.seen \cap Entries(t, a.path) :
                k < Len(s) /\ s[k + 1].path = Append(a.path, n)
      /\ a.at = "rmdir" => Entries(t, a.path) = {}

Descends(p) == \A k \in 1..Len(stack[p]) : DescendsAt(stack[p], k, cmd[p].recursive)
Knows(p)    == \A k \in 1..Len(stack[p]) : KnowsAt(stack[p], k, tree)

ClearsFor(p) ==
  /\ Descends(p)
  /\ Knows(p)
  /\ cmd[p].recursive => \A i \in Finished(p) : Emptied(cmd[p].args[i])

\* The inductive invariant behind RecursiveRemovesAll.
Clears == Quiet => \A p \in Proc : ClearsFor(p)

(***************************************************************************)
(* Why a lone rm is exact: nothing it works on goes away before it removes *)
(* it itself, so that only the calls for an operand can fail.              *)
(***************************************************************************)
OnlyLost == /\ DOMAIN tree \subseteq DOMAIN setting.tree
            /\ \A q \in DOMAIN tree : tree[q] = setting.tree[q]

\* The operands rm has seen to exist or not.
Begun(p) == {i \in 1..operand[p] :
               i < operand[p] \/ stack[p] = <<>> \/ stack[p][1].at # "lstat"}

\* What an activation works on is there, and so is every entry to be read.
HoldsAt(s, k, t) ==
  LET a == s[k]
  IN  /\ k >= 2 \/ a.at # "lstat" => Exists(t, a.path)
      /\ a.at = "readdir" => a.snap \ a.seen \subseteq Entries(t, a.path) \cup Dots

Holds(p) == \A k \in 1..Len(stack[p]) : HoldsAt(stack[p], k, tree)

ExactFor(p) ==
  LET c == cmd[p]
  IN  /\ OnlyLost
      /\ Holds(p)
      /\ \A q \in DOMAIN setting.tree \ DOMAIN tree : \E i \in Begun(p) :
            Removable(c, c.args[i]) /\ IsPrefix(c.args[i], q)
      /\ \A i \in Finished(p) : Removable(c, c.args[i]) => Emptied(c.args[i])
      /\ ret[p] = 1 <=> \/ exited[p] /\ c.args = <<>>
                        \/ \E i \in Finished(p) : Rejected(c, i)

\* The inductive invariant behind LoneRmIsExact.
Exact == \A p \in Proc : Quiet /\ Alone(p) => ExactFor(p)
===============================================================================
