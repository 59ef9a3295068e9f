--------------------------------- MODULE Names ---------------------------------
(***************************************************************************)
(* src/ln.c, src/mkdir.c, src/rmdir.c, src/touch.c and src/unlink.c: the   *)
(* commands that make and remove single names, run by several processes at *)
(* once on one file tree.  One action is one system call with the code     *)
(* that follows it up to the next call.                                    *)
(***************************************************************************)
EXTENDS Integers, FileSystem

CONSTANTS Proc,      \* the processes
          Settings   \* what they may meet, see below

(***************************************************************************)
(* A command line; paths are absolute, and slash says whether the last     *)
(* argument ends in '/'.  "dir" is -t and "file" -T of ln.  The path <<>>  *)
(* stands for the empty string.                                            *)
(***************************************************************************)
Flags == {"dir", "file", "force", "interactive", "symbolic",   \* ln
          "parents",                                           \* mkdir, rmdir
          "no_create", "access", "modify"}                     \* touch

Command == [prog : {"ln", "mkdir", "rmdir", "touch", "unlink"},
            args : Seq(Path), slash : BOOLEAN, flags : SUBSET Flags]

FlagsOf(prog) == CASE prog = "ln" -> {"dir", "file", "force", "interactive", "symbolic"}
                   [] prog \in {"mkdir", "rmdir"} -> {"parents"}
                   [] prog = "touch" -> {"no_create", "access", "modify"}
                   [] OTHER -> {}

(***************************************************************************)
(* A setting: the tree at the start, the command line of every process,    *)
(* what the user may type at a prompt (as in Cp), and the calls that may   *)
(* be refused.                                                             *)
(***************************************************************************)
Setting(s) ==
  /\ IsTree(s.tree)
  /\ s.cmd \in [Proc -> Command]
  /\ \A p \in Proc : /\ <<>> \in Range(s.cmd[p].args) => s.cmd[p].prog = "mkdir"
                     /\ s.cmd[p].slash => "file" \notin s.cmd[p].flags
                     /\ s.cmd[p].flags \subseteq FlagsOf(s.cmd[p].prog)
  /\ s.answers \subseteq {"line y", "line n", "bare y", "nothing"}
  /\ s.faults \subseteq {"remove", "link", "mkdir", "rmdir", "open", "unlink"}

ASSUME SettingsAssumption == \A s \in Settings : Setting(s)

VARIABLES tree,     \* the shared file tree
          setting,  \* the setting of this run
          at,       \* at[p]: the call p makes next, or its place in the main function
          target,   \* target[p]: what ln takes DESTINATION to be
          operand,  \* operand[p]: the index of the operand p works on
          depth,    \* depth[p]: how many names of the operand mkdir or rmdir now takes
          agreed,   \* agreed[p]: the user has said yes to replacing the image of the operand
          ret       \* ret[p]: the exit status to be

vars == <<tree, setting, at, target, operand, depth, agreed, ret>>

cmd == setting.cmd   \* cmd[p]: what p was started with

Given(p, flag) == flag \in cmd[p].flags
Refused(call)  == call \in setting.faults

Calls == {"stat_src", "lstat_dest", "prompt", "remove", "link", "mkdir", "rmdir", "open", "unlink"}

\* No path a call is given leads through a link: what it names is then what
\* the tree has under it, or in the last place what the link there points to.
Direct ==
  LET named == UNION {Range(cmd[p].args) : p \in Proc}
               \cup {tree[q].to : q \in {q \in DOMAIN tree : IsLink(tree, q)}}
  IN  \A path \in named : \A k \in 1..(Len(path) - 1) : ~IsLink(tree, SubSeq(path, 1, k))

\* The type invariant: a tree stays a tree, of links that do not lead to links.
TypeOK ==
  /\ Setting(setting) /\ IsTree(tree) /\ Direct
  /\ at \in [Proc -> Calls \cup {"start", "guess", "check", "loop", "exited"}]
  /\ target \in [Proc -> {"unset", "dir", "file"}]
  /\ operand \in [Proc -> Nat] /\ depth \in [Proc -> Nat]
  /\ agreed \in [Proc -> BOOLEAN] /\ ret \in [Proc -> {0, 1}]

-------------------------------------------------------------------------------
Init ==
  /\ setting \in Settings
  /\ tree = setting.tree
  /\ at = [p \in Proc |-> "start"]
  /\ target = [p \in Proc |-> "unset"]
  /\ operand = [p \in Proc |-> 0]
  /\ depth = [p \in Proc |-> 0]
  /\ agreed = [p \in Proc |-> FALSE]
  /\ ret = [p \in Proc |-> 0]

(***************************************************************************)
(* The main functions.  ln has a DESTINATION behind its operands.          *)
(***************************************************************************)
IsLn(p)     == cmd[p].prog = "ln"
Operands(p) == IF IsLn(p) THEN Front(cmd[p].args) ELSE cmd[p].args
Dest(p)     == Last(cmd[p].args)
Arg(p)      == Operands(p)[operand[p]]

Goto(p, place) == at' = [at EXCEPT ![p] = place]

Error(p)       == ret' = [ret EXCEPT ![p] = 1]

\* What stat() and open() reach under a path.
Behind(path) == IF IsLink(tree, path) THEN tree[path].to ELSE path

\* The name ln gives its i-th operand (dst).
Image(p, i) == IF target[p] = "dir" THEN Append(Behind(Dest(p)), Last(Operands(p)[i])) ELSE Dest(p)

\* A wrong number of arguments, or both -t and -T.
Misused(p) ==
  \/ IsLn(p) /\ (Len(cmd[p].args) < 2 \/ {"dir", "file"} \subseteq cmd[p].flags)
  \/ cmd[p].args = <<>>
  \/ cmd[p].prog = "unlink" /\ Len(cmd[p].args) > 1

Usage(p) ==
  /\ at[p] = "start" /\ Misused(p)
  /\ Goto(p, "exited") /\ Error(p)
  /\ UNCHANGED <<tree, setting, target, operand, depth, agreed>>

Start(p) ==
  /\ at[p] = "start" /\ ~Misused(p)
  /\ Goto(p, IF IsLn(p) THEN "guess" ELSE "loop")
  /\ UNCHANGED <<tree, setting, target, operand, depth, agreed, ret>>

\* ln without -t and -T: DESTINATION is a directory if it has to be or is one.
Guess(p) ==
  /\ at[p] = "guess"
  /\ target' = [target EXCEPT ![p] =
       IF \/ Given(p, "dir")
          \/ /\ ~Given(p, "file")
             /\ Len(cmd[p].args) > 2 \/ cmd[p].slash \/ IsDir(tree, Behind(Dest(p)))
       THEN "dir" ELSE "file"]
  /\ Goto(p, "check")
  /\ UNCHANGED <<tree, setting, operand, depth, agreed, ret>>

\* A second stat() has to agree, and -T takes one source.
Agrees(p) ==
  IF target[p] = "dir" THEN IsDir(tree, Behind(Dest(p)))
                       ELSE ~IsDir(tree, Behind(Dest(p))) /\ Len(cmd[p].args) = 2

Check(p) ==
  /\ at[p] = "check" /\ Agrees(p)
  /\ Goto(p, "loop")
  /\ UNCHANGED <<tree, setting, target, operand, depth, agreed, ret>>

CheckFails(p) ==
  /\ at[p] = "check" /\ ~Agrees(p)
  /\ Goto(p, "exited") /\ Error(p)
  /\ UNCHANGED <<tree, setting, target, operand, depth, agreed>>

\* mutant of FirstCall: ln does not look at its source
FirstCallUnchecked(p, arg) ==
  CASE IsLn(p) -> "lstat_dest"
    [] cmd[p].prog = "mkdir" -> IF arg = <<>> THEN "loop" ELSE "mkdir"
    [] cmd[p].prog = "touch" -> "open"
    [] OTHER -> cmd[p].prog

\* mkdir returns at once from an empty path.
FirstCall(p, arg) ==
  CASE IsLn(p) -> IF Given(p, "symbolic") THEN "lstat_dest" ELSE "stat_src"
    [] cmd[p].prog = "mkdir" -> IF arg = <<>> THEN "loop" ELSE "mkdir"
    [] cmd[p].prog = "touch" -> "open"
    [] OTHER -> cmd[p].prog

\* mkdir -p starts with the first directory of the path.
FirstDepth(p, arg) ==
  IF cmd[p].prog = "mkdir" /\ Given(p, "parents") /\ arg # <<>> THEN 1 ELSE Len(arg)

NextOperand(p) ==
  LET arg == Operands(p)[operand[p] + 1]
  IN  /\ at[p] = "loop" /\ operand[p] < Len(Operands(p))
      /\ operand' = [operand EXCEPT ![p] = @ + 1]
      /\ depth' = [depth EXCEPT ![p] = FirstDepth(p, arg)]
      /\ agreed' = [agreed EXCEPT ![p] = FALSE]
      /\ Goto(p, FirstCall(p, arg))
      /\ UNCHANGED <<tree, setting, target, ret>>

Exit(p) ==
  /\ at[p] = "loop" /\ operand[p] = Len(Operands(p))
  /\ Goto(p, "exited")
  /\ UNCHANGED <<tree, setting, target, operand, depth, agreed, ret>>

Main(p) == \/ Usage(p) \/ Start(p) \/ Guess(p) \/ Check(p) \/ CheckFails(p)
           \/ NextOperand(p) \/ Exit(p)

(***************************************************************************)
(* The functions for one operand end with nothing to report, end with an   *)
(* error, or go on with another call.                                      *)
(***************************************************************************)
fixed == <<setting, target, operand, agreed>>

Return(p)     == Goto(p, "loop") /\ UNCHANGED <<fixed, depth, ret>>
Fail(p)       == Goto(p, "loop") /\ Error(p) /\ UNCHANGED <<fixed, depth>>
To(p, call)   == Goto(p, call) /\ UNCHANGED <<fixed, depth, ret>>
Deepen(p, k)  == depth' = [depth EXCEPT ![p] = k] /\ UNCHANGED <<fixed, at, ret>>

-------------------------------------------------------------------------------
(***************************************************************************)
(* ln(src, dest).  A hard link to a directory is refused, but a link that  *)
(* points to nothing has a name and can have another.                      *)
(***************************************************************************)
Linkable(p) == Exists(tree, Arg(p)) /\ ~IsDir(tree, Behind(Arg(p)))
Dst(p)      == Image(p, operand[p])

StatSrc(p) ==
  /\ at[p] = "stat_src" /\ Linkable(p)
  /\ To(p, "lstat_dest") /\ UNCHANGED tree

StatSrcFails(p) ==
  /\ at[p] = "stat_src" /\ ~Linkable(p)
  /\ Fail(p) /\ UNCHANGED tree

LstatDestMissing(p) ==
  /\ at[p] = "lstat_dest" /\ ~Exists(tree, Dst(p))
  /\ To(p, "link") /\ UNCHANGED tree

\* mutant of LstatDestExists: no S_ISDIR test (line 55)
LstatDestExistsAsDir(p) ==
  /\ at[p] = "lstat_dest" /\ Exists(tree, Dst(p))
  /\ Given(p, "interactive") \/ Given(p, "force")
  /\ To(p, IF Given(p, "interactive") THEN "prompt" ELSE "remove")
  /\ UNCHANGED tree

\* -i is looked at first, so that it takes the place of -f.
LstatDestExists(p) ==
  /\ at[p] = "lstat_dest" /\ Exists(tree, Dst(p)) /\ ~IsDir(tree, Dst(p))
  /\ Given(p, "interactive") \/ Given(p, "force")
  /\ To(p, IF Given(p, "interactive") THEN "prompt" ELSE "remove")
  /\ UNCHANGED tree

LstatDestClashes(p) ==
  /\ at[p] = "lstat_dest" /\ Exists(tree, Dst(p))
  /\ IsDir(tree, Dst(p)) \/ ~(Given(p, "interactive") \/ Given(p, "force"))
  /\ Fail(p) /\ UNCHANGED tree

\* As in Cp: a newline behind the answer is compared too, and at the end of
\* the input the buffer is not initialised and may pass for a yes.
PromptYes(p) ==
  /\ at[p] = "prompt" /\ Goto(p, "remove")
  /\ \E a \in setting.answers \cap {"bare y", "nothing"} :
       agreed' = [agreed EXCEPT ![p] = a = "bare y"]
  /\ UNCHANGED <<tree, setting, target, operand, depth, ret>>

PromptNo(p) ==
  /\ at[p] = "prompt" /\ setting.answers \ {"bare y"} # {}
  /\ Fail(p) /\ UNCHANGED tree

\* remove() takes whatever is there by now, an empty directory as well.
Removable == {q \in DOMAIN tree : CanUnlink(tree, q) \/ CanRmdir(tree, q)}

RemoveDone(p) ==
  /\ at[p] = "remove" /\ Dst(p) \in Removable
  /\ tree' = Without(tree, Dst(p)) /\ To(p, "link")

RemoveFails(p) ==
  /\ at[p] = "remove" /\ (Dst(p) \notin Removable \/ Refused("remove"))
  /\ Fail(p) /\ UNCHANGED tree

\* link() gives the source itself another name, be it a link.
CanLink(p) == /\ CanMake(tree, Dst(p))
              /\ Given(p, "symbolic") \/ CanUnlink(tree, Arg(p))

MakeLink(p) ==
  /\ at[p] = "link" /\ CanLink(p)
  /\ tree' = With(tree, Dst(p), IF Given(p, "symbolic") THEN Link(Arg(p)) ELSE tree[Arg(p)])
  /\ Return(p)

MakeLinkFails(p) ==
  /\ at[p] = "link" /\ (~CanLink(p) \/ Refused("link"))
  /\ Fail(p) /\ UNCHANGED tree

Ln(p) == \/ StatSrc(p) \/ StatSrcFails(p)
         \/ LstatDestMissing(p) \/ LstatDestExists(p) \/ LstatDestClashes(p)
         \/ PromptYes(p) \/ PromptNo(p)
         \/ RemoveDone(p) \/ RemoveFails(p) \/ MakeLink(p) \/ MakeLinkFails(p)

(***************************************************************************)
(* make_dir(path): with -p, one mkdir() for each directory of the path     *)
(* from the first; EEXIST is then no error, whatever exists.               *)
(***************************************************************************)
Here(p) == SubSeq(Arg(p), 1, depth[p])

MkdirGoesOn(p) == IF depth[p] < Len(Arg(p)) THEN Deepen(p, depth[p] + 1) ELSE Return(p)

MkdirDone(p) ==
  /\ at[p] = "mkdir" /\ CanMake(tree, Here(p))
  /\ tree' = With(tree, Here(p), Dir) /\ MkdirGoesOn(p)

\* mutant of MkdirExists: EEXIST is never an error (line 64)
MkdirExistsAlways(p) ==
  /\ at[p] = "mkdir" /\ Exists(tree, Here(p))
  /\ MkdirGoesOn(p) /\ UNCHANGED tree

MkdirExists(p) ==
  /\ at[p] = "mkdir" /\ Exists(tree, Here(p)) /\ Given(p, "parents")
  /\ MkdirGoesOn(p) /\ UNCHANGED tree

\* mutant of MkdirFails: no `continue` for the parents (line 53)
MkdirFailsOnParents(p) ==
  /\ at[p] = "mkdir"
  /\ \/ ~CanMake(tree, Here(p)) /\ ~(Given(p, "parents") /\ depth[p] = Len(Arg(p)))
     \/ Refused("mkdir")
  /\ Fail(p) /\ UNCHANGED tree

MkdirFails(p) ==
  /\ at[p] = "mkdir"
  /\ \/ ~CanMake(tree, Here(p)) /\ ~(Exists(tree, Here(p)) /\ Given(p, "parents"))
     \/ Refused("mkdir")
  /\ Fail(p) /\ UNCHANGED tree

Mkdir(p) == MkdirDone(p) \/ MkdirExists(p) \/ MkdirFails(p)

(***************************************************************************)
(* do_rmdir(path): with -p, on to the directory the path lies in, until a  *)
(* call fails or the path has one name left.                               *)
(***************************************************************************)
RmdirGoesOn(p) ==
  IF Given(p, "parents") /\ depth[p] > 1 THEN Deepen(p, depth[p] - 1) ELSE Return(p)

RmdirDone(p) ==
  /\ at[p] = "rmdir" /\ CanRmdir(tree, Here(p))
  /\ tree' = Without(tree, Here(p)) /\ RmdirGoesOn(p)

\* mutant of RmdirFails: `ret` is not set (line 22)
RmdirFailsQuietly(p) ==
  /\ at[p] = "rmdir" /\ (~CanRmdir(tree, Here(p)) \/ Refused("rmdir"))
  /\ Return(p) /\ UNCHANGED tree

RmdirFails(p) ==
  /\ at[p] = "rmdir" /\ (~CanRmdir(tree, Here(p)) \/ Refused("rmdir"))
  /\ Fail(p) /\ UNCHANGED tree

Rmdir(p) == RmdirDone(p) \/ RmdirFails(p)

(***************************************************************************)
(* touch: open(), with O_CREAT unless -c.  A directory can only be opened  *)
(* for reading and without O_CREAT, which is -c -a.                        *)
(***************************************************************************)
ReadOnly(p) == Given(p, "access") /\ ~Given(p, "modify")

Opens(p) == LET f == Behind(Arg(p))
            IN  Exists(tree, f) /\ (IsDir(tree, f) => Given(p, "no_create") /\ ReadOnly(p))
Creates(p) == CanMake(tree, Behind(Arg(p))) /\ ~Given(p, "no_create")

TouchOpens(p) ==
  /\ at[p] = "open" /\ Opens(p)
  /\ Return(p) /\ UNCHANGED tree

TouchCreates(p) ==
  /\ at[p] = "open" /\ Creates(p)
  /\ tree' = With(tree, Behind(Arg(p)), File(0)) /\ Return(p)

TouchFails(p) ==
  /\ at[p] = "open" /\ ((~Opens(p) /\ ~Creates(p)) \/ Refused("open"))
  /\ Fail(p) /\ UNCHANGED tree

Touch(p) == TouchOpens(p) \/ TouchCreates(p) \/ TouchFails(p)

UnlinkDone(p) ==
  /\ at[p] = "unlink" /\ CanUnlink(tree, Arg(p))
  /\ tree' = Without(tree, Arg(p)) /\ Return(p)

UnlinkFails(p) ==
  /\ at[p] = "unlink" /\ (~CanUnlink(tree, Arg(p)) \/ Refused("unlink"))
  /\ Fail(p) /\ UNCHANGED tree

Unlink(p) == UnlinkDone(p) \/ UnlinkFails(p)

-------------------------------------------------------------------------------
Step(p) == Main(p) \/ Ln(p) \/ Mkdir(p) \/ Rmdir(p) \/ Touch(p) \/ Unlink(p)

AllExited == \A p \in Proc : at[p] = "exited"

Done == AllExited /\ UNCHANGED vars

Next == Done \/ \E p \in Proc : Step(p)

Spec == Init /\ [][Next]_vars

-------------------------------------------------------------------------------
Quiet == setting.faults = {}

Replaces(p) == IsLn(p) /\ (Given(p, "force") \/ Given(p, "interactive"))
Removes(p)  == cmd[p].args # <<>> /\ cmd[p].prog \in {"rmdir", "unlink"}
Makes(p)    == cmd[p].args # <<>> /\ cmd[p].prog \in {"ln", "mkdir", "touch"}

NothingTaken == \A p \in Proc : ~Replaces(p) /\ ~Removes(p)
NothingMade  == \A p \in Proc : ~Makes(p)

\* What status 0 says of operand i.  With -p, mkdir is content with a file.
Made(p, i) ==
  LET path == Operands(p)[i]
  IN  CASE IsLn(p) -> /\ Exists(tree, Image(p, i))
                      /\ tree[Image(p, i)] = IF Given(p, "symbolic") THEN Link(path) ELSE tree[path]
        [] cmd[p].prog = "mkdir" -> path = <<>> \/ IF Given(p, "parents") THEN Exists(tree, path)
                                                                         ELSE IsDir(tree, path)
        [] OTHER -> Exists(tree, Behind(path))

Gone(p, i) ==
  LET path == Operands(p)[i]
  IN  \A k \in (IF Given(p, "parents") THEN 1 ELSE Len(path))..Len(path) :
        ~Exists(tree, SubSeq(path, 1, k))

\* Exit status 0 is honest: while nothing is taken away, all operands of ln,
\* mkdir and touch are there as asked for; while nothing is made, those of
\* rmdir and unlink are gone, with -p and all their parents.  Every error on
\* the way has to reach `ret`.
Honest ==
  \A p \in Proc : at[p] = "exited" /\ ret[p] = 0 =>
    /\ NothingTaken /\ Makes(p)  => \A i \in DOMAIN Operands(p) : Made(p, i)
    /\ NothingMade /\ Removes(p) => \A i \in DOMAIN Operands(p) : Gone(p, i)

(***************************************************************************)
(* mkdir without -p, and ln without -f and -i, are what shell scripts take *)
(* locks with.                                                             *)
(***************************************************************************)
Exclusive(p) ==
  /\ Len(Operands(p)) = 1 /\ Operands(p)[1] # <<>>
  /\ \/ cmd[p].prog = "mkdir" /\ ~Given(p, "parents")
     \/ IsLn(p) /\ ~Replaces(p)

Product(p) == IF IsLn(p) THEN Image(p, 1) ELSE Operands(p)[1]
Winner(p)  == Exclusive(p) /\ at[p] = "exited" /\ ret[p] = 0

\* While nothing is taken away, at most one of the processes that try to make
\* a name ends with status 0, and none if the name was there at the start:
\* mkdir() and link() decide (mkdir.c:63, ln.c:85 and 91), not the lstat()
\* before them.
OneWinner ==
  NothingTaken =>
    \A p, r \in Proc : Winner(p) =>
      /\ ~Exists(setting.tree, Product(p))
      /\ Winner(r) /\ Product(p) = Product(r) => p = r

\* Any number of mkdir -p that share parents all succeed, in whatever order
\* their calls come: "ignore aready exist error when parent mode" (mkdir.c:51).
ParentsMeet ==
  /\ Quiet
  /\ \A p \in Proc : cmd[p].args # <<>> =>
       /\ cmd[p].prog = "mkdir" /\ Given(p, "parents")
       /\ \A i \in DOMAIN cmd[p].args : ~ThroughFile(setting.tree, cmd[p].args[i])
  => \A p \in Proc : cmd[p].args # <<>> => ret[p] = 0

\* While ln is between lstat() and remove() (ln.c:54 to 77) another process may
\* put a directory where ln has seen none: a mkdir for it or for something in it,
\* or one that changes where a DESTINATION leads that is a link.
SlippedIn(p, q) ==
  \E r \in Proc \ {p} :
    /\ cmd[r].args # <<>>
    /\ \/ cmd[r].prog = "mkdir" /\ \E i \in DOMAIN cmd[r].args : IsPrefix(q, cmd[r].args[i])
       \/ target[p] = "dir" /\ IsLink(tree, Dest(p))

\* What p was asked to take away.  (At the end of the input a prompt of ln is
\* decided by an uninitialised buffer, ln.c:65 to 67.)
Asked(p, q) ==
  CASE IsLn(p) ->
         /\ \E i \in DOMAIN Operands(p) : q = Image(p, i)
         /\ IF Given(p, "interactive") THEN agreed[p] \/ "nothing" \in setting.answers
                                       ELSE Given(p, "force")
         /\ IsDir(tree, q) => SlippedIn(p, q)
    [] cmd[p].prog = "rmdir" ->
         IsDir(tree, q) /\ \E i \in DOMAIN Operands(p) :
           q = Operands(p)[i] \/ (Given(p, "parents") /\ IsPrefix(q, Operands(p)[i]))
    [] cmd[p].prog = "unlink" -> q = Operands(p)[1] /\ ~IsDir(tree, q)
    [] OTHER -> FALSE

\* No step takes away or changes an entry that nobody asked for: not without -f
\* or a yes of the user to this very image, no directory that was there when ln
\* looked, nothing but operands and, with -p, their parents.
OnlyAsked ==
  [][\A q \in DOMAIN tree : (Exists(tree', q) /\ tree'[q] = tree[q]) \/ \E p \in Proc : Asked(p, q)]_vars

\* "can't overwrite dir" (ln.c:56): what ln removes is no directory.
NoDirReplaced == [][\A p \in Proc : RemoveDone(p) => ~IsDir(tree, Dst(p))]_vars

\* DESTINATION is a link to the directory it lies in itself, so that what ln
\* takes away in that directory may be this link, and the way to it.
LeadsToItself(p) == /\ IsLink(setting.tree, Dest(p))
                    /\ setting.tree[Dest(p)].to = Front(Dest(p))

\* ln -f replaces: when nothing is refused and no other process is at work,
\* every name that was there still is, except in the one state between
\* remove() and link() (ln.c:77 to 91); a source that is missing or a
\* directory is found before anything is removed.
NothingVanishes ==
  \A p \in Proc :
    /\ Quiet /\ IsLn(p) /\ at[p] # "link" /\ cmd[p].args # <<>> /\ ~LeadsToItself(p)
    /\ \A r \in Proc \ {p} : cmd[r].args = <<>>
    /\ \A i \in DOMAIN Operands(p) : Image(p, i) # Operands(p)[i]
    => \A q \in DOMAIN setting.tree : Exists(tree, q)
===============================================================================
