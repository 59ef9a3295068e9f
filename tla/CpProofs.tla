-------------------------------- MODULE CpProofs --------------------------------
(***************************************************************************)
(* What holds of cp, mv and install for every file tree, every command     *)
(* line and every number of processes.                                     *)
(***************************************************************************)
EXTENDS Cp, FileSystemProofs

-------------------------------------------------------------------------------
(***************************************************************************)
(* Types.                                                                  *)
(***************************************************************************)

\* The disk: a tree in which links lead to paths and files have inodes.
DiskTyped ==
  /\ Grown(tree) /\ file \in Seq(Inode)
  /\ Len(setting.file) <= Len(file)
  /\ \A q \in DOMAIN tree : IsFile(tree, q) => tree[q].ino \in DOMAIN file

\* An activation, when there are n inodes: what it has open is there.
Sound(n, act) ==
  /\ act \in Activation /\ act.src # <<>>
  /\ act.call \in {"open_src", "read", "write"} => act.out \in 1..n
  /\ act.call \in {"read", "write"} => act.in \in 0..n

StacksTyped ==
  /\ stack \in [Proc -> Seq(Activation)]
  /\ \A p \in Proc : \A k \in DOMAIN stack[p] : Sound(Len(file), stack[p][k])

\* A process works on a source it was given; one started without arguments does
\* nothing but end.
ProgressTyped ==
  /\ setting \in Settings
  /\ at \in [Proc -> {"guess", "check", "loop", "exited"}]
  /\ target \in [Proc -> {"unset", "dir", "file"}]
  /\ operand \in [Proc -> Nat]
  /\ \A p \in Proc :
       /\ at[p] \in {"check", "loop"} => Len(cmd[p].args) >= 2
       /\ at[p] \in {"guess", "check"} => operand[p] = 0
       /\ at[p] = "loop" => operand[p] <= Len(Sources(p))
       /\ stack[p] # <<>> => at[p] = "loop" /\ operand[p] >= 1

Typed == DiskTyped /\ StacksTyped /\ ProgressTyped

(***************************************************************************)
(* What p knows when no other process is at work.                          *)
(***************************************************************************)

\* What an activation is about, whatever becomes of the disk: a source of p or
\* something below one, which goes to the image of that source or elsewhere; a
\* directory or not; and never onto itself where no path leads through a link.
About(p, act) ==
  /\ IsPrefix(Sources(p)[operand[p]], act.src)
  /\ act.src = Sources(p)[operand[p]] => act.dest = Image(p, operand[p])
  /\ act.call = "prompt" => cmd[p].interactive
  /\ act.call = "rename" => IsMv(p)
  /\ act.call \in {"rmdir", "unlink_src"} => IsMv(p)
  /\ act.call \in {"mkdir", "opendir", "readdir", "rmdir"} => act.dir
  /\ act.call \in {"prompt", "open_dest", "unlink_dest", "reopen_dest", "open_src",
                   "read", "write", "unlink_src"} => ~act.dir
  /\ IsMv(p) /\ Straight(p) /\ act.call \notin {"stat_src", "stat_dest"} => act.src # act.dest

\* In the tree t the source is still what stat saw ...
Seen(t, act) == /\ Exists(t, Found(t, act.src))
                /\ act.id = Identity(t, Found(t, act.src))

\* ... and DESTINATION is something else, if it is anything.
Differs(t, act) == Exists(t, Follow(t, act.dest)) => Identity(t, Follow(t, act.dest)) # act.id

\* dest_fd is not a file src leads to, unless it was made just now for a link
\* which led to nothing before; the start had n files.
Apart(t, f, n, act) ==
  LET s == Follow(t, act.src)
  IN  IsFile(t, s) /\ t[s].ino = act.out => act.out \notin 1..n /\ f[act.out].data = <<>>

\* What an activation relies on at its next call, on the disk t, f.
Relies(t, f, n, act) ==
  /\ act.call = "stat_dest" => Seen(t, act)
  /\ act.call \in {"prompt", "rename", "open_dest", "unlink_dest"} =>
       Seen(t, act) /\ Differs(t, act)
  /\ act.call = "reopen_dest" =>
       (Seen(t, act) /\ Differs(t, act)) \/ ~IsFile(t, Follow(t, act.dest))
  /\ act.call = "open_src" => Apart(t, f, n, act)
  /\ act.call \in {"read", "write"} /\ act.in = act.out =>
       act.in \notin 1..n /\ act.call = "read" /\ f[act.in].data = <<>>

\* What it may still do to DESTINATION without having asked.
Spares(t, n, act) ==
  /\ act.call \in {"rename", "open_dest", "unlink_dest"} =>
       ~Exists(t, Follow(t, act.dest)) \/ (act.dir /\ IsDir(t, Follow(t, act.dest)))
  /\ act.call = "reopen_dest" => ~IsFile(t, Follow(t, act.dest))
  /\ act.call \in {"open_src", "read", "write"} => act.out \notin 1..n

Ready(p, t, f, act) ==
  /\ Relies(t, f, Len(setting.file), act)
  /\ MustAsk(p) /\ ~act.consent => Spares(t, Len(setting.file), act)

\* All but the innermost activation read a directory, which relies on nothing.
Calling(p) ==
  stack[p] # <<>> =>
    /\ \A k \in DOMAIN stack[p] : /\ About(p, stack[p][k])
                                  /\ k # Len(stack[p]) => stack[p][k].call = "readdir"
    /\ Ready(p, tree, file, Top(p))

\* A link is only where there was one at the start.
Linkless(t) == \A q \in DOMAIN t : ~IsLink(t, q)

Inv == /\ Typed
       /\ Linkless(setting.tree) => Linkless(tree)
       /\ \A p \in Proc : /\ cmd[p].args = <<>> => at[p] \in {"guess", "exited"}
                          /\ Alone(p) => Calling(p)

-------------------------------------------------------------------------------
(***************************************************************************)
(* Lemmas about settings, activations and the stack of them.               *)
(***************************************************************************)

\* What the assumption on Settings says of the setting of a run.
LEMMA SettingIs ==
  ASSUME setting \in Settings
  PROVE  /\ Grown(setting.tree) /\ setting.file \in Seq(Inode)
         /\ \A q \in DOMAIN setting.tree :
              IsFile(setting.tree, q) => setting.tree[q].ino \in DOMAIN setting.file
         /\ cmd \in [Proc -> Command]
<1>1. Setting(setting)
  BY SettingsAssumption
<1>2. /\ IsTree(setting.tree) /\ setting.file \in Seq(Inode)
      /\ \A q \in DOMAIN setting.tree :
           IsFile(setting.tree, q) => setting.tree[q].ino \in DOMAIN setting.file
      /\ cmd \in [Proc -> Command]
  BY <1>1, Zenon DEF Setting, cmd
<1> QED
  BY <1>2, TreeIsGrown, Zenon

\* The sources and DESTINATION of a command line are paths.
LEMMA ArgumentsAre ==
  ASSUME setting \in Settings, NEW p \in Proc, Len(cmd[p].args) >= 2
  PROVE  /\ Sources(p) \in Seq(Path) /\ Dest(p) \in Path
         /\ Len(Sources(p)) = Len(cmd[p].args) - 1
         /\ \A i \in DOMAIN Sources(p) : Sources(p)[i] \in Path /\ Sources(p)[i] # <<>>
<1> DEFINE a == cmd[p].args
           S == Path \ {<<>>}
<1>1. a \in Seq(S)
  <2>1. cmd[p] \in Command
    BY SettingIs
  <2> QED
    BY <2>1 DEF Command
<1>2. a # <<>>
  BY <1>1
<1>3. /\ Front(a) \in Seq(S) /\ Last(a) \in S
      /\ Len(Front(a)) = Len(a) - 1
  BY <1>1, <1>2, FrontAndLast, Zenon
<1>4. Sources(p) = Front(a) /\ Dest(p) = Last(a)
  BY DEF Sources, Dest
<1> HIDE DEF a
<1>5. Front(a) \in Seq(Path)
  BY <1>3
<1>6. \A i \in DOMAIN Front(a) : Front(a)[i] \in S
  BY <1>3
<1> QED
  BY <1>3, <1>4, <1>5, <1>6 DEF a

\* Where a source goes is a path.
LEMMA ImageIsPath ==
  ASSUME setting \in Settings, NEW p \in Proc, Len(cmd[p].args) >= 2,
         NEW i \in DOMAIN Sources(p)
  PROVE  Image(p, i) \in Path
<1>1. /\ Dest(p) \in Path /\ Sources(p)[i] \in Path /\ Sources(p)[i] # <<>>
  BY ArgumentsAre
<1>2. Last(Sources(p)[i]) \in Name
  BY <1>1, FrontAndLast DEF Path
<1> QED
  BY <1>1, <1>2 DEF Image, Path

\* What an activation is after its next call has been set.
LEMMA Turned ==
  ASSUME NEW act \in Activation, NEW c \in Calls
  PROVE  LET b == [act EXCEPT !.call = c]
         IN  /\ b \in Activation /\ b.call = c /\ b.src = act.src /\ b.dest = act.dest
             /\ b.dir = act.dir /\ b.id = act.id /\ b.consent = act.consent
             /\ b.in = act.in /\ b.out = act.out
BY DEF Activation

\* A new activation begins with stat(src).
LEMMA CopyIs ==
  ASSUME NEW s \in Path, NEW d \in Path
  PROVE  /\ Copy(s, d) \in Activation /\ Copy(s, d).call = "stat_src"
         /\ Copy(s, d).src = s /\ Copy(s, d).dest = d
<1>1. /\ "stat_src" \in Calls /\ NoMeta \in Meta /\ <<>> \in Path /\ FALSE \in BOOLEAN
      /\ {} \in SUBSET (Name \cup Dots) /\ 0 \in Nat
  BY DEF Calls, NoMeta, Meta, Mode, Fresh, Path
<1> QED
  BY <1>1 DEF Copy, Activation

\* The innermost activation.
LEMMA TopIs ==
  ASSUME StacksTyped, NEW p \in Proc, stack[p] # <<>>
  PROVE  /\ stack[p] \in Seq(Activation) /\ Len(stack[p]) \in Nat \ {0}
         /\ Top(p) = stack[p][Len(stack[p])] /\ Len(stack[p]) \in DOMAIN stack[p]
         /\ Top(p) \in Activation /\ Sound(Len(file), Top(p))
<1>1. stack[p] \in Seq(Activation) /\ Len(stack[p]) \in Nat \ {0}
  BY DEF StacksTyped
<1>2. Len(stack[p]) \in DOMAIN stack[p]
  BY <1>1
<1> QED
  BY <1>1, <1>2 DEF StacksTyped, Top, Last, Sound

\* Going on in the innermost activation, and returning from it.
LEMMA GoingOn ==
  ASSUME StacksTyped, NEW p \in Proc, stack[p] # <<>>, NEW act \in Activation, GoOn(p, act)
  PROVE  /\ stack' \in [Proc -> Seq(Activation)]
         /\ \A r \in Proc \ {p} : stack'[r] = stack[r]
         /\ Len(stack'[p]) = Len(stack[p]) /\ DOMAIN stack'[p] = DOMAIN stack[p]
         /\ \A k \in DOMAIN stack[p] :
              stack'[p][k] = IF k = Len(stack[p]) THEN act ELSE stack[p][k]
         /\ stack'[p] # <<>> /\ Last(stack'[p]) = act
<1> DEFINE s == stack[p]
           f == Front(s)
<1>1. s \in Seq(Activation) /\ s # <<>> /\ stack \in [Proc -> Seq(Activation)]
  BY DEF StacksTyped
<1>2. /\ stack'[p] = Append(f, act)
      /\ \A r \in Proc \ {p} : stack'[r] = stack[r]
      /\ DOMAIN stack' = Proc /\ stack' = [stack EXCEPT ![p] = Append(f, act)]
  BY <1>1 DEF GoOn
<1>3. /\ f \in Seq(Activation) /\ Len(f) = Len(s) - 1 /\ Len(s) >= 1 /\ Len(s) \in Nat
      /\ \A k \in 1..(Len(s) - 1) : f[k] = s[k]
  BY <1>1, FrontAndLast
<1> HIDE DEF s, f
<1>4. /\ Append(f, act) \in Seq(Activation) /\ Len(Append(f, act)) = Len(s)
      /\ Append(f, act) # <<>>
      /\ \A k \in 1..(Len(s) - 1) : Append(f, act)[k] = f[k]
      /\ Append(f, act)[Len(s)] = act
  BY <1>3
<1>5. DOMAIN Append(f, act) = 1..Len(s) /\ DOMAIN s = 1..Len(s)
  BY <1>1, <1>4
<1>6. \A k \in 1..Len(s) : k # Len(s) => k \in 1..(Len(s) - 1)
  BY <1>3
<1>7. Last(Append(f, act)) = act
  BY <1>3, <1>4 DEF Last
<1>8. stack' \in [Proc -> Seq(Activation)]
  BY <1>1, <1>2, <1>4
<1> QED
  BY <1>2, <1>3, <1>4, <1>5, <1>6, <1>7, <1>8 DEF s

\* The same of a return.
LEMMA Returning ==
  ASSUME StacksTyped, NEW p \in Proc, stack[p] # <<>>, Return(p)
  PROVE  /\ stack' \in [Proc -> Seq(Activation)]
         /\ \A r \in Proc \ {p} : stack'[r] = stack[r]
         /\ Len(stack'[p]) = Len(stack[p]) - 1
         /\ \A k \in DOMAIN stack'[p] : k \in DOMAIN stack[p] /\ k # Len(stack[p])
                                        /\ stack'[p][k] = stack[p][k]
         /\ stack'[p] # <<>> => Len(stack'[p]) \in DOMAIN stack'[p]
                                /\ Last(stack'[p]) = stack'[p][Len(stack'[p])]
<1> DEFINE s == stack[p]
           f == Front(s)
<1>1. s \in Seq(Activation) /\ s # <<>> /\ stack \in [Proc -> Seq(Activation)]
  BY DEF StacksTyped
<1>2. /\ stack'[p] = f
      /\ \A r \in Proc \ {p} : stack'[r] = stack[r]
      /\ stack' = [stack EXCEPT ![p] = f]
  BY <1>1 DEF Return
<1> HIDE DEF s, f
<1>3. /\ f \in Seq(Activation) /\ Len(f) = Len(s) - 1 /\ Len(s) >= 1 /\ Len(s) \in Nat
      /\ \A k \in 1..(Len(s) - 1) : f[k] = s[k]
  <2>1. /\ f \in Seq(Activation) /\ Len(f) = Len(s) - 1 /\ Len(s) >= 1
        /\ \A k \in 1..(Len(s) - 1) : f[k] = s[k]
    BY <1>1, FrontAndLast, Zenon DEF f
  <2> QED
    BY <1>1, <2>1
<1>4. \A k \in DOMAIN f : k \in DOMAIN s /\ k # Len(s) /\ f[k] = s[k]
  <2>1. DOMAIN f = 1..(Len(s) - 1) /\ DOMAIN s = 1..Len(s)
    BY <1>1, <1>3
  <2> QED
    BY <1>3, <2>1
<1>5. f # <<>> => Len(f) \in DOMAIN f /\ Last(f) = f[Len(f)]
  BY <1>3 DEF Last
<1>6. stack' \in [Proc -> Seq(Activation)]
  BY <1>1, <1>2, <1>3
<1> QED
  BY <1>2, <1>3, <1>4, <1>5, <1>6 DEF s

\* A call that opens nothing leaves the activation sound.
LEMMA SoundTo ==
  ASSUME NEW n \in Nat, NEW m \in Nat, n <= m, NEW act, Sound(n, act),
         NEW c \in Calls \ {"open_src", "read", "write"}
  PROVE  Sound(m, [act EXCEPT !.call = c])
<1>1. act \in Activation /\ act.src # <<>>
  BY DEF Sound
<1> DEFINE b == [act EXCEPT !.call = c]
<1>2. b \in Activation /\ b.call = c /\ b.src = act.src
  BY <1>1, Turned
<1> HIDE DEF b
<1> QED
  BY <1>1, <1>2 DEF Sound, b

\* More inodes do no harm to an activation.
LEMMA SoundStays ==
  ASSUME NEW n \in Nat, NEW m \in Nat, n <= m, NEW act, Sound(n, act)
  PROVE  Sound(m, act)
BY DEF Sound

\* How the innermost activation of p may change.
Moved(p) == Return(p) \/ \E act : Sound(Len(file'), act) /\ GoOn(p, act)

\* A step of an activation keeps the types if the disk does.
LEMMA TurnTyped ==
  ASSUME Typed, NEW p \in Proc, stack[p] # <<>>, DiskTyped', Len(file) <= Len(file'),
         UNCHANGED main, Moved(p)
  PROVE  Typed'
<1>1. Len(file) \in Nat /\ Len(file') \in Nat
  BY DEF Typed, DiskTyped
<1>2. StacksTyped /\ ProgressTyped
  BY DEF Typed
<1>3. StacksTyped' /\ \A r \in Proc : stack'[r] # <<>> => stack[r] # <<>>
  <2>1. CASE Return(p)
    <3>1. /\ stack' \in [Proc -> Seq(Activation)]
          /\ \A r \in Proc \ {p} : stack'[r] = stack[r]
          /\ \A k \in DOMAIN stack'[p] : k \in DOMAIN stack[p] /\ stack'[p][k] = stack[p][k]
      BY <1>2, <2>1, Returning
    <3>2. \A r \in Proc : \A k \in DOMAIN stack'[r] :
            k \in DOMAIN stack[r] /\ stack'[r][k] = stack[r][k]
      BY <3>1
    <3>3. \A r \in Proc : \A k \in DOMAIN stack'[r] : Sound(Len(file'), stack'[r][k])
      BY <1>1, <1>2, <3>2, SoundStays DEF StacksTyped
    <3> QED
      BY <3>1, <3>3 DEF StacksTyped
  <2>2. ASSUME NEW act, Sound(Len(file'), act), GoOn(p, act)
        PROVE  StacksTyped' /\ \A r \in Proc : stack'[r] # <<>> => stack[r] # <<>>
    <3>0. act \in Activation
      BY <2>2 DEF Sound
    <3>1. /\ stack' \in [Proc -> Seq(Activation)]
          /\ \A r \in Proc \ {p} : stack'[r] = stack[r]
          /\ DOMAIN stack'[p] = DOMAIN stack[p]
          /\ \A k \in DOMAIN stack[p] :
               stack'[p][k] = IF k = Len(stack[p]) THEN act ELSE stack[p][k]
      BY <1>2, <2>2, <3>0, GoingOn
    <3>2. \A r \in Proc : \A k \in DOMAIN stack'[r] :
            stack'[r][k] = act \/ (k \in DOMAIN stack[r] /\ stack'[r][k] = stack[r][k])
      BY <3>1
    <3>3. \A r \in Proc : \A k \in DOMAIN stack'[r] : Sound(Len(file'), stack'[r][k])
      BY <1>1, <1>2, <2>2, <3>2, SoundStays DEF StacksTyped
    <3> QED
      BY <3>1, <3>3 DEF StacksTyped
  <2> QED
    BY <2>1, <2>2 DEF Moved
<1>4. ProgressTyped'
  BY <1>2, <1>3 DEF ProgressTyped, main, cmd, Sources
<1> QED
  BY <1>3, <1>4 DEF Typed

\* A step that leaves the disk alone keeps the types.
LEMMA QuietTurnTyped ==
  ASSUME Typed, NEW p \in Proc, stack[p] # <<>>, UNCHANGED disk, UNCHANGED main, Moved(p)
  PROVE  Typed'
<1>1. DiskTyped' /\ Len(file) \in Nat /\ Len(file') = Len(file)
  BY DEF Typed, DiskTyped, disk, main
<1>2. Len(file) <= Len(file')
  BY <1>1
<1> QED
  BY <1>1, <1>2, TurnTyped

\* A call that opens nothing, set in an activation of p.
LEMMA ToMoved ==
  ASSUME Typed, NEW p \in Proc, stack[p] # <<>>, Len(file) <= Len(file'), Len(file') \in Nat,
         NEW c \in Calls \ {"open_src", "read", "write"}, To(p, c)
  PROVE  Moved(p)
<1>1. Sound(Len(file), Top(p)) /\ Len(file) \in Nat
  BY TopIs DEF Typed, DiskTyped
<1>2. Sound(Len(file'), [Top(p) EXCEPT !.call = c])
  BY <1>1, SoundTo
<1> QED
  BY <1>2 DEF Moved, To

\* unlink and rmdir keep the types of the disk.
LEMMA DiskWithout ==
  ASSUME DiskTyped, NEW q, CanUnlink(tree, q) \/ CanRmdir(tree, q),
         tree' = Without(tree, q), UNCHANGED <<file, setting>>
  PROVE  DiskTyped'
<1>1. Grown(tree')
  BY WithoutIsGrown DEF DiskTyped
<1>2. \A r \in DOMAIN tree' : r \in DOMAIN tree /\ tree'[r] = tree[r]
  BY DEF Without
<1> QED
  BY <1>1, <1>2 DEF DiskTyped, IsFile, Exists

\* Where DESTINATION or a source leads is a path.
LEMMA LeadsToPath ==
  ASSUME DiskTyped, NEW q \in Path
  PROVE  Follow(tree, q) \in Path /\ NoFollow(tree, q) \in Path
BY FollowIs DEF DiskTyped, Grown

\* The paths of the innermost activation.
LEMMA TopPaths ==
  ASSUME Typed, NEW p \in Proc, stack[p] # <<>>
  PROVE  /\ Top(p).src \in Path /\ Top(p).src # <<>> /\ Top(p).dest \in Path
         /\ Follow(tree, Top(p).src) \in Path /\ NoFollow(tree, Top(p).src) \in Path
         /\ NoFollow(tree, Top(p).src) # <<>>
         /\ Follow(tree, Top(p).dest) \in Path /\ NoFollow(tree, Top(p).dest) \in Path
<1>1. Sound(Len(file), Top(p)) /\ DiskTyped /\ LinksLead(tree)
  BY TopIs DEF Typed, DiskTyped, Grown
<1>2. Top(p).src \in Path /\ Top(p).src # <<>> /\ Top(p).dest \in Path
  BY <1>1 DEF Sound, Activation
<1> QED
  BY <1>1, <1>2, LeadsToPath, FollowIs

-------------------------------------------------------------------------------
(***************************************************************************)
(* The types are kept.                                                     *)
(***************************************************************************)

\* By a step that only changes how far p got in cp_main.
LEMMA MainStepTyped ==
  ASSUME Typed, NEW p \in Proc,
         Usage(p) \/ Guess(p) \/ Check(p) \/ CheckFails(p) \/ NextSource(p) \/ Exit(p)
  PROVE  Typed'
<1>1. DiskTyped' /\ Len(file') = Len(file)
  BY DEF Typed, DiskTyped, Usage, Guess, Check, CheckFails, NextSource, Exit, Quit
<1>2. CASE Usage(p) \/ CheckFails(p)
  <2>1. StacksTyped'
    BY <1>2 DEF Typed, StacksTyped, Usage, CheckFails, Quit
  <2>2. at[p] # "loop" /\ UNCHANGED <<setting, target, operand, stack>>
        /\ at' = [at EXCEPT ![p] = "exited"]
    BY <1>2 DEF Usage, CheckFails, Quit
  <2>3. ProgressTyped'
    BY <2>2 DEF Typed, ProgressTyped, cmd, Sources
  <2> QED
    BY <1>1, <2>1, <2>3 DEF Typed
<1>3. CASE Guess(p)
  <2>1. StacksTyped'
    BY <1>3 DEF Typed, StacksTyped, Guess
  <2>2. /\ at[p] = "guess" /\ UNCHANGED <<setting, operand, stack>> /\ Len(cmd[p].args) >= 2
        /\ at' = [at EXCEPT ![p] = "check"]
        /\ \E x \in {"dir", "file"} : target' = [target EXCEPT ![p] = x]
    BY <1>3 DEF Guess
  <2>3. ProgressTyped'
    BY <2>2 DEF Typed, ProgressTyped, cmd, Sources
  <2> QED
    BY <1>1, <2>1, <2>3 DEF Typed
<1>4. CASE Check(p)
  <2>1. StacksTyped'
    BY <1>4 DEF Typed, StacksTyped, Check
  <2>2. /\ at[p] = "check" /\ UNCHANGED <<setting, target, operand, stack>>
        /\ at' = [at EXCEPT ![p] = "loop"]
    BY <1>4 DEF Check
  <2>3. operand[p] <= Len(Sources(p))
    <3>1. operand[p] = 0 /\ setting \in Settings /\ Len(cmd[p].args) >= 2
      BY <2>2 DEF Typed, ProgressTyped
    <3>2. Sources(p) \in Seq(Path)
      BY <3>1, ArgumentsAre
    <3> QED
      BY <3>1, <3>2
  <2>4. ProgressTyped'
    BY <2>2, <2>3 DEF Typed, ProgressTyped, cmd, Sources
  <2> QED
    BY <1>1, <2>1, <2>4 DEF Typed
<1>5. CASE NextSource(p)
  <2> DEFINE act == Copy(Sources(p)[operand[p] + 1], Image(p, operand[p] + 1))
             i == operand[p] + 1
  <2>0. setting \in Settings /\ Len(cmd[p].args) >= 2 /\ at[p] = "loop"
    BY <1>5 DEF Typed, ProgressTyped, NextSource
  <2>1. /\ i \in DOMAIN Sources(p) /\ Sources(p)[i] \in Path /\ Sources(p)[i] # <<>>
        /\ Image(p, i) \in Path /\ i <= Len(Sources(p)) /\ i >= 1 /\ i \in Nat
    <3>1. operand[p] \in Nat /\ operand[p] < Len(Sources(p)) /\ Sources(p) \in Seq(Path)
      BY <1>5, <2>0, ArgumentsAre DEF Typed, ProgressTyped, NextSource
    <3>2. i \in DOMAIN Sources(p) /\ i <= Len(Sources(p)) /\ i >= 1 /\ i \in Nat
      BY <3>1
    <3> HIDE DEF i
    <3> QED
      BY <2>0, <3>2, ArgumentsAre, ImageIsPath
  <2>2. act \in Activation /\ act.call = "stat_src" /\ act.src # <<>>
    BY <2>1, CopyIs
  <2>3. stack' = [stack EXCEPT ![p] = <<act>>] /\ operand' = [operand EXCEPT ![p] = i]
        /\ UNCHANGED <<setting, at, target, file>>
    BY <1>5 DEF NextSource
  <2> HIDE DEF act, i
  <2>4. Sound(Len(file'), act)
    BY <2>2 DEF Sound
  <2>5. <<act>> \in Seq(Activation) /\ \A k \in DOMAIN <<act>> : <<act>>[k] = act
    BY <2>2
  <2>6. StacksTyped'
    <3>1. stack' \in [Proc -> Seq(Activation)]
      BY <2>3, <2>5 DEF Typed, StacksTyped
    <3>2. \A r \in Proc : \A k \in DOMAIN stack'[r] : Sound(Len(file'), stack'[r][k])
      BY <2>3, <2>4, <2>5 DEF Typed, StacksTyped
    <3> QED
      BY <3>1, <3>2 DEF StacksTyped
  <2>7. ProgressTyped'
    BY <2>0, <2>1, <2>3 DEF Typed, ProgressTyped, cmd, Sources
  <2> QED
    BY <1>1, <2>6, <2>7 DEF Typed
<1>6. CASE Exit(p)
  <2>1. StacksTyped'
    BY <1>6 DEF Typed, StacksTyped, Exit
  <2>2. /\ stack[p] = <<>> /\ UNCHANGED <<setting, target, operand, stack>>
        /\ at' = [at EXCEPT ![p] = "exited"]
    BY <1>6 DEF Exit
  <2>3. ProgressTyped'
    BY <2>2 DEF Typed, ProgressTyped, cmd, Sources
  <2> QED
    BY <1>1, <2>1, <2>3 DEF Typed
<1> QED
  BY <1>2, <1>3, <1>4, <1>5, <1>6

\* What comes after an activation's work opens nothing.
LEMMA CloseMoved ==
  ASSUME Typed, NEW p \in Proc, stack[p] # <<>>, Len(file) <= Len(file'), Len(file') \in Nat,
         Finish(p) \/ Close(p)
  PROVE  Moved(p)
<1>1. {"preserve", "unlink_src"} \subseteq Calls \ {"open_src", "read", "write"}
  BY DEF Calls
<1>2. To(p, "preserve") \/ To(p, "unlink_src") \/ Return(p)
  BY DEF Finish, Close
<1>3. To(p, "preserve") \/ To(p, "unlink_src") => Moved(p)
  BY <1>1, ToMoved
<1> QED
  BY <1>2, <1>3 DEF Moved

\* By the steps that leave the disk alone.
LEMMA QuietStepTyped ==
  ASSUME Typed, NEW p \in Proc,
         \/ StatSrc(p) \/ StatSrcFails(p) \/ StatDestMissing(p) \/ StatDestExists(p)
         \/ StatDestClashes(p) \/ PromptYes(p) \/ PromptNo(p) \/ RenameFails(p)
         \/ Opendir(p) \/ OpendirFails(p) \/ ReaddirEnd(p) \/ OpenDestForced(p)
         \/ OpenDestFails(p) \/ OpenSrc(p) \/ OpenSrcFails(p) \/ Read(p) \/ ReadEof(p)
         \/ ReadFails(p) \/ WriteFails(p)
  PROVE  Typed'
<1>1. stack[p] # <<>> /\ UNCHANGED disk /\ UNCHANGED main
  BY DEF StatSrc, StatSrcFails, StatDestMissing, StatDestExists, StatDestClashes, PromptYes,
         PromptNo, RenameFails, Opendir, OpendirFails, ReaddirEnd, OpenDestForced,
         OpenDestFails, OpenSrc, OpenSrcFails, Read, ReadEof, ReadFails, WriteFails, Busy
<1>2. /\ Len(file') = Len(file) /\ Len(file) \in Nat /\ file' = file
      /\ Top(p) \in Activation /\ Sound(Len(file), Top(p)) /\ DiskTyped
  BY <1>1, TopIs DEF Typed, DiskTyped, disk
<1>n. Len(file) <= Len(file') /\ Len(file') \in Nat
  BY <1>2
<1>f. DOMAIN file = 1..Len(file) /\ \A i \in 1..Len(file) : file[i] \in Inode
  BY <1>2 DEF DiskTyped
<1>c. {"stat_dest", "prompt", "rename", "mkdir", "open_dest", "unlink_dest", "rmdir", "readdir"}
        \subseteq Calls \ {"open_src", "read", "write"}
  BY DEF Calls
<1>w. FirstWay(p) \in {"rename", "mkdir", "open_dest"}
  BY DEF FirstWay
<1> SUFFICES Moved(p)
  BY <1>1, QuietTurnTyped
<1>3. CASE \/ StatSrcFails(p) \/ StatDestClashes(p) \/ PromptNo(p) \/ OpendirFails(p)
           \/ OpenDestFails(p) \/ OpenSrcFails(p)
  BY <1>3 DEF StatSrcFails, StatDestClashes, PromptNo, OpendirFails, OpenDestFails,
              OpenSrcFails, Fail, Moved
<1>4. CASE \/ StatDestMissing(p) \/ StatDestExists(p) \/ RenameFails(p) \/ OpenDestForced(p)
  <2>1. \E c \in {"prompt", "rename", "mkdir", "open_dest", "unlink_dest"} : To(p, c)
    BY <1>4, <1>w DEF StatDestMissing, StatDestExists, RenameFails, OpenDestForced
  <2> QED
    BY <1>1, <1>n, <1>c, <2>1, ToMoved
<1>5. CASE \/ ReaddirEnd(p) \/ ReadEof(p) \/ ReadFails(p) \/ WriteFails(p)
  <2>1. To(p, "rmdir") \/ Finish(p) \/ Close(p)
    BY <1>5 DEF ReaddirEnd, ReadEof, ReadFails, WriteFails
  <2> QED
    BY <1>1, <1>n, <1>c, <2>1, ToMoved, CloseMoved
<1>6. CASE StatSrc(p)
  <2> DEFINE q == Found(tree, Top(p).src)
             m == IF IsFile(tree, q) THEN file[tree[q].ino].meta ELSE NoMeta
             act == [Top(p) EXCEPT !.call = "stat_dest", !.dir = IsDir(tree, q),
                                   !.id = Identity(tree, q), !.meta = m]
  <2>1. GoOn(p, act)
    BY <1>6 DEF StatSrc
  <2>2. q \in Path
    BY <1>1, TopPaths DEF Found
  <2>3. Identity(tree, q) \in [ino : Nat, path : Path]
    <3>1. IsFile(tree, q) => tree[q].ino \in Nat
      BY <1>2, <1>f DEF DiskTyped, IsFile, Exists
    <3> QED
      BY <2>2, <3>1 DEF Identity, Path
  <2>4. m \in Meta
    <3>1. IsFile(tree, q) => file[tree[q].ino] \in Inode
      BY <1>2, <1>f DEF DiskTyped, IsFile, Exists
    <3>2. NoMeta \in Meta
      BY DEF NoMeta, Fresh, Meta, Mode
    <3> QED
      BY <3>1, <3>2 DEF Inode
  <2>5. IsDir(tree, q) \in BOOLEAN
    BY DEF IsDir, Exists
  <2> HIDE DEF q, m
  <2>6. act \in Activation /\ act.call = "stat_dest" /\ act.src = Top(p).src
    BY <1>2, <1>c, <2>3, <2>4, <2>5 DEF Activation
  <2> HIDE DEF act
  <2>7. Sound(Len(file'), act)
    BY <1>2, <2>6 DEF Sound
  <2> QED
    BY <2>1, <2>7 DEF Moved
<1>7. CASE PromptYes(p)
  <2>a. PICK a \in setting.answers \cap (Accepted \cup {"nothing"}) :
          GoOn(p, [Top(p) EXCEPT !.call = FirstWay(p), !.consent = a \in Accepted])
    BY <1>7 DEF PromptYes
  <2> DEFINE yes == a \in Accepted
             act == [Top(p) EXCEPT !.call = FirstWay(p), !.consent = yes]
  <2>1. GoOn(p, act) /\ yes \in BOOLEAN
    BY <2>a
  <2> HIDE DEF yes
  <2>2. act \in Activation /\ act.call = FirstWay(p) /\ act.src = Top(p).src
    BY <1>2, <1>c, <1>w, <2>1 DEF Activation
  <2> HIDE DEF act
  <2>3. Sound(Len(file'), act)
    BY <1>2, <1>w, <2>2 DEF Sound
  <2> QED
    BY <2>1, <2>3 DEF Moved
<1>8. CASE Opendir(p)
  <2> DEFINE snap == Entries(tree, Follow(tree, Top(p).src)) \cup Dots
             act == [Top(p) EXCEPT !.call = "readdir", !.snap = snap]
  <2>1. GoOn(p, act)
    BY <1>8 DEF Opendir
  <2>2. snap \in SUBSET (Name \cup Dots)
    BY DEF Entries
  <2> HIDE DEF snap
  <2>3. act \in Activation /\ act.call = "readdir" /\ act.src = Top(p).src
    BY <1>2, <1>c, <2>2 DEF Activation
  <2> HIDE DEF act
  <2>4. Sound(Len(file'), act)
    BY <1>2, <2>3 DEF Sound
  <2> QED
    BY <2>1, <2>4 DEF Moved
<1>9. CASE OpenSrc(p)
  <2> DEFINE s == Follow(tree, Top(p).src)
             i == Identity(tree, s).ino
             act == [Top(p) EXCEPT !.call = "read", !.in = i]
  <2>1. GoOn(p, act) /\ Top(p).call = "open_src"
    BY <1>9 DEF OpenSrc, Busy, Top
  <2>2. i \in 0..Len(file)
    BY <1>2, <1>f DEF DiskTyped, Identity, IsFile, Exists
  <2>3. i \in Nat /\ "read" \in Calls
    BY <2>2 DEF Calls
  <2> HIDE DEF i
  <2>4. /\ act \in Activation /\ act.call = "read" /\ act.src = Top(p).src /\ act.in = i
        /\ act.out = Top(p).out
    BY <1>2, <2>3 DEF Activation
  <2> HIDE DEF act
  <2>5. Sound(Len(file'), act)
    BY <1>2, <2>1, <2>2, <2>4 DEF Sound
  <2> QED
    BY <2>1, <2>5 DEF Moved
<1>10. CASE Read(p)
  <2> DEFINE b == file[Top(p).in].data[Top(p).pos + 1]
             act == [Top(p) EXCEPT !.call = "write", !.pos = @ + 1, !.buf = b]
  <2>1. GoOn(p, act) /\ Top(p).call = "read" /\ Top(p).in # 0
        /\ Top(p).pos < Len(file[Top(p).in].data)
    BY <1>10 DEF Read, Busy, Top
  <2>2. b \in Nat
    <3>1. Top(p).in \in 1..Len(file) /\ Top(p).pos \in Nat
      BY <1>2, <2>1 DEF Sound, Activation
    <3>2. file[Top(p).in].data \in Seq(Nat)
      BY <1>f, <3>1 DEF Inode
    <3> QED
      BY <2>1, <3>1, <3>2
  <2>3. "write" \in Calls /\ Top(p).pos + 1 \in Nat
    BY <1>2 DEF Calls, Activation
  <2> HIDE DEF b
  <2>4. /\ act \in Activation /\ act.call = "write" /\ act.src = Top(p).src
        /\ act.in = Top(p).in /\ act.out = Top(p).out
    BY <1>2, <2>2, <2>3 DEF Activation
  <2> HIDE DEF act
  <2>5. Sound(Len(file'), act)
    BY <1>2, <2>1, <2>4 DEF Sound
  <2> QED
    BY <2>1, <2>5 DEF Moved
<1> QED
  BY <1>3, <1>4, <1>5, <1>6, <1>7, <1>8, <1>9, <1>10

\* By the calls that change the tree only.
LEMMA TreeStepTyped ==
  ASSUME Typed, NEW p \in Proc,
         RenameDone(p) \/ Mkdir(p) \/ RmdirSrc(p) \/ UnlinkDest(p) \/ UnlinkSrc(p)
  PROVE  Typed'
<1>1. stack[p] # <<>> /\ file' = file /\ UNCHANGED main /\ setting' = setting
  BY DEF RenameDone, Mkdir, RmdirSrc, UnlinkDest, UnlinkSrc, Busy, main
<1>2. /\ DiskTyped /\ Len(file') = Len(file) /\ Len(file) \in Nat
      /\ setting.file = setting.file'
  BY <1>1 DEF Typed, DiskTyped
<1>n. Len(file) <= Len(file') /\ Len(file') \in Nat
  BY <1>2
<1>c. {"opendir", "reopen_dest"} \subseteq Calls \ {"open_src", "read", "write"}
  BY DEF Calls
<1>3. Moved(p)
  <2>1. Return(p) \/ To(p, "opendir") \/ To(p, "reopen_dest") \/ Finish(p)
    BY DEF RenameDone, Mkdir, RmdirSrc, UnlinkDest, UnlinkSrc
  <2>2. To(p, "opendir") \/ To(p, "reopen_dest") => Moved(p)
    BY <1>1, <1>n, <1>c, ToMoved
  <2> QED
    BY <1>1, <1>n, <2>1, <2>2, CloseMoved DEF Moved
<1>s. tree' = tree => DiskTyped'
  BY <1>1, <1>2 DEF DiskTyped
<1>4. DiskTyped'
  <2>1. CASE RenameDone(p)
    <3> DEFINE s == NoFollow(tree, Top(p).src)
               d == NoFollow(tree, Top(p).dest)
    <3>1. CanRename(tree, s, d) /\ tree' = Renamed(tree, s, d)
      BY <2>1 DEF RenameDone
    <3>2. s \in Path /\ s # <<>> /\ d \in Path
      BY <1>1, TopPaths
    <3> HIDE DEF s, d
    <3>3. Grown(tree) /\ Grown(tree')
      BY <1>2, <3>1, <3>2, RenamedIsGrown DEF DiskTyped
    <3>4. \A r \in DOMAIN tree' : \E q \in DOMAIN tree : tree'[r] = tree[q]
      BY <3>1, <3>2, <3>3, RenamedIs
    <3>5. \A r \in DOMAIN tree' : IsFile(tree', r) => tree'[r].ino \in DOMAIN file'
      BY <1>1, <1>2, <3>4 DEF DiskTyped, IsFile, Exists
    <3> QED
      BY <1>1, <1>2, <3>3, <3>5 DEF DiskTyped
  <2>2. CASE Mkdir(p)
    <3> DEFINE d == NoFollow(tree, Top(p).dest)
    <3>1. CASE CanMake(tree, d) /\ tree' = With(tree, d, Dir)
      <4>1. d \in Path
        BY <1>1, TopPaths
      <4> HIDE DEF d
      <4>2. Grown(tree')
        BY <1>2, <3>1, <4>1, WithIsGrown DEF DiskTyped, Dir
      <4>3. \A r \in DOMAIN tree' : IsFile(tree', r) => IsFile(tree, r) /\ tree'[r] = tree[r]
        BY <3>1 DEF With, Dir, IsFile, Exists
      <4> QED
        BY <1>1, <1>2, <4>2, <4>3 DEF DiskTyped, IsFile, Exists
    <3> QED
      BY <1>s, <2>2, <3>1 DEF Mkdir
  <2>3. CASE RmdirSrc(p)
    <3>1. \/ tree' = tree
          \/ CanRmdir(tree, NoFollow(tree, Top(p).src))
             /\ tree' = Without(tree, NoFollow(tree, Top(p).src))
      BY <2>3 DEF RmdirSrc
    <3> QED
      BY <1>1, <1>2, <1>s, <3>1, DiskWithout
  <2>4. CASE UnlinkDest(p)
    <3>1. \/ tree' = tree
          \/ CanUnlink(tree, NoFollow(tree, Top(p).dest))
             /\ tree' = Without(tree, NoFollow(tree, Top(p).dest))
      BY <2>4 DEF UnlinkDest
    <3> QED
      BY <1>1, <1>2, <1>s, <3>1, DiskWithout
  <2>5. CASE UnlinkSrc(p)
    <3>1. \/ tree' = tree
          \/ CanUnlink(tree, NoFollow(tree, Top(p).src))
             /\ tree' = Without(tree, NoFollow(tree, Top(p).src))
      BY <2>5 DEF UnlinkSrc
    <3> QED
      BY <1>1, <1>2, <1>s, <3>1, DiskWithout
  <2> QED
    BY <2>1, <2>2, <2>3, <2>4, <2>5
<1> QED
  BY <1>1, <1>n, <1>3, <1>4, TurnTyped

\* What emptying a file and writing a buffer to it make of its inode.
LEMMA TouchedIs ==
  ASSUME file \in Seq(Inode), NEW i \in DOMAIN file, NEW data \in Seq(Nat)
  PROVE  /\ Touched(file, i, data) \in Seq(Inode)
         /\ Len(Touched(file, i, data)) = Len(file)
         /\ Touched(file, i, data)[i].data = data
         /\ \A j \in DOMAIN file : j # i => Touched(file, i, data)[j] = file[j]
<1>1. file[i] \in Inode
  OBVIOUS
<1> DEFINE x == [file[i] EXCEPT !.data = data, !.meta.time = "now"]
<1>2. x \in Inode /\ x.data = data
  BY <1>1 DEF Inode, Meta
<1>3. Touched(file, i, data) = [file EXCEPT ![i] = x]
  BY <1>1 DEF Touched, Inode, Meta
<1> HIDE DEF x
<1>4. /\ [file EXCEPT ![i] = x] \in Seq(Inode) /\ Len([file EXCEPT ![i] = x]) = Len(file)
      /\ [file EXCEPT ![i] = x][i] = x
      /\ \A j \in DOMAIN file : j # i => [file EXCEPT ![i] = x][j] = file[j]
  BY <1>2
<1> QED
  BY <1>2, <1>3, <1>4

\* A buffer stored in a content leaves a content.
LEMMA StoredIs ==
  ASSUME NEW data \in Seq(Nat), NEW k \in Nat, NEW b \in Nat
  PROVE  Stored(data, k, b) \in Seq(Nat)
<1> DEFINE n == IF k > Len(data) THEN k ELSE Len(data)
<1>1. n \in Nat /\ DOMAIN data = 1..Len(data)
  OBVIOUS
<1>2. \A i \in 1..n : (IF i = k THEN b ELSE IF i \in DOMAIN data THEN data[i] ELSE Hole) \in Nat
  BY DEF Hole
<1> HIDE DEF n
<1>3. [i \in 1..n |-> IF i = k THEN b ELSE IF i \in DOMAIN data THEN data[i] ELSE Hole] \in Seq(Nat)
  BY <1>1, <1>2
<1> QED
  BY <1>3 DEF Stored, n

\* What open for writing does: it empties the file DESTINATION leads to, or makes
\* a new one there.
LEMMA OpenDestIs ==
  ASSUME Typed, NEW p \in Proc, OpenDest(p)
  PROVE  LET d == Follow(tree, Top(p).dest)
             i == IF IsFile(tree, d) THEN tree[d].ino ELSE Len(file) + 1
         IN  /\ stack[p] # <<>> /\ UNCHANGED main /\ d \in Path /\ i \in DOMAIN file'
             /\ Top(p).call \in {"open_dest", "reopen_dest"}
             /\ GoOn(p, [Top(p) EXCEPT !.call = "open_src", !.out = i])
             /\ file' \in Seq(Inode) /\ Len(file) <= Len(file')
             /\ file'[i].data = <<>>
             /\ \A j \in DOMAIN file : j # i => file'[j] = file[j]
             /\ IF IsFile(tree, d) THEN tree' = tree
                ELSE CanMake(tree, d) /\ tree' = With(tree, d, File(i))
<1> DEFINE d == Follow(tree, Top(p).dest)
           i == IF IsFile(tree, d) THEN tree[d].ino ELSE Len(file) + 1
<1>1. /\ stack[p] # <<>> /\ UNCHANGED main /\ Top(p).call \in {"open_dest", "reopen_dest"}
      /\ GoOn(p, [Top(p) EXCEPT !.call = "open_src", !.out = i]) /\ CanOpen(tree, d)
  BY DEF OpenDest, Busy, Top
<1>2. file \in Seq(Inode) /\ Len(file) \in Nat /\ DOMAIN file = 1..Len(file)
  BY DEF Typed, DiskTyped
<1>3. d \in Path
  BY <1>1, TopPaths
<1>4. CASE IsFile(tree, d)
  <2>1. i \in DOMAIN file /\ tree' = tree /\ file' = Touched(file, i, <<>>)
    BY <1>4 DEF OpenDest, Typed, DiskTyped, IsFile, Exists
  <2> HIDE DEF d, i
  <2>2. <<>> \in Seq(Nat)
    OBVIOUS
  <2>3. /\ file' \in Seq(Inode) /\ Len(file') = Len(file) /\ file'[i].data = <<>>
        /\ \A j \in DOMAIN file : j # i => file'[j] = file[j]
    BY <1>2, <2>1, <2>2, TouchedIs
  <2> QED
    BY <1>1, <1>2, <1>3, <1>4, <2>1, <2>3 DEF d, i
<1>5. CASE ~IsFile(tree, d)
  <2>1. i = Len(file) + 1 /\ file' = Append(file, Fresh) /\ tree' = With(tree, d, File(i))
    BY <1>5 DEF OpenDest
  <2>2. Fresh \in Inode /\ Fresh.data = <<>>
    BY DEF Fresh, Inode, Meta, Mode
  <2>3. /\ file' \in Seq(Inode) /\ Len(file') = Len(file) + 1 /\ file'[i] = Fresh
        /\ \A j \in DOMAIN file : file'[j] = file[j]
    <3> HIDE DEF i
    <3> QED
      BY <1>2, <2>1, <2>2
  <2>4. i \in DOMAIN file'
    BY <1>2, <2>1, <2>3
  <2>5. CanMake(tree, d)
    BY <1>1, <1>5 DEF CanOpen
  <2>6. Len(file) <= Len(file')
    BY <1>2, <2>3
  <2> HIDE DEF d, i
  <2> QED
    BY <1>1, <1>3, <1>5, <2>1, <2>2, <2>3, <2>4, <2>5, <2>6 DEF d, i
<1> QED
  BY <1>4, <1>5

\* By the calls that change inodes.
LEMMA FileStepTyped ==
  ASSUME Typed, NEW p \in Proc, OpenDest(p) \/ Write(p) \/ PreserveMeta(p)
  PROVE  Typed'
<1>1. stack[p] # <<>> /\ UNCHANGED main /\ setting' = setting
  BY DEF OpenDest, Write, PreserveMeta, Busy, main
<1>2. /\ DiskTyped /\ Len(file) \in Nat /\ file \in Seq(Inode) /\ DOMAIN file = 1..Len(file)
      /\ Top(p) \in Activation /\ Sound(Len(file), Top(p)) /\ Len(setting.file) <= Len(file)
      /\ Len(setting.file) \in Nat
  BY <1>1, TopIs, SettingIs DEF Typed, DiskTyped, ProgressTyped
<1>3. CASE OpenDest(p)
  <2> DEFINE d == Follow(tree, Top(p).dest)
             i == IF IsFile(tree, d) THEN tree[d].ino ELSE Len(file) + 1
             act == [Top(p) EXCEPT !.call = "open_src", !.out = i]
  <2>1. /\ d \in Path /\ i \in DOMAIN file' /\ GoOn(p, act)
        /\ file' \in Seq(Inode) /\ Len(file) <= Len(file')
        /\ IF IsFile(tree, d) THEN tree' = tree
           ELSE CanMake(tree, d) /\ tree' = With(tree, d, File(i))
    BY <1>3, OpenDestIs
  <2>2. i \in Nat /\ i \in 1..Len(file') /\ Len(file') \in Nat /\ DOMAIN file \subseteq DOMAIN file'
    BY <1>2, <2>1
  <2> HIDE DEF i
  <2>3. act \in Activation /\ act.call = "open_src" /\ act.src = Top(p).src /\ act.out = i
    <3>1. "open_src" \in Calls
      BY DEF Calls
    <3> QED
      BY <1>2, <2>2, <3>1 DEF Activation
  <2> HIDE DEF act, d
  <2>4. Sound(Len(file'), act)
    BY <1>2, <2>2, <2>3 DEF Sound
  <2>5. Grown(tree')
    BY <1>2, <2>1, WithIsGrown DEF DiskTyped, File
  <2>6. \A r \in DOMAIN tree' : IsFile(tree', r) => tree'[r].ino \in DOMAIN file'
    BY <1>2, <2>1, <2>2 DEF DiskTyped, With, File, IsFile, Exists
  <2>7. Len(setting.file) <= Len(file')
    BY <1>2, <2>1, <2>2
  <2>8. DiskTyped'
    BY <1>1, <2>1, <2>5, <2>6, <2>7 DEF DiskTyped
  <2> QED
    BY <1>1, <2>1, <2>4, <2>8, TurnTyped DEF Moved
<1>4. CASE Write(p)
  <2>1. /\ tree' = tree /\ To(p, "read") /\ Top(p).call = "write"
        /\ \E b \in {Top(p).buf} \cup {Hole} : file' = Written(p, b)
    BY <1>4 DEF Write, Busy, Top
  <2>2. PICK b \in {Top(p).buf} \cup {Hole} :
          file' = Touched(file, Top(p).out, Stored(file[Top(p).out].data, Top(p).pos, b))
    BY <2>1 DEF Written
  <2>3. b \in Nat /\ Top(p).pos \in Nat /\ Top(p).out \in DOMAIN file
    BY <1>2, <2>1 DEF Hole, Activation, Sound
  <2>4. file[Top(p).out].data \in Seq(Nat)
    <3>1. file[Top(p).out] \in Inode
      BY <1>2, <2>3
    <3> QED
      BY <3>1 DEF Inode
  <2>5. file' \in Seq(Inode) /\ Len(file') = Len(file)
    BY <1>2, <2>2, <2>3, <2>4, StoredIs, TouchedIs
  <2>6. DOMAIN file' = DOMAIN file
    BY <1>2, <2>5
  <2>7. DiskTyped'
    BY <1>1, <1>2, <2>1, <2>5, <2>6 DEF DiskTyped
  <2>8. Sound(Len(file'), [Top(p) EXCEPT !.call = "read"])
    <3>1. "read" \in Calls
      BY DEF Calls
    <3> DEFINE act == [Top(p) EXCEPT !.call = "read"]
    <3>2. /\ act \in Activation /\ act.call = "read" /\ act.src = Top(p).src
          /\ act.in = Top(p).in /\ act.out = Top(p).out
      BY <1>2, <3>1, Turned
    <3> HIDE DEF act
    <3>3. Sound(Len(file'), act)
      BY <1>2, <2>1, <2>5, <3>2 DEF Sound
    <3> QED
      BY <3>3 DEF act
  <2>9. Len(file) <= Len(file')
    BY <1>2, <2>5
  <2> QED
    BY <1>1, <2>1, <2>7, <2>8, <2>9, TurnTyped DEF Moved, To
<1>5. CASE PreserveMeta(p)
  <2> DEFINE d == Follow(tree, Top(p).dest)
             i == tree[d].ino
  <2>1. /\ tree' = tree /\ Return(p) /\ Top(p).call = "preserve"
        /\ \/ file' = file
           \/ /\ IsFile(tree, d)
              /\ \E refused : file' = [file EXCEPT ![i].meta = Preserved(@, Top(p).meta, refused)]
    BY <1>5 DEF PreserveMeta, Busy, Top
  <2>2. file' \in Seq(Inode) /\ Len(file') = Len(file)
    <3>1. CASE file' = file
      BY <1>2, <3>1
    <3>2. CASE IsFile(tree, d) /\ file' # file
      <4>1. i \in DOMAIN file /\ file[i] \in Inode /\ Top(p).meta \in Meta
        BY <1>2, <3>2 DEF DiskTyped, IsFile, Exists, Activation
      <4>2. PICK refused : file' = [file EXCEPT ![i].meta = Preserved(@, Top(p).meta, refused)]
        BY <2>1, <3>2
      <4>3. Preserved(file[i].meta, Top(p).meta, refused) \in Meta
        <5>1. file[i].meta \in Meta
          BY <4>1 DEF Inode
        <5> QED
          BY <4>1, <5>1 DEF Preserved, Meta, Mode
      <4> HIDE DEF i
      <4> DEFINE x == [file[i] EXCEPT !.meta = Preserved(file[i].meta, Top(p).meta, refused)]
      <4>4. file' = [file EXCEPT ![i] = x] /\ x \in Inode
        BY <4>1, <4>2, <4>3 DEF Inode
      <4> HIDE DEF x
      <4> QED
        BY <1>2, <4>1, <4>4
    <3> QED
      BY <2>1, <3>1, <3>2
  <2>3. DOMAIN file' = DOMAIN file /\ Len(file) <= Len(file')
    BY <1>2, <2>2
  <2>4. DiskTyped'
    BY <1>1, <1>2, <2>1, <2>2, <2>3 DEF DiskTyped
  <2> QED
    BY <1>1, <2>1, <2>3, <2>4, TurnTyped DEF Moved
<1> QED
  BY <1>3, <1>4, <1>5

\* The activation act, which has read the entry n, calls copy() on it.
Enters(p, act, n) ==
  /\ stack' \in [Proc -> Seq(Activation)]
  /\ \A r \in Proc \ {p} : stack'[r] = stack[r]
  /\ Len(stack'[p]) = Len(stack[p]) + 1
  /\ DOMAIN stack'[p] = DOMAIN stack[p] \cup {Len(stack'[p])}
  /\ \A k \in DOMAIN stack[p] :
       stack'[p][k] = IF k = Len(stack[p]) THEN act ELSE stack[p][k]
  /\ stack'[p][Len(stack'[p])] = Copy(Append(Top(p).src, n), Append(Top(p).dest, n))
  /\ stack'[p] # <<>> /\ Last(stack'[p]) = stack'[p][Len(stack'[p])]

\* What copy() does with an entry: nothing more for a dot, a copy() of its own for
\* any other name.
LEMMA EntryRead ==
  ASSUME Typed, NEW p \in Proc, ReaddirEntry(p)
  PROVE  /\ stack[p] # <<>> /\ UNCHANGED disk /\ UNCHANGED main /\ Top(p).call = "readdir"
         /\ \E n \in Readable(tree, Follow(tree, Top(p).src), Top(p)) : \E act \in Activation :
              /\ act = [Top(p) EXCEPT !.seen = @ \cup {n}] /\ Sound(Len(file), act)
              /\ (n \in Dots /\ GoOn(p, act)) \/ (n \in Name /\ Enters(p, act, n))
<1>1. /\ stack[p] # <<>> /\ UNCHANGED disk /\ UNCHANGED main /\ Top(p).call = "readdir"
      /\ stack \in [Proc -> Seq(Activation)]
  BY DEF ReaddirEntry, Busy, Top, Typed, StacksTyped
<1>2. /\ Top(p) \in Activation /\ Sound(Len(file), Top(p)) /\ stack[p] \in Seq(Activation)
      /\ Len(stack[p]) \in Nat \ {0} /\ StacksTyped
  BY <1>1, TopIs DEF Typed
<1>3. PICK n \in Readable(tree, Follow(tree, Top(p).src), Top(p)) :
        stack' = [stack EXCEPT ![p] =
          IF n \in Dots THEN Append(Front(stack[p]), [Top(p) EXCEPT !.seen = @ \cup {n}])
          ELSE Append(Append(Front(stack[p]), [Top(p) EXCEPT !.seen = @ \cup {n}]),
                      Copy(Append(Top(p).src, n), Append(Top(p).dest, n)))]
  BY DEF ReaddirEntry
<1>4. n \in Name \cup Dots
  BY <1>2 DEF Readable, Entries, Activation
<1> DEFINE act == [Top(p) EXCEPT !.seen = @ \cup {n}]
<1>5. /\ act \in Activation /\ act.call = "readdir" /\ act.src = Top(p).src
      /\ act.dest = Top(p).dest /\ act.dir = Top(p).dir
  <2>1. Top(p).seen \cup {n} \in SUBSET (Name \cup Dots)
    BY <1>2, <1>4 DEF Activation
  <2> QED
    BY <1>1, <1>2, <2>1 DEF Activation
<1> HIDE DEF act
<1>6. Sound(Len(file), act)
  BY <1>2, <1>5 DEF Sound
<1>7. CASE n \in Dots
  <2>1. GoOn(p, act)
    BY <1>3, <1>7 DEF act, GoOn
  <2> QED
    BY <1>1, <1>5, <1>6, <1>7, <2>1 DEF act
<1>8. CASE n \notin Dots
  <2> DEFINE new == Copy(Append(Top(p).src, n), Append(Top(p).dest, n))
             f == Front(stack[p])
             s == stack[p]
  <2>1. n \in Name /\ new \in Activation
    <3>1. n \in Name
      BY <1>4, <1>8
    <3>2. Append(Top(p).src, n) \in Path /\ Append(Top(p).dest, n) \in Path
      BY <1>1, <3>1, TopPaths DEF Path
    <3> QED
      BY <3>1, <3>2, CopyIs
  <2>2. stack' = [stack EXCEPT ![p] = Append(Append(f, act), new)]
    BY <1>3, <1>8 DEF act
  <2>3. /\ f \in Seq(Activation) /\ Len(f) = Len(s) - 1
        /\ \A k \in 1..(Len(s) - 1) : f[k] = s[k]
    <3> HIDE DEF f, s
    <3>1. s \in Seq(Activation) /\ s # <<>>
      BY <1>1, <1>2 DEF s
    <3> QED
      BY <3>1, FrontAndLast DEF f, s
  <2> HIDE DEF new, f
  <2> DEFINE g == Append(f, act)
             h == Append(g, new)
  <2>4. /\ g \in Seq(Activation) /\ Len(g) = Len(s) /\ g[Len(s)] = act
        /\ \A k \in 1..(Len(s) - 1) : g[k] = s[k]
    <3> HIDE DEF s
    <3>1. Len(s) \in Nat \ {0}
      BY <1>2 DEF s
    <3> QED
      BY <1>5, <2>3, <3>1
  <2> HIDE DEF g
  <2>5. /\ h \in Seq(Activation) /\ Len(h) = Len(s) + 1 /\ h[Len(s) + 1] = new /\ h # <<>>
        /\ DOMAIN h = 1..(Len(s) + 1)
        /\ \A k \in 1..Len(s) : h[k] = g[k]
    <3> HIDE DEF s
    <3>1. Len(s) \in Nat \ {0}
      BY <1>2 DEF s
    <3> QED
      BY <2>1, <2>4, <3>1
  <2>6. Last(h) = h[Len(h)]
    BY DEF Last
  <2>7. stack'[p] = h /\ \A r \in Proc \ {p} : stack'[r] = stack[r]
    BY <1>1, <2>2 DEF g
  <2> HIDE DEF h
  <2>8. stack' \in [Proc -> Seq(Activation)]
    BY <1>1, <2>2, <2>5 DEF h, g
  <2>9. DOMAIN s = 1..Len(s) /\ Len(s) \in Nat
    BY <1>2
  <2>10. \A k \in DOMAIN s : h[k] = IF k = Len(s) THEN act ELSE s[k]
    <3>1. \A k \in 1..Len(s) : k # Len(s) => k \in 1..(Len(s) - 1)
      BY <2>9
    <3> QED
      BY <2>4, <2>5, <2>9, <3>1
  <2>11. DOMAIN h = DOMAIN s \cup {Len(h)}
    BY <2>5, <2>9
  <2>12. h[Len(h)] = new
    BY <2>5
  <2>13. Enters(p, act, n)
    BY <2>5, <2>6, <2>7, <2>8, <2>10, <2>11, <2>12 DEF new, Enters
  <2> QED
    BY <1>1, <1>5, <1>6, <2>1, <2>13 DEF act
<1> QED
  BY <1>7, <1>8

\* What the other steps of the proof need of it.
LEMMA ReaddirEntryIs ==
  ASSUME Typed, NEW p \in Proc, ReaddirEntry(p)
  PROVE  \E act \in Activation :
           /\ stack[p] # <<>> /\ UNCHANGED disk /\ UNCHANGED main
           /\ Sound(Len(file), act)
           /\ act.call = "readdir" /\ act.src = Top(p).src /\ act.dest = Top(p).dest
           /\ act.dir = Top(p).dir /\ Top(p).call = "readdir"
           /\ GoOn(p, act) \/ \E n \in Name : Enters(p, act, n)
<1>1. PICK n \in Readable(tree, Follow(tree, Top(p).src), Top(p)) : \E act \in Activation :
        /\ act = [Top(p) EXCEPT !.seen = @ \cup {n}] /\ Sound(Len(file), act)
        /\ (n \in Dots /\ GoOn(p, act)) \/ (n \in Name /\ Enters(p, act, n))
  BY EntryRead
<1>2. PICK act \in Activation :
        /\ act = [Top(p) EXCEPT !.seen = @ \cup {n}] /\ Sound(Len(file), act)
        /\ (n \in Dots /\ GoOn(p, act)) \/ (n \in Name /\ Enters(p, act, n))
  BY <1>1
<1>3. /\ stack[p] # <<>> /\ UNCHANGED disk /\ UNCHANGED main /\ Top(p).call = "readdir"
  BY EntryRead
<1>4. Top(p) \in Activation
  BY <1>3, TopIs DEF Typed
<1>5. /\ act.call = "readdir" /\ act.src = Top(p).src /\ act.dest = Top(p).dest
      /\ act.dir = Top(p).dir
  BY <1>2, <1>3, <1>4 DEF Activation
<1> QED
  BY <1>2, <1>3, <1>5

\* By a step into an entry.
LEMMA EntryStepTyped ==
  ASSUME Typed, NEW p \in Proc, ReaddirEntry(p)
  PROVE  Typed'
<1>1. PICK act \in Activation :
        /\ stack[p] # <<>> /\ UNCHANGED disk /\ UNCHANGED main /\ Sound(Len(file), act)
        /\ GoOn(p, act) \/ \E n \in Name : Enters(p, act, n)
  BY ReaddirEntryIs
<1>2. CASE GoOn(p, act)
  <2>1. Moved(p)
    BY <1>1, <1>2 DEF Moved, disk
  <2> QED
    BY <1>1, <2>1, QuietTurnTyped
<1>3. ASSUME NEW n \in Name, Enters(p, act, n)
      PROVE  Typed'
  <2> DEFINE new == Copy(Append(Top(p).src, n), Append(Top(p).dest, n))
  <2>1. Sound(Len(file), new)
    <3>0. Top(p).src \in Seq(Name) /\ Top(p).dest \in Seq(Name)
      BY <1>1, TopPaths DEF Path
    <3>1. Append(Top(p).src, n) \in Path /\ Append(Top(p).dest, n) \in Path
          /\ Append(Top(p).src, n) # <<>>
      BY <3>0 DEF Path
    <3>2. new \in Activation /\ new.call = "stat_src" /\ new.src # <<>>
      BY <3>1, CopyIs
    <3> HIDE DEF new
    <3> QED
      BY <3>2 DEF Sound
  <2> HIDE DEF new
  <2>2. \A k \in DOMAIN stack'[p] : Sound(Len(file), stack'[p][k])
    BY <1>1, <1>3, <2>1 DEF Typed, StacksTyped, new, Enters
  <2>3. \A r \in Proc : \A k \in DOMAIN stack'[r] : Sound(Len(file), stack'[r][k])
    BY <1>3, <2>2 DEF Typed, StacksTyped, Enters
  <2>4. file' = file /\ setting' = setting /\ tree' = tree
    BY <1>1 DEF disk, main
  <2>5. StacksTyped'
    BY <1>3, <2>3, <2>4 DEF StacksTyped, Enters
  <2>6. DiskTyped'
    BY <2>4 DEF Typed, DiskTyped
  <2>7. \A r \in Proc : stack'[r] # <<>> => stack[r] # <<>>
    BY <1>1, <1>3 DEF Enters
  <2>8. ProgressTyped'
    BY <1>1, <2>7 DEF Typed, ProgressTyped, main, cmd, Sources
  <2> QED
    BY <2>5, <2>6, <2>8 DEF Typed
<1> QED
  BY <1>1, <1>2, <1>3

\* Every step keeps the types.
LEMMA TypesKept ==
  ASSUME Typed, [Next]_vars
  PROVE  Typed'
<1>1. ASSUME NEW p \in Proc, Step(p) PROVE Typed'
  BY <1>1, MainStepTyped, QuietStepTyped, TreeStepTyped, FileStepTyped, EntryStepTyped, Zenon
     DEF Step
<1>2. CASE UNCHANGED vars
  BY <1>2 DEF vars, Typed, DiskTyped, StacksTyped, ProgressTyped, cmd, Sources, IsFile, Exists
<1> QED
  BY <1>1, <1>2 DEF Next, Done

\* The setting gives the types their beginning.
LEMMA TypesBegin ==
  ASSUME Init
  PROVE  Typed
<1>1. setting \in Settings
  BY DEF Init
<1>2. /\ Grown(setting.tree) /\ setting.file \in Seq(Inode)
      /\ \A q \in DOMAIN setting.tree :
           IsFile(setting.tree, q) => setting.tree[q].ino \in DOMAIN setting.file
  BY <1>1, SettingIs
<1>3. DiskTyped
  <2>1. Len(setting.file) <= Len(setting.file)
    BY <1>2
  <2> QED
    BY <1>2, <2>1 DEF Init, DiskTyped
<1>4. stack = [p \in Proc |-> <<>>]
  BY DEF Init
<1>5. StacksTyped
  BY <1>4 DEF StacksTyped
<1>6. /\ at = [p \in Proc |-> "guess"] /\ target = [p \in Proc |-> "unset"]
      /\ operand = [p \in Proc |-> 0]
  BY DEF Init
<1>7. ProgressTyped
  BY <1>1, <1>4, <1>6 DEF ProgressTyped
<1> QED
  BY <1>3, <1>5, <1>7 DEF Typed

-------------------------------------------------------------------------------
(***************************************************************************)
(* What p knows is kept by its own steps.                                  *)
(***************************************************************************)

\* What an activation is about depends on how far p got in cp_main, not on the disk.
LEMMA AboutStays ==
  ASSUME NEW p \in Proc, NEW act, About(p, act), UNCHANGED main
  PROVE  About(p, act)'
BY DEF About, main, Sources, cmd, Image, Dest, IsMv, Straight

\* Calls which rely on nothing.
LEMMA ReadyPlain ==
  ASSUME NEW p \in Proc, NEW t, NEW f, NEW act,
         act.call \in {"stat_src", "mkdir", "opendir", "readdir", "rmdir", "unlink_src", "preserve"}
  PROVE  Ready(p, t, f, act)
BY DEF Ready, Relies, Spares

\* An activation goes on to another call.
LEMMA AboutNext ==
  ASSUME NEW p \in Proc, NEW a, NEW b, About(p, a),
         b.src = a.src, b.dest = a.dest, b.dir = a.dir,
         b.call = "prompt" => cmd[p].interactive,
         b.call \in {"rename", "rmdir", "unlink_src"} => IsMv(p),
         b.call \in {"mkdir", "opendir", "readdir", "rmdir"} => a.dir,
         b.call \in {"prompt", "open_dest", "unlink_dest", "reopen_dest", "open_src",
                     "read", "write", "unlink_src"} => ~a.dir,
         \/ a.call \notin {"stat_src", "stat_dest"} \/ b.call \in {"stat_src", "stat_dest"}
         \/ IsMv(p) /\ Straight(p) => a.src # a.dest
  PROVE  About(p, b)
<1>1. IsMv(p) /\ Straight(p) /\ b.call \notin {"stat_src", "stat_dest"} => b.src # b.dest
  BY DEF About
<1> HIDE DEF Straight
<1> QED
  BY <1>1 DEF About

\* What is known of the innermost activation.
LEMMA CallingTop ==
  ASSUME Typed, NEW p \in Proc, stack[p] # <<>>, Calling(p)
  PROVE  /\ About(p, Top(p)) /\ Ready(p, tree, file, Top(p))
         /\ Top(p) \in Activation /\ Sound(Len(file), Top(p)) /\ StacksTyped
<1>1. /\ Top(p) = stack[p][Len(stack[p])] /\ Len(stack[p]) \in DOMAIN stack[p]
      /\ Top(p) \in Activation /\ Sound(Len(file), Top(p)) /\ StacksTyped
  BY TopIs DEF Typed
<1> QED
  BY <1>1 DEF Calling

\* A return leads back to the reading of a directory, or to cp_main.
LEMMA ReturnCalling ==
  ASSUME Typed, NEW p \in Proc, stack[p] # <<>>, Calling(p), UNCHANGED main, Return(p)
  PROVE  Calling(p)'
<1>1. /\ \A k \in DOMAIN stack'[p] : k \in DOMAIN stack[p] /\ k # Len(stack[p])
                                     /\ stack'[p][k] = stack[p][k]
      /\ stack'[p] # <<>> => Len(stack'[p]) \in DOMAIN stack'[p]
                             /\ Last(stack'[p]) = stack'[p][Len(stack'[p])]
  BY Returning DEF Typed
<1>2. \A k \in DOMAIN stack'[p] : /\ About(p, stack'[p][k])
                                  /\ stack'[p][k].call = "readdir"
  BY <1>1 DEF Calling
<1>3. ASSUME NEW k \in DOMAIN stack'[p] PROVE About(p, stack[p][k])'
  <2>1. About(p, stack'[p][k])
    BY <1>2
  <2> DEFINE a == stack'[p][k]
  <2>2. About(p, a)
    BY <2>1
  <2> QED
    BY <1>2 DEF About, main, Sources, cmd, Image, Dest, IsMv, Straight
<1>4. stack'[p] # <<>> => Top(p)'.call = "readdir"
  BY <1>1, <1>2 DEF Top
<1>5. ASSUME stack'[p] # <<>> PROVE Ready(p, tree, file, Top(p))'
  BY <1>4, <1>5 DEF Ready, Relies, Spares
<1> QED
  BY <1>2, <1>3, <1>5 DEF Calling

\* Going on, p has to know what the next call relies on.
LEMMA GoOnCalling ==
  ASSUME Typed, NEW p \in Proc, stack[p] # <<>>, Calling(p), UNCHANGED main,
         NEW act \in Activation, GoOn(p, act), About(p, act), Ready(p, tree', file', act)
  PROVE  Calling(p)'
<1>1. /\ Len(stack'[p]) = Len(stack[p]) /\ DOMAIN stack'[p] = DOMAIN stack[p]
      /\ \A k \in DOMAIN stack[p] :
           stack'[p][k] = IF k = Len(stack[p]) THEN act ELSE stack[p][k]
      /\ stack'[p] # <<>> /\ Last(stack'[p]) = act
  BY GoingOn DEF Typed
<1>2. \A k \in DOMAIN stack'[p] : /\ About(p, stack'[p][k])
                                  /\ k # Len(stack'[p]) => stack'[p][k].call = "readdir"
  BY <1>1 DEF Calling
<1>3. ASSUME NEW k \in DOMAIN stack'[p] PROVE About(p, stack[p][k])'
  BY <1>2 DEF About, main, Sources, cmd, Image, Dest, IsMv, Straight
<1>4. Top(p)' = act
  BY <1>1 DEF Top
<1>5. Ready(p, tree, file, Top(p))'
  BY <1>4 DEF Ready, MustAsk, Relies, Spares, main, cmd
<1> QED
  BY <1>2, <1>3, <1>5 DEF Calling

\* A call that relies on nothing can be set in an activation of p.
LEMMA PlainCalling ==
  ASSUME Typed, NEW p \in Proc, stack[p] # <<>>, Calling(p), UNCHANGED main,
         NEW c \in {"mkdir", "opendir", "rmdir", "unlink_src", "preserve"}, To(p, c),
         Top(p).call \notin {"stat_src", "stat_dest"},
         c \in {"mkdir", "opendir", "rmdir"} => Top(p).dir,
         c = "unlink_src" => ~Top(p).dir,
         c \in {"rmdir", "unlink_src"} => IsMv(p)
  PROVE  Calling(p)'
<1> DEFINE act == [Top(p) EXCEPT !.call = c]
<1>1. About(p, Top(p)) /\ Top(p) \in Activation
  BY CallingTop
<1>2. c \in Calls
  BY DEF Calls
<1>3. /\ act \in Activation /\ act.call = c /\ act.src = Top(p).src /\ act.dest = Top(p).dest
      /\ act.dir = Top(p).dir
  BY <1>1, <1>2, Turned
<1>4. GoOn(p, act)
  BY DEF To
<1> HIDE DEF act
<1>5. About(p, act)
  BY <1>1, <1>3, AboutNext
<1>6. Ready(p, tree', file', act)
  BY <1>3, ReadyPlain
<1> QED
  BY <1>3, <1>4, <1>5, <1>6, GoOnCalling

\* What comes after an activation's work relies on nothing.
LEMMA CloseCalling ==
  ASSUME Typed, NEW p \in Proc, stack[p] # <<>>, Calling(p), UNCHANGED main,
         Top(p).call \notin {"stat_src", "stat_dest"},
         Finish(p) \/ (Close(p) /\ ~Top(p).dir)
  PROVE  Calling(p)'
<1>1. \/ Return(p) \/ To(p, "preserve")
      \/ To(p, "unlink_src") /\ IsMv(p) /\ ~Top(p).dir
  BY DEF Finish, Close
<1>2. CASE Return(p)
  BY <1>2, ReturnCalling
<1>3. CASE To(p, "preserve")
  BY <1>3, PlainCalling
<1>4. CASE To(p, "unlink_src") /\ IsMv(p) /\ ~Top(p).dir
  BY <1>4, PlainCalling
<1> QED
  BY <1>1, <1>2, <1>3, <1>4

\* Where no path leads through a link, a source is not DESTINATION unless stat
\* tells that they are the same.
LEMMA SeenApart ==
  ASSUME NEW t, Linkless(t), NEW act, act.src \in Path, act.dest \in Path,
         Seen(t, act), Differs(t, act)
  PROVE  act.src # act.dest
<1>1. Follow(t, act.src) = act.src /\ NoFollow(t, act.src) = act.src /\ Follow(t, act.dest) = act.dest
  BY FollowStraight DEF Linkless
<1> QED
  BY <1>1 DEF Seen, Differs, Found

\* Behind the checks on DESTINATION.
LEMMA FirstWayCalling ==
  ASSUME Typed, NEW p \in Proc, stack[p] # <<>>, Calling(p), UNCHANGED main, UNCHANGED disk,
         Linkless(setting.tree) => Linkless(tree),
         NEW act \in Activation, GoOn(p, act),
         act.src = Top(p).src, act.dest = Top(p).dest, act.dir = Top(p).dir, act.id = Top(p).id,
         \/ act.call = FirstWay(p)
         \/ act.call = "prompt" /\ cmd[p].interactive /\ ~act.dir,
         Seen(tree, act), Differs(tree, act),
         act.call \in {"rename", "open_dest"} /\ MustAsk(p) /\ ~act.consent =>
           ~Exists(tree, Follow(tree, act.dest)) \/ (act.dir /\ IsDir(tree, Follow(tree, act.dest)))
  PROVE  Calling(p)'
<1>1. About(p, Top(p)) /\ Top(p).src \in Path /\ Top(p).dest \in Path
  BY CallingTop, TopPaths
<1>2. /\ act.call \in {"rename", "mkdir", "open_dest", "prompt"}
      /\ act.call = "rename" => IsMv(p)
      /\ act.call = "mkdir" => act.dir
      /\ act.call = "open_dest" => ~act.dir
      /\ act.call = "prompt" => cmd[p].interactive /\ ~act.dir
  BY DEF FirstWay
<1>3. IsMv(p) /\ Straight(p) => Top(p).src # Top(p).dest
  BY <1>1, SeenApart DEF Straight, Linkless
<1>4. About(p, act)
  BY <1>1, <1>2, <1>3, AboutNext
<1>5. Ready(p, tree, file, act)
  BY <1>2 DEF Ready, Relies, Spares
<1>6. Ready(p, tree', file', act)
  BY <1>5 DEF disk
<1> QED
  BY <1>4, <1>6, GoOnCalling

\* By the steps that leave the disk alone.
LEMMA QuietStepCalling ==
  ASSUME Typed, NEW p \in Proc, Calling(p), Linkless(setting.tree) => Linkless(tree),
         \/ StatSrc(p) \/ StatSrcFails(p) \/ StatDestMissing(p) \/ StatDestExists(p)
         \/ StatDestClashes(p) \/ PromptYes(p) \/ PromptNo(p) \/ RenameFails(p)
         \/ Opendir(p) \/ OpendirFails(p) \/ ReaddirEnd(p) \/ OpenDestForced(p)
         \/ OpenDestFails(p) \/ OpenSrc(p) \/ OpenSrcFails(p) \/ Read(p) \/ ReadEof(p)
         \/ ReadFails(p) \/ WriteFails(p)
  PROVE  Calling(p)'
<1>1. stack[p] # <<>> /\ UNCHANGED disk /\ UNCHANGED main /\ tree' = tree /\ file' = file
  BY DEF StatSrc, StatSrcFails, StatDestMissing, StatDestExists, StatDestClashes, PromptYes,
         PromptNo, RenameFails, Opendir, OpendirFails, ReaddirEnd, OpenDestForced,
         OpenDestFails, OpenSrc, OpenSrcFails, Read, ReadEof, ReadFails, WriteFails, Busy, disk
<1>2. /\ About(p, Top(p)) /\ Ready(p, tree, file, Top(p))
      /\ Top(p) \in Activation /\ Sound(Len(file), Top(p))
  BY <1>1, CallingTop
<1>c. {"stat_dest", "prompt", "rename", "mkdir", "open_dest", "unlink_dest", "readdir",
       "read", "write"} \subseteq Calls
  BY DEF Calls
<1>w. FirstWay(p) \in {"rename", "mkdir", "open_dest"}
  BY DEF FirstWay
<1>3. CASE \/ StatSrcFails(p) \/ StatDestClashes(p) \/ PromptNo(p) \/ OpendirFails(p)
           \/ OpenDestFails(p) \/ OpenSrcFails(p)
  <2>1. Return(p)
    BY <1>3 DEF StatSrcFails, StatDestClashes, PromptNo, OpendirFails, OpenDestFails,
                OpenSrcFails, Fail
  <2> QED
    BY <1>1, <2>1, ReturnCalling
<1>4. CASE StatSrc(p)
  <2> DEFINE q == Found(tree, Top(p).src)
             m == IF IsFile(tree, q) THEN file[tree[q].ino].meta ELSE NoMeta
             act == [Top(p) EXCEPT !.call = "stat_dest", !.dir = IsDir(tree, q),
                                   !.id = Identity(tree, q), !.meta = m]
  <2>1. GoOn(p, act) /\ Exists(tree, q)
    BY <1>4 DEF StatSrc
  <2>2. /\ act.call = "stat_dest" /\ act.src = Top(p).src /\ act.dest = Top(p).dest
        /\ act.id = Identity(tree, q)
    BY <1>2 DEF Activation
  <2>3. act \in Activation
    <3> HIDE DEF act
    <3>1. Typed'
      BY <1>4, QuietStepTyped
    <3>2. stack'[p] = Append(Front(stack[p]), act) /\ stack'[p] \in Seq(Activation)
      BY <2>1, <3>1 DEF GoOn, Typed, StacksTyped
    <3>3. Front(stack[p]) \in Seq(Activation)
      BY <1>1, TopIs, FrontAndLast DEF Typed
    <3>4. Len(Append(Front(stack[p]), act)) = Len(Front(stack[p])) + 1
          /\ Append(Front(stack[p]), act)[Len(Front(stack[p])) + 1] = act
          /\ Len(Front(stack[p])) + 1 \in Nat \ {0}
      BY <3>3
    <3> QED
      BY <3>2, <3>4
  <2> HIDE DEF act
  <2>4. About(p, act)
    BY <1>2, <2>2 DEF About
  <2>5. Seen(tree, act)
    BY <2>1, <2>2 DEF Seen
  <2>6. Ready(p, tree', file', act)
    BY <1>1, <2>2, <2>5 DEF Ready, Relies, Spares
  <2> QED
    BY <1>1, <2>1, <2>3, <2>4, <2>6, GoOnCalling
<1>5. CASE StatDestMissing(p)
  <2> DEFINE act == [Top(p) EXCEPT !.call = FirstWay(p)]
  <2>1. /\ GoOn(p, act) /\ ~Exists(tree, Follow(tree, Top(p).dest))
        /\ Top(p).call = "stat_dest"
    BY <1>5 DEF StatDestMissing, To, Busy, Top
  <2>2. /\ act \in Activation /\ act.call = FirstWay(p) /\ act.src = Top(p).src
        /\ act.dest = Top(p).dest /\ act.dir = Top(p).dir /\ act.id = Top(p).id
    BY <1>2, <1>c, <1>w, Turned
  <2> HIDE DEF act
  <2>3. Seen(tree, act) /\ Differs(tree, act)
    BY <1>2, <2>1, <2>2 DEF Ready, Relies, Seen, Differs
  <2> QED
    BY <1>1, <2>1, <2>2, <2>3, FirstWayCalling
<1>6. CASE StatDestExists(p)
  <2> DEFINE d == Follow(tree, Top(p).dest)
             c == IF cmd[p].interactive /\ ~Top(p).dir THEN "prompt" ELSE FirstWay(p)
             act == [Top(p) EXCEPT !.call = c]
  <2>1. /\ GoOn(p, act) /\ Top(p).call = "stat_dest"
        /\ IsDir(tree, d) = Top(p).dir /\ Identity(tree, d) # Top(p).id
    BY <1>6 DEF StatDestExists, To, Busy, Top, Clash
  <2>2. c \in {"prompt", "rename", "mkdir", "open_dest"}
    BY <1>w
  <2>3. /\ act \in Activation /\ act.call = c /\ act.src = Top(p).src
        /\ act.dest = Top(p).dest /\ act.dir = Top(p).dir /\ act.id = Top(p).id
    <3> HIDE DEF c
    <3> QED
      BY <1>2, <1>c, <2>2, Turned
  <2> HIDE DEF act
  <2>4. Seen(tree, act) /\ Differs(tree, act)
    BY <1>2, <2>1, <2>3 DEF Ready, Relies, Seen, Differs
  <2>5. act.call = FirstWay(p) \/ (act.call = "prompt" /\ cmd[p].interactive /\ ~act.dir)
    BY <2>3
  <2>6. act.call \in {"rename", "open_dest"} /\ MustAsk(p)
          => act.dir /\ IsDir(tree, Follow(tree, act.dest))
    BY <2>1, <2>3 DEF MustAsk
  <2> QED
    BY <1>1, <2>1, <2>3, <2>4, <2>5, <2>6, FirstWayCalling
<1>7. CASE PromptYes(p)
  <2>a. PICK a \in setting.answers \cap (Accepted \cup {"nothing"}) :
          GoOn(p, [Top(p) EXCEPT !.call = FirstWay(p), !.consent = a \in Accepted])
    BY <1>7 DEF PromptYes
  <2> DEFINE yes == a \in Accepted
             act == [Top(p) EXCEPT !.call = FirstWay(p), !.consent = yes]
  <2>1. GoOn(p, act) /\ Top(p).call = "prompt" /\ yes \in BOOLEAN
    <3>1. Top(p).call = "prompt"
      BY <1>7 DEF PromptYes, Busy, Top
    <3>2. GoOn(p, act) /\ yes \in BOOLEAN
      BY <2>a
    <3> QED
      BY <3>1, <3>2
  <2>b. MustAsk(p) => yes
    BY <2>a DEF MustAsk
  <2> HIDE DEF yes
  <2>2. /\ act \in Activation /\ act.call = FirstWay(p) /\ act.src = Top(p).src
        /\ act.dest = Top(p).dest /\ act.dir = Top(p).dir /\ act.id = Top(p).id
        /\ MustAsk(p) => act.consent
    BY <1>2, <1>c, <1>w, <2>1, <2>b DEF Activation
  <2> HIDE DEF act
  <2>3. Seen(tree, act) /\ Differs(tree, act)
    BY <1>2, <2>1, <2>2 DEF Ready, Relies, Seen, Differs
  <2> QED
    BY <1>1, <2>1, <2>2, <2>3, FirstWayCalling
<1>8. CASE RenameFails(p)
  <2>1. /\ Top(p).call = "rename"
        /\ To(p, IF Top(p).dir THEN "mkdir" ELSE "open_dest")
    BY <1>8 DEF RenameFails, Busy, Top
  <2>2. CASE Top(p).dir
    BY <1>1, <2>1, <2>2, PlainCalling
  <2>3. CASE ~Top(p).dir
    <3> DEFINE act == [Top(p) EXCEPT !.call = "open_dest"]
    <3>1. GoOn(p, act)
      BY <2>1, <2>3 DEF To
    <3>2. /\ act \in Activation /\ act.call = "open_dest" /\ act.src = Top(p).src
          /\ act.dest = Top(p).dest /\ act.dir = Top(p).dir /\ act.id = Top(p).id
          /\ act.consent = Top(p).consent
      BY <1>2, <1>c, Turned
    <3> HIDE DEF act
    <3>3. About(p, act)
      BY <1>2, <2>1, <2>3, <3>2, AboutNext
    <3>4. Ready(p, tree', file', act)
      BY <1>1, <1>2, <2>1, <2>3, <3>2 DEF Ready, Relies, Spares, Seen, Differs
    <3> QED
      BY <1>1, <3>1, <3>2, <3>3, <3>4, GoOnCalling
  <2> QED
    BY <2>2, <2>3
<1>9. CASE OpenDestForced(p)
  <2> DEFINE act == [Top(p) EXCEPT !.call = "unlink_dest"]
  <2>1. GoOn(p, act) /\ Top(p).call = "open_dest"
    BY <1>9 DEF OpenDestForced, To, Busy, Top
  <2>2. /\ act \in Activation /\ act.call = "unlink_dest" /\ act.src = Top(p).src
        /\ act.dest = Top(p).dest /\ act.dir = Top(p).dir /\ act.id = Top(p).id
        /\ act.consent = Top(p).consent
    BY <1>2, <1>c, Turned
  <2> HIDE DEF act
  <2>d. ~Top(p).dir
    BY <1>2, <2>1 DEF About
  <2>3. About(p, act)
    BY <1>2, <2>1, <2>2, <2>d, AboutNext
  <2>4. Ready(p, tree', file', act)
    BY <1>1, <1>2, <2>1, <2>2 DEF Ready, Relies, Spares, Seen, Differs
  <2> QED
    BY <1>1, <2>1, <2>2, <2>3, <2>4, GoOnCalling
<1>10. CASE Opendir(p)
  <2> DEFINE snap == Entries(tree, Follow(tree, Top(p).src)) \cup Dots
             act == [Top(p) EXCEPT !.call = "readdir", !.snap = snap]
  <2>1. GoOn(p, act) /\ Top(p).call = "opendir"
    BY <1>10 DEF Opendir, Busy, Top
  <2>2. snap \in SUBSET (Name \cup Dots)
    BY DEF Entries
  <2> HIDE DEF snap
  <2>3. /\ act \in Activation /\ act.call = "readdir" /\ act.src = Top(p).src
        /\ act.dest = Top(p).dest /\ act.dir = Top(p).dir
    BY <1>2, <1>c, <2>2 DEF Activation
  <2> HIDE DEF act
  <2>d. Top(p).dir
    BY <1>2, <2>1 DEF About
  <2>4. About(p, act)
    BY <1>2, <2>1, <2>3, <2>d, AboutNext
  <2>5. Ready(p, tree', file', act)
    BY <2>3, ReadyPlain
  <2> QED
    BY <1>1, <2>1, <2>3, <2>4, <2>5, GoOnCalling
<1>11. CASE ReaddirEnd(p)
  <2>1. Top(p).call = "readdir" /\ (Finish(p) \/ (To(p, "rmdir") /\ IsMv(p)))
    BY <1>11 DEF ReaddirEnd, Busy, Top
  <2>2. Top(p).dir
    BY <1>2, <2>1 DEF About
  <2>3. CASE Finish(p)
    BY <1>1, <2>1, <2>3, CloseCalling
  <2>4. CASE To(p, "rmdir") /\ IsMv(p)
    BY <1>1, <2>1, <2>2, <2>4, PlainCalling
  <2> QED
    BY <2>1, <2>3, <2>4
<1>12. CASE ReadEof(p) \/ ReadFails(p) \/ WriteFails(p)
  <2>1. Top(p).call \in {"read", "write"} /\ Close(p)
    BY <1>12 DEF ReadEof, ReadFails, WriteFails, Busy, Top
  <2>2. ~Top(p).dir
    BY <1>2, <2>1 DEF About
  <2> QED
    BY <1>1, <2>1, <2>2, CloseCalling
<1>13. CASE OpenSrc(p)
  <2> DEFINE s == Follow(tree, Top(p).src)
             i == Identity(tree, s).ino
             act == [Top(p) EXCEPT !.call = "read", !.in = i]
  <2>1. GoOn(p, act) /\ Top(p).call = "open_src"
    BY <1>13 DEF OpenSrc, Busy, Top
  <2>2. /\ i \in Nat
        /\ i = Top(p).out => IsFile(tree, s) /\ tree[s].ino = Top(p).out
    <3>1. Top(p).out # 0
      BY <1>2, <2>1 DEF Sound
    <3>2. IsFile(tree, s) => tree[s].ino \in Nat
      BY DEF Typed, DiskTyped, IsFile, Exists
    <3> QED
      BY <3>1, <3>2 DEF Identity
  <2>3. Apart(tree, file, Len(setting.file), Top(p))
    BY <1>2, <2>1 DEF Ready, Relies
  <2> HIDE DEF i
  <2>4. /\ act \in Activation /\ act.call = "read" /\ act.src = Top(p).src
        /\ act.dest = Top(p).dest /\ act.dir = Top(p).dir /\ act.in = i
        /\ act.out = Top(p).out /\ act.consent = Top(p).consent
    BY <1>2, <1>c, <2>2 DEF Activation
  <2> HIDE DEF act
  <2>d. ~Top(p).dir
    BY <1>2, <2>1 DEF About
  <2>5. About(p, act)
    BY <1>2, <2>1, <2>4, <2>d, AboutNext
  <2>6. act.in = act.out => act.in \notin 1..Len(setting.file) /\ file[act.in].data = <<>>
    BY <2>2, <2>3, <2>4 DEF Apart
  <2>7. Ready(p, tree', file', act)
    BY <1>1, <1>2, <2>1, <2>4, <2>6 DEF Ready, Relies, Spares
  <2> QED
    BY <1>1, <2>1, <2>4, <2>5, <2>7, GoOnCalling
<1>14. CASE Read(p)
  <2> DEFINE b == file[Top(p).in].data[Top(p).pos + 1]
             act == [Top(p) EXCEPT !.call = "write", !.pos = @ + 1, !.buf = b]
  <2>1. /\ GoOn(p, act) /\ Top(p).call = "read" /\ Top(p).in # 0
        /\ Top(p).pos < Len(file[Top(p).in].data)
    BY <1>14 DEF Read, Busy, Top
  <2>2. Top(p).pos \in Nat /\ b \in Nat
    <3>1. Top(p).in \in 1..Len(file) /\ Top(p).pos \in Nat
      BY <1>2, <2>1 DEF Sound, Activation
    <3>2. file[Top(p).in] \in Inode
      BY <3>1 DEF Typed, DiskTyped
    <3>3. file[Top(p).in].data \in Seq(Nat)
      BY <3>2 DEF Inode
    <3> QED
      BY <2>1, <3>1, <3>3
  <2>3. Top(p).pos + 1 \in Nat
    BY <2>2
  <2> HIDE DEF b
  <2>4. /\ act \in Activation /\ act.call = "write" /\ act.src = Top(p).src
        /\ act.dest = Top(p).dest /\ act.dir = Top(p).dir /\ act.in = Top(p).in
        /\ act.out = Top(p).out /\ act.consent = Top(p).consent
    BY <1>2, <1>c, <2>2, <2>3 DEF Activation
  <2> HIDE DEF act
  <2>d. ~Top(p).dir
    BY <1>2, <2>1 DEF About
  <2>5. About(p, act)
    BY <1>2, <2>1, <2>4, <2>d, AboutNext
  <2>6. act.in # act.out
    <3>1. file[Top(p).in].data # <<>>
      BY <2>1, <2>2
    <3> QED
      BY <1>2, <2>1, <2>4, <3>1 DEF Ready, Relies
  <2>7. Ready(p, tree', file', act)
    BY <1>1, <1>2, <2>1, <2>4, <2>6 DEF Ready, Relies, Spares
  <2> QED
    BY <1>1, <2>1, <2>4, <2>5, <2>7, GoOnCalling
<1> QED
  BY <1>3, <1>4, <1>5, <1>6, <1>7, <1>8, <1>9, <1>10, <1>11, <1>12, <1>13, <1>14

\* By the steps that change the disk.
LEMMA DiskStepCalling ==
  ASSUME Typed, Typed', NEW p \in Proc, Calling(p),
         \/ RenameDone(p) \/ Mkdir(p) \/ RmdirSrc(p) \/ OpenDest(p) \/ UnlinkDest(p)
         \/ Write(p) \/ UnlinkSrc(p) \/ PreserveMeta(p)
  PROVE  Calling(p)'
<1>1. stack[p] # <<>> /\ UNCHANGED main
  BY DEF RenameDone, Mkdir, RmdirSrc, OpenDest, UnlinkDest, Write, UnlinkSrc, PreserveMeta, Busy
<1>2. /\ About(p, Top(p)) /\ Ready(p, tree, file, Top(p))
      /\ Top(p) \in Activation /\ Sound(Len(file), Top(p))
  BY <1>1, CallingTop
<1>3. /\ Len(setting.file) \in Nat /\ Len(file) \in Nat /\ Len(setting.file) <= Len(file)
      /\ DOMAIN file = 1..Len(file)
  BY SettingIs DEF Typed, DiskTyped, ProgressTyped
<1>c. {"open_src", "reopen_dest", "read"} \subseteq Calls
  BY DEF Calls
<1>4. CASE RenameDone(p) \/ PreserveMeta(p)
  <2>1. Return(p)
    BY <1>4 DEF RenameDone, PreserveMeta
  <2> QED
    BY <1>1, <2>1, ReturnCalling
<1>5. CASE Mkdir(p)
  <2>1. Top(p).call = "mkdir" /\ To(p, "opendir")
    BY <1>5 DEF Mkdir, Busy, Top
  <2>2. Top(p).dir
    BY <1>2, <2>1 DEF About
  <2> QED
    BY <1>1, <2>1, <2>2, PlainCalling
<1>6. CASE RmdirSrc(p) \/ UnlinkSrc(p)
  <2>1. Top(p).call \in {"rmdir", "unlink_src"} /\ Finish(p)
    BY <1>6 DEF RmdirSrc, UnlinkSrc, Busy, Top
  <2> QED
    BY <1>1, <2>1, CloseCalling
<1>7. CASE UnlinkDest(p)
  <2> DEFINE d == NoFollow(tree, Top(p).dest)
             act == [Top(p) EXCEPT !.call = "reopen_dest"]
  <2>1. /\ GoOn(p, act) /\ Top(p).call = "unlink_dest"
        /\ tree' = tree \/ (CanUnlink(tree, d) /\ tree' = Without(tree, d))
    BY <1>7 DEF UnlinkDest, To, Busy, Top
  <2>2. /\ act \in Activation /\ act.call = "reopen_dest" /\ act.src = Top(p).src
        /\ act.dest = Top(p).dest /\ act.dir = Top(p).dir /\ act.id = Top(p).id
        /\ act.consent = Top(p).consent
    BY <1>2, <1>c, Turned
  <2> HIDE DEF act
  <2>3. ~Top(p).dir
    BY <1>2, <2>1 DEF About
  <2>4. About(p, act)
    BY <1>2, <2>1, <2>2, <2>3, AboutNext
  <2>5. tree' = tree \/ ~IsFile(tree', Follow(tree', act.dest))
    <3>1. Top(p).dest \in Path /\ Grown(tree) /\ Grown(tree')
      BY <1>1, TopPaths DEF Typed, DiskTyped
    <3>2. tree' # tree => ~Exists(tree', Follow(tree', Top(p).dest))
      BY <2>1, <3>1, FollowRemoved
    <3> QED
      BY <2>2, <3>2 DEF IsFile
  <2>6. Ready(p, tree', file', act)
    <3>1. CASE tree' = tree
      <4>1. Seen(tree, act) /\ Differs(tree, act)
        BY <1>2, <2>1, <2>2 DEF Ready, Relies, Seen, Differs
      <4>2. MustAsk(p) /\ ~act.consent => ~IsFile(tree, Follow(tree, act.dest))
        BY <1>2, <2>1, <2>2, <2>3 DEF Ready, Spares, IsFile
      <4> QED
        BY <2>2, <3>1, <4>1, <4>2 DEF Ready, Relies, Spares
    <3>2. CASE ~IsFile(tree', Follow(tree', act.dest))
      BY <2>2, <3>2 DEF Ready, Relies, Spares
    <3> QED
      BY <2>5, <3>1, <3>2
  <2> QED
    BY <1>1, <2>1, <2>2, <2>4, <2>6, GoOnCalling
<1>8. CASE OpenDest(p)
  <2> DEFINE d == Follow(tree, Top(p).dest)
             i == IF IsFile(tree, d) THEN tree[d].ino ELSE Len(file) + 1
             act == [Top(p) EXCEPT !.call = "open_src", !.out = i]
  <2>1. /\ i \in DOMAIN file' /\ Top(p).call \in {"open_dest", "reopen_dest"}
        /\ GoOn(p, act) /\ file' \in Seq(Inode) /\ file'[i].data = <<>>
        /\ IsFile(tree, d) => tree' = tree
    BY <1>8, OpenDestIs
  <2>2. i \in Nat /\ (~IsFile(tree, d) => i \notin 1..Len(setting.file))
    BY <1>3, <2>1
  <2>i. IsFile(tree, d) => i = tree[d].ino
    OBVIOUS
  <2> HIDE DEF i
  <2>3. /\ act \in Activation /\ act.call = "open_src" /\ act.src = Top(p).src
        /\ act.dest = Top(p).dest /\ act.dir = Top(p).dir /\ act.out = i
        /\ act.consent = Top(p).consent
    BY <1>2, <1>c, <2>2 DEF Activation
  <2> HIDE DEF act
  <2>4. ~Top(p).dir
    BY <1>2, <2>1 DEF About
  <2>5. About(p, act)
    BY <1>2, <2>1, <2>3, <2>4, AboutNext
  <2>6. Apart(tree', file', Len(setting.file), act)
    <3>1. CASE IsFile(tree, d)
      <4> DEFINE s == Follow(tree, Top(p).src)
      <4>1. Seen(tree, Top(p)) /\ Differs(tree, Top(p))
        BY <1>2, <2>1, <3>1 DEF Ready, Relies
      <4>2. Identity(tree, d) = [ino |-> i, path |-> <<>>] /\ Identity(tree, d) # Top(p).id
        BY <2>i, <3>1, <4>1 DEF Identity, Differs, IsFile
      <4>3. IsFile(tree, s) /\ tree[s].ino = i => Top(p).id = [ino |-> i, path |-> <<>>]
        BY <4>1 DEF Seen, Found, Identity, IsFile
      <4>4. ~(IsFile(tree, s) /\ tree[s].ino = i)
        BY <4>2, <4>3
      <4> QED
        BY <2>1, <2>3, <3>1, <4>4 DEF Apart
    <3>2. CASE ~IsFile(tree, d)
      BY <2>1, <2>2, <2>3, <3>2 DEF Apart
    <3> QED
      BY <3>1, <3>2
  <2>7. MustAsk(p) /\ ~act.consent => act.out \notin 1..Len(setting.file)
    <3>1. MustAsk(p) /\ ~act.consent => ~IsFile(tree, d)
      BY <1>2, <2>1, <2>3, <2>4 DEF Ready, Spares, IsFile
    <3> QED
      BY <2>2, <2>3, <3>1
  <2>8. Ready(p, tree', file', act)
    BY <2>3, <2>6, <2>7 DEF Ready, Relies, Spares
  <2> QED
    BY <1>1, <2>1, <2>3, <2>5, <2>8, GoOnCalling
<1>9. CASE Write(p)
  <2> DEFINE act == [Top(p) EXCEPT !.call = "read"]
  <2>1. GoOn(p, act) /\ Top(p).call = "write"
    BY <1>9 DEF Write, To, Busy, Top
  <2>2. /\ act \in Activation /\ act.call = "read" /\ act.src = Top(p).src
        /\ act.dest = Top(p).dest /\ act.dir = Top(p).dir
        /\ act.in = Top(p).in /\ act.out = Top(p).out /\ act.consent = Top(p).consent
    BY <1>2, <1>c, Turned
  <2> HIDE DEF act
  <2>3. ~Top(p).dir
    BY <1>2, <2>1 DEF About
  <2>4. About(p, act)
    BY <1>2, <2>1, <2>2, <2>3, AboutNext
  <2>5. act.in # act.out
    BY <1>2, <2>1, <2>2 DEF Ready, Relies
  <2>6. Ready(p, tree', file', act)
    BY <1>2, <2>1, <2>2, <2>5 DEF Ready, Relies, Spares
  <2> QED
    BY <1>1, <2>1, <2>2, <2>4, <2>6, GoOnCalling
<1> QED
  BY <1>4, <1>5, <1>6, <1>7, <1>8, <1>9

\* By the reading of an entry.
LEMMA EntryStepCalling ==
  ASSUME Typed, NEW p \in Proc, Calling(p), ReaddirEntry(p)
  PROVE  Calling(p)'
<1>1. PICK act \in Activation :
        /\ stack[p] # <<>> /\ UNCHANGED disk /\ UNCHANGED main
        /\ act.call = "readdir" /\ act.src = Top(p).src /\ act.dest = Top(p).dest
        /\ act.dir = Top(p).dir /\ Top(p).call = "readdir"
        /\ GoOn(p, act) \/ \E n \in Name : Enters(p, act, n)
  BY ReaddirEntryIs
<1>2. About(p, Top(p)) /\ Top(p) \in Activation
  BY <1>1, CallingTop
<1>3. Top(p).dir
  BY <1>1, <1>2 DEF About
<1>4. About(p, act)
  BY <1>1, <1>2, <1>3, AboutNext
<1>5. CASE GoOn(p, act)
  <2>1. Ready(p, tree', file', act)
    BY <1>1, ReadyPlain
  <2> QED
    BY <1>1, <1>4, <1>5, <2>1, GoOnCalling
<1>6. ASSUME NEW n \in Name, Enters(p, act, n)
      PROVE  Calling(p)'
  <2> DEFINE s == Append(Top(p).src, n)
             new == Copy(s, Append(Top(p).dest, n))
             top == Sources(p)[operand[p]]
  <2>1. /\ DOMAIN stack'[p] = DOMAIN stack[p] \cup {Len(stack'[p])}
        /\ \A k \in DOMAIN stack[p] :
             stack'[p][k] = IF k = Len(stack[p]) THEN act ELSE stack[p][k]
        /\ stack'[p][Len(stack'[p])] = new
        /\ stack'[p] # <<>> /\ Last(stack'[p]) = stack'[p][Len(stack'[p])]
    BY <1>6 DEF Enters
  <2>2. /\ Top(p).src \in Seq(Name) /\ Top(p).dest \in Seq(Name) /\ top \in Seq(Name)
    <3>1. Top(p).src \in Path /\ Top(p).dest \in Path
      BY <1>1, TopPaths
    <3>2. at[p] = "loop" /\ operand[p] >= 1 /\ operand[p] <= Len(Sources(p))
          /\ operand[p] \in Nat /\ setting \in Settings /\ Len(cmd[p].args) >= 2
      BY <1>1 DEF Typed, ProgressTyped
    <3>3. Sources(p) \in Seq(Path)
      BY <3>2, ArgumentsAre
    <3>4. top \in Path
      BY <3>2, <3>3
    <3> QED
      BY <3>1, <3>4 DEF Path
  <2>3. IsPrefix(top, Top(p).src)
    BY <1>2 DEF About
  <2> HIDE DEF top
  <2>4. s \in Seq(Name) /\ Len(s) = Len(Top(p).src) + 1 /\ Append(Top(p).dest, n) \in Seq(Name)
    BY <2>2
  <2>5. IsPrefix(top, s) /\ s # top
    <3>1. IsPrefix(top, s)
      BY <2>2, <2>3, PrefixOfEntry
    <3>2. Len(top) <= Len(Top(p).src)
      BY <2>2, <2>3, PrefixElements
    <3> QED
      BY <2>2, <2>4, <3>1, <3>2
  <2>6. new.call = "stat_src" /\ new.src = s
    BY <2>4, CopyIs DEF Path
  <2> HIDE DEF new, s
  <2>7. About(p, new)
    BY <2>5, <2>6 DEF About, top
  <2>8. \A k \in DOMAIN stack'[p] : /\ About(p, stack'[p][k])
                                    /\ k # Len(stack'[p]) => stack'[p][k].call = "readdir"
    BY <1>1, <1>4, <2>1, <2>7 DEF Calling
  <2>9. ASSUME NEW k \in DOMAIN stack'[p] PROVE About(p, stack[p][k])'
    BY <1>1, <2>8 DEF About, main, Sources, cmd, Image, Dest, IsMv, Straight
  <2>10. Top(p)'.call = "stat_src"
    BY <2>1, <2>6 DEF Top
  <2>11. Ready(p, tree, file, Top(p))'
    BY <2>10 DEF Ready, Relies, Spares
  <2> QED
    BY <2>8, <2>9, <2>11 DEF Calling
<1> QED
  BY <1>1, <1>5, <1>6

\* By the steps of cp_main: a source is the beginning of its copy.
LEMMA MainStepCalling ==
  ASSUME Typed, NEW p \in Proc, Calling(p),
         Usage(p) \/ Guess(p) \/ Check(p) \/ CheckFails(p) \/ NextSource(p) \/ Exit(p)
  PROVE  Calling(p)'
<1>1. CASE Usage(p) \/ Guess(p) \/ Check(p) \/ CheckFails(p) \/ Exit(p)
  <2>1. stack[p] = <<>> /\ stack' = stack
    BY <1>1 DEF Usage, Guess, Check, CheckFails, Exit, Quit, Typed, ProgressTyped
  <2> QED
    BY <2>1 DEF Calling
<1>2. CASE NextSource(p)
  <2>0. PICK i, s, new : /\ i = operand[p] + 1 /\ s = Sources(p)[i]
                         /\ new = Copy(s, Image(p, i))
    OBVIOUS
  <2>1. /\ stack' = [stack EXCEPT ![p] = <<new>>] /\ operand' = [operand EXCEPT ![p] = i]
        /\ UNCHANGED <<setting, target>> /\ at[p] = "loop" /\ operand[p] < Len(Sources(p))
    BY <1>2, <2>0 DEF NextSource
  <2>2. /\ setting \in Settings /\ Len(cmd[p].args) >= 2 /\ operand[p] \in Nat
        /\ stack \in [Proc -> Seq(Activation)] /\ operand \in [Proc -> Nat]
    BY <2>1 DEF Typed, ProgressTyped, StacksTyped
  <2>3. i \in DOMAIN Sources(p)
    <3>1. Sources(p) \in Seq(Path)
      BY <2>2, ArgumentsAre
    <3> QED
      BY <2>0, <2>1, <2>2, <3>1
  <2>4. s \in Path /\ Image(p, i) \in Path
    BY <2>0, <2>2, <2>3, ArgumentsAre, ImageIsPath
  <2>5. new.call = "stat_src" /\ new.src = s /\ new.dest = Image(p, i)
    BY <2>0, <2>4, CopyIs
  <2>6. IsPrefix(s, s)
    BY <2>4, SubSeqFull DEF IsPrefix, Path
  <2>7. stack'[p] = <<new>> /\ operand'[p] = i
    BY <2>1, <2>2
  <2>8. Sources(p)' = Sources(p) /\ Image(p, i)' = Image(p, i)
    BY <2>1 DEF Image, Sources, Dest, cmd
  <2>9. About(p, new)'
    <3>1. (Image(p, operand[p]))' = Image(p, i) /\ (Sources(p)[operand[p]])' = s
      BY <2>0, <2>7, <2>8 DEF Image, Sources
    <3> QED
      BY <2>5, <2>6, <3>1 DEF About
  <2>10. Ready(p, tree, file, new)'
    BY <2>5 DEF Ready, Relies, Spares
  <2>11. DOMAIN stack'[p] = {1} /\ Len(stack'[p]) = 1 /\ stack'[p][1] = new /\ Top(p)' = new
    BY <2>7 DEF Top, Last
  <2>12. ASSUME NEW k \in DOMAIN stack'[p]
         PROVE  About(p, stack[p][k])' /\ (k # Len(stack[p]) => stack[p][k].call = "readdir")'
    <3>1. k = 1 /\ stack'[p][k] = new
      BY <2>11
    <3> QED
      BY <2>9, <2>11, <3>1 DEF About
  <2>13. Ready(p, tree, file, Top(p))'
    BY <2>10, <2>11 DEF Ready, Relies, Spares
  <2> QED
    BY <2>12, <2>13 DEF Calling
<1> QED
  BY <1>1, <1>2

-------------------------------------------------------------------------------
(***************************************************************************)
(* The invariant.                                                          *)
(***************************************************************************)

\* No step makes a link where there is none.
LEMMA LinklessKept ==
  ASSUME Typed, Linkless(tree), [Next]_vars
  PROVE  Linkless(tree')
<1>1. ASSUME NEW p \in Proc, Step(p) PROVE Linkless(tree')
  <2>0. \/ tree' = tree \/ RenameDone(p) \/ Mkdir(p) \/ RmdirSrc(p) \/ OpenDest(p)
        \/ UnlinkDest(p) \/ UnlinkSrc(p)
    BY <1>1 DEF Step, Usage, Guess, Check, CheckFails, NextSource, Exit, Quit, StatSrc,
         StatSrcFails, StatDestMissing, StatDestExists, StatDestClashes, PromptYes, PromptNo,
         RenameFails, Opendir, OpendirFails, ReaddirEntry, ReaddirEnd, OpenDestForced,
         OpenDestFails, OpenSrc, OpenSrcFails, Read, ReadEof, ReadFails, Write, WriteFails,
         PreserveMeta, disk
  <2>1. CASE RenameDone(p)
    <3> DEFINE s == NoFollow(tree, Top(p).src)
               d == NoFollow(tree, Top(p).dest)
    <3>1. CanRename(tree, s, d) /\ tree' = Renamed(tree, s, d) /\ stack[p] # <<>>
      BY <2>1 DEF RenameDone, Busy
    <3>2. s \in Path /\ d \in Path /\ Grown(tree)
      BY <3>1, TopPaths DEF Typed, DiskTyped
    <3> HIDE DEF s, d
    <3>3. \A r \in DOMAIN tree' : \E q \in DOMAIN tree : tree'[r] = tree[q]
      BY <3>1, <3>2, RenamedIs
    <3> QED
      BY <3>3 DEF Linkless, IsLink, Exists
  <2>2. CASE Mkdir(p)
    BY <2>2 DEF Mkdir, With, Dir, Linkless, IsLink, Exists
  <2>3. CASE RmdirSrc(p) \/ UnlinkDest(p) \/ UnlinkSrc(p)
    BY <2>3 DEF RmdirSrc, UnlinkDest, UnlinkSrc, Without, Linkless, IsLink, Exists
  <2>4. CASE OpenDest(p)
    <3>1. \/ tree' = tree
          \/ \E i : tree' = With(tree, Follow(tree, Top(p).dest), File(i))
      BY <2>4 DEF OpenDest
    <3> QED
      BY <3>1 DEF With, File, Linkless, IsLink, Exists
  <2> QED
    BY <2>0, <2>1, <2>2, <2>3, <2>4
<1> QED
  BY <1>1 DEF Next, Done, vars

\* A process without arguments does nothing but end.
LEMMA IdleStep ==
  ASSUME Typed, NEW r \in Proc, cmd[r].args = <<>>, at[r] \in {"guess", "exited"}, Step(r)
  PROVE  /\ UNCHANGED <<tree, file, setting, target, operand, stack>>
         /\ at' = [at EXCEPT ![r] = "exited"]
<1>1. stack[r] = <<>> /\ ~(Len(cmd[r].args) >= 2)
  BY DEF Typed, ProgressTyped
<1>2. Usage(r)
  BY <1>1 DEF Step, Guess, Check, CheckFails, NextSource, Exit, StatSrc, StatSrcFails,
         StatDestMissing, StatDestExists, StatDestClashes, PromptYes, PromptNo, RenameDone,
         RenameFails, Mkdir, Opendir, OpendirFails, ReaddirEntry, ReaddirEnd, RmdirSrc, OpenDest,
         OpenDestForced, OpenDestFails, UnlinkDest, OpenSrc, OpenSrcFails, Read, ReadEof,
         ReadFails, Write, WriteFails, UnlinkSrc, PreserveMeta, Busy
<1> QED
  BY <1>2 DEF Usage, Quit

\* How far the others got in cp_main is no matter of a step of p; the setting is
\* no matter of any step.
LEMMA AtOthers ==
  ASSUME Typed, NEW p \in Proc, Step(p)
  PROVE  setting' = setting /\ \A r \in Proc \ {p} : at'[r] = at[r]
<1>1. UNCHANGED main \/ Usage(p) \/ Guess(p) \/ Check(p) \/ CheckFails(p) \/ NextSource(p) \/ Exit(p)
  BY DEF Step, StatSrc, StatSrcFails, StatDestMissing, StatDestExists, StatDestClashes,
         PromptYes, PromptNo, RenameDone, RenameFails, Mkdir, Opendir, OpendirFails,
         ReaddirEntry, ReaddirEnd, RmdirSrc, OpenDest, OpenDestForced, OpenDestFails,
         UnlinkDest, OpenSrc, OpenSrcFails, Read, ReadEof, ReadFails, Write, WriteFails,
         UnlinkSrc, PreserveMeta
<1>2. at \in [Proc -> {"guess", "check", "loop", "exited"}]
  BY DEF Typed, ProgressTyped
<1>3. CASE UNCHANGED main
  BY <1>3 DEF main
<1>4. CASE Usage(p) \/ Guess(p) \/ Check(p) \/ CheckFails(p) \/ NextSource(p) \/ Exit(p)
  BY <1>2, <1>4 DEF Usage, Guess, Check, CheckFails, NextSource, Exit, Quit
<1> QED
  BY <1>1, <1>3, <1>4

\* Whatever step p makes, it knows what it knew.
LEMMA CallingKept ==
  ASSUME Typed, Typed', NEW p \in Proc, Calling(p), Linkless(setting.tree) => Linkless(tree),
         Step(p)
  PROVE  Calling(p)'
BY MainStepCalling, QuietStepCalling, DiskStepCalling, EntryStepCalling, Zenon DEF Step

\* A process that does nothing leaves the others what they know.
LEMMA CallingUntouched ==
  ASSUME NEW p \in Proc, Calling(p), UNCHANGED <<tree, file, setting, target, operand, stack>>
  PROVE  Calling(p)'
<1>1. CASE stack[p] = <<>>
  BY <1>1 DEF Calling
<1>2. CASE stack[p] # <<>>
  <2>1. ASSUME NEW k \in DOMAIN stack'[p]
        PROVE  About(p, stack[p][k])' /\ (k # Len(stack[p]) => stack[p][k].call = "readdir")'
    BY <1>2 DEF Calling, About, Sources, cmd, Image, Dest, IsMv, Straight
  <2>2. Ready(p, tree, file, Top(p))'
    BY <1>2 DEF Calling, Ready, MustAsk, cmd, Top
  <2> QED
    BY <2>1, <2>2 DEF Calling
<1> QED
  BY <1>1, <1>2

\* Every step keeps the invariant.
LEMMA InvKept ==
  ASSUME Inv, [Next]_vars
  PROVE  Inv'
<1>1. Typed /\ Typed'
  BY TypesKept DEF Inv
<1>2. CASE UNCHANGED vars
  <2>1. UNCHANGED <<tree, file, setting, target, operand, stack, at>> /\ cmd' = cmd
    BY <1>2 DEF vars, cmd
  <2>2. ASSUME NEW p \in Proc
        PROVE  /\ cmd'[p].args = <<>> => at'[p] \in {"guess", "exited"}
               /\ Alone(p)' => Calling(p)'
    <3>1. Alone(p)' => Alone(p)
      BY <2>1 DEF Alone
    <3> QED
      BY <2>1, <3>1, CallingUntouched DEF Inv
  <2>3. Linkless(setting.tree)' => Linkless(tree)'
    BY <2>1 DEF Inv, Linkless, IsLink, Exists
  <2> QED
    BY <1>1, <2>2, <2>3 DEF Inv
<1>3. ASSUME NEW r \in Proc, Step(r) PROVE Inv'
  <2>1. setting' = setting /\ cmd' = cmd /\ \A p \in Proc \ {r} : at'[p] = at[p]
    BY <1>1, <1>3, AtOthers DEF cmd
  <2>2. Linkless(setting.tree)' => Linkless(tree)'
    <3>1. Linkless(setting.tree)' => Linkless(setting.tree)
      BY <2>1 DEF Linkless, IsLink, Exists
    <3>2. Linkless(tree) => Linkless(tree')
      BY <1>1, <1>3, LinklessKept DEF Next
    <3> QED
      BY <3>1, <3>2 DEF Inv, Linkless
  <2>3. ASSUME NEW p \in Proc, cmd[p].args = <<>>
        PROVE  at'[p] \in {"guess", "exited"}
    <3>1. at[p] \in {"guess", "exited"} /\ at \in [Proc -> {"guess", "check", "loop", "exited"}]
      BY <1>1, <2>3 DEF Inv, Typed, ProgressTyped
    <3>2. CASE p = r
      <4>1. at' = [at EXCEPT ![r] = "exited"]
        BY <1>1, <1>3, <2>3, <3>1, <3>2, IdleStep
      <4> QED
        BY <3>1, <3>2, <4>1
    <3>3. CASE p # r
      BY <2>1, <3>1, <3>3
    <3> QED
      BY <3>2, <3>3
  <2>4. ASSUME NEW p \in Proc, Alone(p)
        PROVE  Calling(p)'
    <3>1. Calling(p)
      BY <2>4 DEF Inv
    <3>2. CASE p = r
      BY <1>1, <1>3, <3>1, <3>2, CallingKept DEF Inv
    <3>3. CASE p # r
      <4>1. cmd[r].args = <<>>
        BY <2>4, <3>3 DEF Alone
      <4>2. at[r] \in {"guess", "exited"}
        BY <4>1 DEF Inv
      <4>3. UNCHANGED <<tree, file, setting, target, operand, stack>>
        BY <1>1, <1>3, <4>1, <4>2, IdleStep
      <4> QED
        BY <3>1, <4>3, CallingUntouched
    <3> QED
      BY <3>2, <3>3
  <2>5. \A p \in Proc : Alone(p)' => Alone(p)
    BY <2>1 DEF Alone
  <2>6. ASSUME NEW p \in Proc
        PROVE  /\ (cmd[p].args = <<>> => at[p] \in {"guess", "exited"})'
               /\ (Alone(p) => Calling(p))'
    BY <2>1, <2>3, <2>4, <2>5
  <2> QED
    BY <1>1, <2>2, <2>6 DEF Inv
<1> QED
  BY <1>2, <1>3 DEF Next, Done

\* It holds at the beginning.
LEMMA InvBegins ==
  ASSUME Init
  PROVE  Inv
<1>1. Typed
  BY TypesBegin
<1>2. tree = setting.tree /\ at = [p \in Proc |-> "guess"] /\ stack = [p \in Proc |-> <<>>]
  BY DEF Init
<1>3. ASSUME NEW p \in Proc
      PROVE  /\ cmd[p].args = <<>> => at[p] \in {"guess", "exited"}
             /\ Alone(p) => Calling(p)
  BY <1>2 DEF Calling
<1> QED
  BY <1>1, <1>2, <1>3 DEF Inv

\* The invariant, for every file tree, command line and number of processes.
THEOREM Invariance == Spec => []Inv
<1>1. Init => Inv
  BY InvBegins
<1>2. Inv /\ [Next]_vars => Inv'
  BY InvKept
<1> QED
  BY <1>1, <1>2, PTL DEF Spec

\* As long as no other process is at work, cp and mv never write into a file they
\* read from, however it is reached: the inode that open(dest, O_TRUNC) empties is
\* not the one copy() compared with (line 90), and what the copying loop reads
\* from itself is only the new, empty file behind a link that led to nothing.
THEOREM ReadsAnother == Spec => []NeverOntoItself
<1>1. Inv => NeverOntoItself
  <2> SUFFICES ASSUME Inv, NEW p \in Proc, Alone(p), NEW k \in DOMAIN stack[p],
                      stack[p][k].call \in {"read", "write"}, stack[p][k].in = stack[p][k].out
               PROVE  /\ stack[p][k].in \notin DOMAIN setting.file
                      /\ stack[p][k].call = "read" /\ file[stack[p][k].in].data = <<>>
    BY DEF NeverOntoItself
  <2>1. Typed /\ Calling(p) /\ StacksTyped
    BY DEF Inv, Typed
  <2>2. stack[p] # <<>>
    BY <2>1 DEF StacksTyped
  <2>3. k = Len(stack[p]) /\ Ready(p, tree, file, Top(p))
    BY <2>1, <2>2 DEF Calling
  <2>4. Top(p) = stack[p][k]
    BY <2>1, <2>2, <2>3, TopIs
  <2>5. DOMAIN setting.file = 1..Len(setting.file)
    BY <2>1, SettingIs DEF Typed, ProgressTyped
  <2> QED
    BY <2>3, <2>4, <2>5 DEF Ready, Relies
<1> QED
  BY <1>1, Invariance, PTL

-------------------------------------------------------------------------------
(***************************************************************************)
(* What -i keeps.                                                          *)
(***************************************************************************)

\* What mv takes from a source does not hold the place a source goes to.
LEMMA ImageIsApart ==
  ASSUME Typed, NEW p \in Proc, stack[p] # <<>>, About(p, Top(p)), IsMv(p), Straight(p),
         Top(p).call \notin {"stat_src", "stat_dest"},
         NEW i \in DOMAIN Sources(p)
  PROVE  ~IsPrefix(Top(p).src, Image(p, i))
<1> DEFINE src == Top(p).src
           dest == Top(p).dest
           o == operand[p]
           top == Sources(p)[o]
           q == Image(p, i)
<1>1. /\ o \in DOMAIN Sources(p) /\ Dest(p) \in Seq(Name) /\ top \in Seq(Name) /\ top # <<>>
      /\ src \in Seq(Name) /\ Sources(p)[i] \in Seq(Name) /\ Sources(p)[i] # <<>>
      /\ q \in Seq(Name)
  <2>1. /\ setting \in Settings /\ Len(cmd[p].args) >= 2 /\ o \in Nat /\ o >= 1
        /\ o <= Len(Sources(p))
    BY DEF Typed, ProgressTyped
  <2>2. Sources(p) \in Seq(Path)
    BY <2>1, ArgumentsAre
  <2>3. o \in DOMAIN Sources(p)
    BY <2>1, <2>2
  <2> QED
    BY <2>1, <2>3, ArgumentsAre, ImageIsPath, TopPaths DEF Path
<1>2. /\ IsPrefix(top, src) /\ ~IsPrefix(top, Dest(p)) /\ src # dest
      /\ src = top => dest = Image(p, o)
  BY <1>1 DEF About, Straight
<1> SUFFICES ASSUME IsPrefix(src, q) PROVE FALSE
  OBVIOUS
<1>3. IsPrefix(top, q)
  BY <1>1, <1>2, PrefixTransitive
<1>4. target[p] # "file"
  BY <1>2, <1>3 DEF Image
<1>5. q = Append(Dest(p), Last(Sources(p)[i])) /\ Image(p, o) = Append(Dest(p), Last(top))
  BY <1>4 DEF Image
<1> HIDE DEF src, dest, top, q
<1>6. Last(Sources(p)[i]) \in Name /\ Last(top) \in Name
  BY <1>1, FrontAndLast
<1>7. IsPrefix(Dest(p), q) /\ Len(q) = Len(Dest(p)) + 1
  <2>1. IsPrefix(Dest(p), Dest(p))
    BY <1>1, SubSeqFull DEF IsPrefix
  <2> QED
    BY <1>1, <1>5, <1>6, <2>1, PrefixOfEntry
<1>8. Len(top) = Len(q)
  <2>1. Len(top) <= Len(q) /\ Len(top) \in Nat /\ Len(Dest(p)) \in Nat
    BY <1>1, <1>3, PrefixElements
  <2>2. ~(Len(top) <= Len(Dest(p)))
    BY <1>1, <1>2, <1>3, <1>7, PrefixesNest
  <2> QED
    BY <1>7, <2>1, <2>2
<1>9. top = q
  <2>1. \A k \in 1..Len(top) : top[k] = q[k]
    BY <1>1, <1>3, PrefixElements
  <2> QED
    BY <1>1, <1>8, <2>1, SeqEqual
<1>10. src = q
  <2>1. /\ Len(src) <= Len(q) /\ (\A k \in 1..Len(src) : src[k] = q[k])
        /\ Len(top) <= Len(src) /\ Len(src) \in Nat /\ Len(q) \in Nat
    BY <1>1, <1>2, PrefixElements
  <2>2. Len(src) = Len(q)
    BY <1>8, <2>1
  <2> QED
    BY <1>1, <2>1, <2>2, SeqEqual
<1>11. Last(top) = Last(Sources(p)[i])
  <2>1. Last(Append(Dest(p), Last(Sources(p)[i]))) = Last(Sources(p)[i])
    BY <1>1, <1>6, FrontOfAppend
  <2> QED
    BY <1>5, <1>9, <2>1
<1> QED
  BY <1>2, <1>5, <1>9, <1>10, <1>11

\* What a step of p spares that has not asked.
LEMMA StepSpares ==
  ASSUME Typed, NEW p \in Proc, Calling(p), Linkless(setting.tree) => Linkless(tree),
         MustAsk(p), stack[p] # <<>>, IsMv(p) => Straight(p), Step(p),
         NEW q \in DOMAIN setting.tree, IsFile(tree, q), tree[q] = setting.tree[q],
         ~Top(p).consent,
         NEW i \in DOMAIN Sources(p), Image(p, i) = q
  PROVE  /\ IsFile(tree', q) /\ tree'[q] = tree[q]
         /\ file'[tree[q].ino].data = file[tree[q].ino].data
<1> DEFINE top == Top(p)
           n == Len(setting.file)
           d == Follow(tree, top.dest)
           ino == tree[q].ino
<1>1. /\ About(p, top) /\ Ready(p, tree, file, top) /\ Spares(tree, n, top)
      /\ top \in Activation /\ Sound(Len(file), top)
  BY CallingTop DEF Ready
<1>2. /\ top.src \in Path /\ top.dest \in Path /\ d \in Path /\ Grown(tree) /\ LinksLead(tree)
      /\ q \in Path /\ file \in Seq(Inode)
  BY TopPaths DEF Typed, DiskTyped, Grown, IsFile, Exists
<1>3. /\ n \in Nat /\ n <= Len(file) /\ Len(file) \in Nat /\ ino \in 1..n /\ ino \in DOMAIN file
      /\ DOMAIN file = 1..Len(file)
  <2>1. setting.file \in Seq(Inode) /\ setting.tree[q].ino \in DOMAIN setting.file
    BY SettingIs DEF Typed, ProgressTyped, IsFile, Exists
  <2>2. n <= Len(file) /\ ino \in DOMAIN file
    BY DEF Typed, DiskTyped, IsFile, Exists
  <2> QED
    BY <1>2, <2>1, <2>2
<1>i. IsFile(tree, q) => IsFile(tree, q) /\ tree[q] = tree[q]
  OBVIOUS
<1>4. CASE UNCHANGED disk
  BY <1>4 DEF disk, IsFile, Exists
<1>5. CASE RenameDone(p)
  <2>1. /\ CanRename(tree, NoFollow(tree, top.src), NoFollow(tree, top.dest))
        /\ tree' = Renamed(tree, NoFollow(tree, top.src), NoFollow(tree, top.dest))
        /\ file' = file /\ top.call = "rename"
    BY <1>5 DEF RenameDone, Busy, Top
  <2>2. IsMv(p) /\ Straight(p) /\ Linkless(tree)
    BY <1>1, <2>1 DEF About, Straight, Linkless
  <2>3. /\ NoFollow(tree, top.src) = top.src /\ NoFollow(tree, top.dest) = top.dest
        /\ d = top.dest
    BY <1>2, <2>2, FollowStraight DEF Linkless
  <2>4. ~IsPrefix(top.src, q)
    BY <1>1, <2>1, <2>2, ImageIsApart
  <2>5. q # top.dest
    BY <1>1, <2>1, <2>3 DEF Spares, IsFile, IsDir
  <2>6. q \in DOMAIN tree' /\ tree'[q] = tree[q]
    BY <1>2, <2>1, <2>3, <2>4, <2>5, RenamedIs DEF IsFile, Exists
  <2> QED
    BY <2>1, <2>6 DEF IsFile, Exists
<1>6. CASE Mkdir(p)
  <2>1. /\ file' = file
        /\ \/ tree' = tree
           \/ \E x : ~Exists(tree, x) /\ tree' = With(tree, x, Dir)
    BY <1>6 DEF Mkdir, CanMake
  <2> QED
    BY <2>1 DEF With, IsFile, Exists
<1>7. CASE RmdirSrc(p)
  <2>1. /\ file' = file
        /\ tree' = tree \/ \E x : IsDir(tree, x) /\ tree' = Without(tree, x)
    BY <1>7 DEF RmdirSrc, CanRmdir
  <2> QED
    BY <2>1 DEF Without, IsFile, IsDir, Exists
<1>8. CASE UnlinkDest(p)
  <2> DEFINE x == NoFollow(tree, top.dest)
  <2>1. /\ file' = file /\ top.call = "unlink_dest"
        /\ tree' = tree \/ (~IsDir(tree, x) /\ tree' = Without(tree, x))
    BY <1>8 DEF UnlinkDest, CanUnlink, Busy, Top
  <2>2. ~Exists(tree, d)
    BY <1>1, <2>1 DEF Spares, About
  <2>3. q # x
    <3> SUFFICES ASSUME q = x PROVE FALSE
      OBVIOUS
    <3>1. ~IsLink(tree, x) /\ IsDir(tree, <<>>)
      BY <1>2 DEF IsFile, IsLink, Grown
    <3>2. top.dest = <<>> \/ d = x
      BY <1>2, <3>1, FollowIs
    <3>3. top.dest = <<>> => d = <<>>
      BY <1>2, FollowIs
    <3> QED
      BY <2>2, <3>1, <3>2, <3>3 DEF IsFile, IsDir
  <2> HIDE DEF x
  <2> QED
    BY <2>1, <2>3 DEF Without, IsFile, Exists
<1>9. CASE UnlinkSrc(p)
  <2> DEFINE x == NoFollow(tree, top.src)
  <2>1. /\ file' = file /\ top.call = "unlink_src"
        /\ tree' = tree \/ tree' = Without(tree, x)
    BY <1>9 DEF UnlinkSrc, Busy, Top
  <2>2. IsMv(p) /\ Straight(p) /\ Linkless(tree)
    BY <1>1, <2>1 DEF About, Straight, Linkless
  <2>3. x = top.src
    BY <1>2, <2>2, FollowStraight DEF Linkless
  <2>4. ~IsPrefix(top.src, q)
    BY <1>1, <2>1, <2>2, ImageIsApart
  <2>5. IsPrefix(q, q)
    BY <1>2, SubSeqFull DEF IsPrefix, Path
  <2>6. q # x
    BY <2>3, <2>4, <2>5
  <2> HIDE DEF x
  <2> QED
    BY <2>1, <2>6 DEF Without, IsFile, Exists
<1>10. CASE OpenDest(p)
  <2>1. ~IsFile(tree, d)
    <3>1. top.call \in {"open_dest", "reopen_dest"}
      BY <1>10, OpenDestIs
    <3> QED
      BY <1>1, <3>1 DEF Spares, About, IsFile
  <2>2. /\ CanMake(tree, d) /\ tree' = With(tree, d, File(Len(file) + 1))
        /\ \A j \in DOMAIN file : j # Len(file) + 1 => file'[j] = file[j]
    BY <1>10, <2>1, OpenDestIs
  <2>3. ino # Len(file) + 1 /\ file'[ino] = file[ino]
    BY <1>3, <2>2
  <2> HIDE DEF d
  <2>4. IsFile(tree', q) /\ tree'[q] = tree[q]
    BY <2>2 DEF With, CanMake, IsFile, Exists
  <2> QED
    BY <2>3, <2>4
<1>11. CASE Write(p)
  <2>1. top.call = "write" /\ tree' = tree
    BY <1>11 DEF Write, Busy, Top
  <2>2. PICK b \in {top.buf} \cup {Hole} :
          file' = Touched(file, top.out, Stored(file[top.out].data, top.pos, b))
    BY <1>11 DEF Write, Written
  <2>3. b \in Nat /\ top.pos \in Nat /\ top.out \in DOMAIN file /\ top.out # ino
    BY <1>1, <1>3, <2>1 DEF Hole, Activation, Sound, Spares
  <2>4. file[top.out] \in Inode
    BY <1>2, <2>3
  <2>5. file[top.out].data \in Seq(Nat)
    BY <2>4 DEF Inode
  <2>6. file'[ino] = file[ino]
    BY <1>2, <1>3, <2>2, <2>3, <2>5, StoredIs, TouchedIs
  <2> QED
    BY <2>1, <2>6
<1>12. CASE PreserveMeta(p)
  <2>1. /\ tree' = tree
        /\ \/ file' = file
           \/ \E j, m : file' = [file EXCEPT ![j].meta = m]
    BY <1>12 DEF PreserveMeta
  <2>2. file[ino] \in Inode
    BY <1>2, <1>3
  <2>3. file'[ino].data = file[ino].data
    BY <1>3, <2>1, <2>2 DEF Inode
  <2> QED
    BY <2>1, <2>3
<1>13. \/ UNCHANGED disk \/ RenameDone(p) \/ Mkdir(p) \/ RmdirSrc(p) \/ UnlinkDest(p)
       \/ UnlinkSrc(p) \/ OpenDest(p) \/ Write(p) \/ PreserveMeta(p)
  BY DEF Step, Usage, Guess, Check, CheckFails, NextSource, Exit, Quit, StatSrc,
         StatSrcFails, StatDestMissing, StatDestExists, StatDestClashes, PromptYes, PromptNo,
         RenameFails, Opendir, OpendirFails, ReaddirEntry, ReaddirEnd, OpenDestForced,
         OpenDestFails, OpenSrc, OpenSrcFails, Read, ReadEof, ReadFails, WriteFails, disk
<1> QED
  BY <1>4, <1>5, <1>6, <1>7, <1>8, <1>9, <1>10, <1>11, <1>12, <1>13

\* With -i, and as long as there is a line to read at every prompt, whatever is at
\* the place a source goes to at the start, and has not been changed by others, stays
\* as it is until the user has typed a yes (lines 98-107): neither the rename of mv (line 114), nor O_TRUNC (lines 122 and 125),
\* nor the unlink of -f (line 124), nor a write through another name touches it.
THEOREM AskedFirst == Spec => InteractiveAsks
<1>1. Inv /\ [Next]_vars =>
        \A p \in Proc :
          /\ MustAsk(p) /\ stack[p] # <<>> /\ Alone(p)
          /\ IsMv(p) => Straight(p)
          => \A q \in DOMAIN setting.tree :
               /\ IsFile(tree, q) /\ tree[q] = setting.tree[q] /\ ~Top(p).consent
               /\ \E i \in DOMAIN Sources(p) : Image(p, i) = q
               => /\ IsFile(tree', q) /\ tree'[q] = tree[q]
                  /\ file'[tree[q].ino].data = file[tree[q].ino].data
  <2> SUFFICES ASSUME Inv, [Next]_vars, NEW p \in Proc,
                      MustAsk(p), stack[p] # <<>>, Alone(p), IsMv(p) => Straight(p),
                      NEW q \in DOMAIN setting.tree,
                      IsFile(tree, q), tree[q] = setting.tree[q], ~Top(p).consent,
                      NEW i \in DOMAIN Sources(p), Image(p, i) = q
               PROVE  /\ IsFile(tree', q) /\ tree'[q] = tree[q]
                      /\ file'[tree[q].ino].data = file[tree[q].ino].data
    OBVIOUS
  <2>1. Typed /\ Calling(p) /\ (Linkless(setting.tree) => Linkless(tree))
    BY DEF Inv
  <2>2. CASE UNCHANGED vars
    BY <2>2 DEF vars, IsFile, Exists
  <2>3. CASE Step(p)
    BY <2>1, <2>3, StepSpares
  <2>4. ASSUME NEW r \in Proc, r # p, Step(r)
        PROVE  UNCHANGED <<tree, file>>
    <3>1. cmd[r].args = <<>>
      BY <2>4 DEF Alone
    <3>2. at[r] \in {"guess", "exited"}
      BY <3>1 DEF Inv
    <3> QED
      BY <2>1, <2>4, <3>1, <3>2, IdleStep
  <2>5. UNCHANGED <<tree, file>> \/ Step(p) \/ UNCHANGED vars
    BY <2>4 DEF Next, Done
  <2> QED
    BY <2>2, <2>3, <2>5 DEF IsFile, Exists
<1> QED
  BY <1>1, Invariance, PTL DEF Spec, InteractiveAsks

-------------------------------------------------------------------------------
(***************************************************************************)
(* Nothing is lost, however many programs are at work.                     *)
(***************************************************************************)

\* Two paths of which none leads through the other.
Parted(a, b) == ~IsPrefix(a, b) /\ ~IsPrefix(b, a)
Copies(p) == Len(cmd[p].args) >= 2

\* The setting: no file has two names and none is a link, nobody copies to where
\* another one copies to, nor to a place at, below or above a source, and the
\* sources of one command line have different basenames.
Orderly ==
  /\ Linkless(setting.tree)
  /\ \A q \in DOMAIN setting.tree : \A r \in DOMAIN setting.tree :
       IsFile(setting.tree, q) /\ IsFile(setting.tree, r)
         /\ setting.tree[q].ino = setting.tree[r].ino => q = r
  /\ \A p \in Proc : \A r \in Proc : Copies(p) /\ Copies(r) =>
       /\ p # r => Parted(Dest(p), Dest(r))
       /\ \A i \in DOMAIN Sources(p) : Parted(Sources(p)[i], Dest(r))
  /\ \A p \in Proc : \A i \in DOMAIN Sources(p) : \A j \in DOMAIN Sources(p) :
       Last(Sources(p)[i]) = Last(Sources(p)[j]) => i = j

\* A path to which nobody copies, the files there, and their inodes.
Outside(x) == \A r \in Proc : Copies(r) => ~IsPrefix(Dest(r), x)
Home == {q \in DOMAIN setting.tree : IsFile(setting.tree, q) /\ Outside(q)}
HomeInodes == {setting.tree[q].ino : q \in Home}
HomeData(q) == setting.file[setting.tree[q].ino].data

\* The calls between the first look at the source and the end of the copying, in
\* which DESTINATION may be replaced or written to.
Harmful == {"stat_dest", "prompt", "rename", "open_dest", "unlink_dest", "reopen_dest",
            "open_src", "read", "write"}
Safe(p, x) == stack[p] # <<>> /\ Top(p).dest = x => Top(p).call \notin Harmful

\* Below the source i of p there is no q any more, and p is done with its image.
Away(p, i, q) ==
  /\ i \in 1..operand[p] /\ i \in DOMAIN Sources(p)
  /\ q \in Path /\ IsPrefix(Sources(p)[i], q)
  /\ q \notin DOMAIN tree /\ Safe(p, ImageOf(p, i, q))

\* The image has what was in q.
Arrived(p, i, q) ==
  /\ Away(p, i, q) /\ IsFile(tree, ImageOf(p, i, q))
  /\ file[tree[ImageOf(p, i, q)].ino].data = HomeData(q)

\* Where nobody copies to, entries only go.
Placed == \A x \in DOMAIN tree : Outside(x) => x \in DOMAIN setting.tree /\ tree[x] = setting.tree[x]

\* No file gets a second name.
Single == \A x \in DOMAIN tree : \A y \in DOMAIN tree :
            IsFile(tree, x) /\ IsFile(tree, y) /\ tree[x].ino = tree[y].ino => x = y

\* A file that is where somebody copies to was moved there, and stays.
Guests == \A x \in DOMAIN tree : ~Outside(x) /\ IsFile(tree, x) /\ tree[x].ino \in HomeInodes =>
            \E p \in Proc : \E i \in DOMAIN Sources(p) : \E q \in Path :
              x = ImageOf(p, i, q) /\ Away(p, i, q)

Unwritten == \A f \in HomeInodes : file[f].data = setting.file[f].data

\* Every activation knows its image ...
OnWay(p, act) ==
  /\ IsPrefix(Sources(p)[operand[p]], act.src)
  /\ act.dest = ImageOf(p, operand[p], act.src)

\* ... the innermost one how much of a file it has copied.
Partly(act, k) ==
  /\ IsFile(tree, act.dest) /\ tree[act.dest].ino = act.out /\ act.out \notin HomeInodes
  /\ file[act.out].data = SubSeq(HomeData(act.src), 1, k)

CopyingFile(act) ==
  /\ act.call \in {"read", "write"} => act.in = setting.tree[act.src].ino
  /\ act.call = "open_src" => Partly(act, 0)
  /\ act.call = "read" => act.pos \in 0..Len(HomeData(act.src)) /\ Partly(act, act.pos)
  /\ act.call = "write" => /\ act.pos \in 1..Len(HomeData(act.src))
                           /\ act.buf = HomeData(act.src)[act.pos]
                           /\ Partly(act, act.pos - 1)
  /\ act.call = "unlink_src" => /\ IsFile(tree, act.dest)
                                /\ file[tree[act.dest].ino].data = HomeData(act.src)

Copying(act) ==
  /\ act.call \in (Harmful \ {"read", "write"}) \cup {"stat_src"} => act.pos = 0
  /\ IF act.src \in Home THEN CopyingFile(act)
     ELSE act.call # "write" /\ (act.call = "read" => act.in = 0)

Under(p) ==
  /\ at[p] = "loop" /\ target[p] = "file" => Len(cmd[p].args) = 2
  /\ stack[p] # <<>> =>
       /\ operand[p] <= Len(Sources(p))
       /\ \A k \in DOMAIN stack[p] : /\ OnWay(p, stack[p][k])
                                     /\ k # Len(stack[p]) => stack[p][k].call = "readdir"
       /\ Copying(Top(p))

\* What was in a file is where it was or has arrived.
Kept == \A q \in Home : q \in DOMAIN tree \/
          \E p \in Proc : \E i \in DOMAIN Sources(p) : Arrived(p, i, q)

Unfailing == Never({"read", "write", "short"})

\* A step at which no read and no write of a file fails and none is short.
Smooth(p) == /\ Never({"short"})
             /\ ~WriteFails(p) /\ (ReadFails(p) => Top(p).in = 0)

Moving == /\ Linkless(tree) /\ Placed /\ Single /\ Guests /\ Unwritten /\ Kept
          /\ \A p \in Proc : Under(p)

-------------------------------------------------------------------------------
(***************************************************************************)
(* Where sources and images lie in an orderly setting.                     *)
(***************************************************************************)

\* What lies below one of two parted paths does not lie below the other.
LEMMA PartedBelow ==
  ASSUME NEW a \in Path, NEW b \in Path, NEW x \in Path, Parted(a, b), IsPrefix(a, x)
  PROVE  ~IsPrefix(b, x)
<1> SUFFICES ASSUME IsPrefix(b, x) PROVE FALSE
  OBVIOUS
<1>1. a \in Seq(Name) /\ b \in Seq(Name) /\ x \in Seq(Name)
  BY DEF Path
<1>2. Len(a) \in Nat /\ Len(b) \in Nat
  BY <1>1
<1>3. Len(a) <= Len(b) \/ Len(b) <= Len(a)
  BY <1>2
<1> QED
  BY <1>1, <1>3, PrefixesNest DEF Parted

\* The image of what lies below a source, in terms of paths.
LEMMA ImageOfIs ==
  ASSUME setting \in Settings, NEW p \in Proc, Copies(p), NEW i \in DOMAIN Sources(p),
         NEW q \in Path, IsPrefix(Sources(p)[i], q)
  PROVE  /\ Sources(p)[i] \in Path /\ Sources(p)[i] # <<>> /\ Dest(p) \in Path
         /\ Image(p, i) \in Path /\ ImageOf(p, i, q) \in Path
         /\ ImageOf(p, i, q) = Swap(q, Sources(p)[i], Image(p, i))
         /\ IsPrefix(Image(p, i), ImageOf(p, i, q)) /\ IsPrefix(Dest(p), ImageOf(p, i, q))
         /\ q # <<>>
<1>1. /\ Sources(p)[i] \in Path /\ Sources(p)[i] # <<>> /\ Dest(p) \in Path
      /\ Image(p, i) \in Path
  BY ArgumentsAre, ImageIsPath DEF Copies
<1>2. ImageOf(p, i, q) = Swap(q, Sources(p)[i], Image(p, i))
  BY DEF ImageOf, Swap
<1>3. ImageOf(p, i, q) \in Path /\ IsPrefix(Image(p, i), ImageOf(p, i, q))
  BY <1>1, <1>2, SwapIs DEF Path
<1>4. IsPrefix(Dest(p), Image(p, i))
  <2>1. CASE target[p] = "file"
    BY <1>1, <2>1, PrefixElements DEF Image, Path
  <2>2. CASE target[p] # "file"
    <3>1. Last(Sources(p)[i]) \in Name
      BY <1>1, FrontAndLast DEF Path
    <3>2. Image(p, i) = Append(Dest(p), Last(Sources(p)[i]))
      BY <2>2 DEF Image
    <3>3. Dest(p) \in Seq(Name) /\ IsPrefix(Dest(p), Dest(p))
      BY <1>1, PrefixElements DEF Path
    <3> QED
      BY <3>1, <3>2, <3>3, PrefixOfEntry
  <2> QED
    BY <2>1, <2>2
<1>5. IsPrefix(Dest(p), ImageOf(p, i, q))
  BY <1>1, <1>3, <1>4, PrefixTransitive DEF Path
<1>6. q # <<>>
  <2>1. Len(Sources(p)[i]) >= 1 /\ Len(Sources(p)[i]) <= Len(q) /\ q \in Seq(Name)
    BY <1>1, PrefixElements DEF Path
  <2> QED
    BY <2>1
<1> QED
  BY <1>1, <1>2, <1>3, <1>5, <1>6

\* Nobody copies to what lies below a source.
LEMMA SourceOutside ==
  ASSUME setting \in Settings, Orderly, NEW p \in Proc, Copies(p), NEW i \in DOMAIN Sources(p),
         NEW q \in Path, IsPrefix(Sources(p)[i], q)
  PROVE  Outside(q)
<1> SUFFICES ASSUME NEW r \in Proc, Copies(r) PROVE ~IsPrefix(Dest(r), q)
  BY DEF Outside
<1>1. Sources(p)[i] \in Path /\ Dest(r) \in Path
  BY ArgumentsAre DEF Copies
<1>2. Parted(Sources(p)[i], Dest(r))
  BY DEF Orderly
<1> QED
  BY <1>1, <1>2, PartedBelow

\* No two processes copy to one place.
LEMMA OneOwner ==
  ASSUME setting \in Settings, Orderly, NEW p \in Proc, NEW r \in Proc, Copies(p), Copies(r),
         NEW x \in Path, IsPrefix(Dest(p), x), IsPrefix(Dest(r), x)
  PROVE  p = r
<1>1. Dest(p) \in Path /\ Dest(r) \in Path
  BY ArgumentsAre DEF Copies
<1> QED
  BY <1>1, PartedBelow DEF Orderly

\* Images do not lie below sources.
LEMMA ImageNoSource ==
  ASSUME setting \in Settings, Orderly, NEW p \in Proc, NEW r \in Proc, Copies(p), Copies(r),
         NEW i \in DOMAIN Sources(r), NEW x \in Path, IsPrefix(Dest(p), x)
  PROVE  ~IsPrefix(Sources(r)[i], x)
BY SourceOutside DEF Outside

\* Of all that a process copies, one thing goes to one place.
LEMMA OneImage ==
  ASSUME setting \in Settings, Orderly, NEW p \in Proc, Copies(p),
         target[p] = "file" => Len(cmd[p].args) = 2,
         NEW i \in DOMAIN Sources(p), NEW j \in DOMAIN Sources(p),
         NEW q \in Path, IsPrefix(Sources(p)[i], q), NEW s \in Path, IsPrefix(Sources(p)[j], s),
         ImageOf(p, i, q) = ImageOf(p, j, s)
  PROVE  i = j /\ q = s
<1>1. /\ Sources(p)[i] \in Path /\ Sources(p)[i] # <<>> /\ Dest(p) \in Path
      /\ Image(p, i) \in Path /\ ImageOf(p, i, q) = Swap(q, Sources(p)[i], Image(p, i))
      /\ IsPrefix(Image(p, i), ImageOf(p, i, q)) /\ ImageOf(p, i, q) \in Path
  BY ImageOfIs
<1>2. /\ Sources(p)[j] \in Path /\ Sources(p)[j] # <<>>
      /\ Image(p, j) \in Path /\ ImageOf(p, j, s) = Swap(s, Sources(p)[j], Image(p, j))
      /\ IsPrefix(Image(p, j), ImageOf(p, j, s))
  BY ImageOfIs
<1>3. i = j
  <2>1. CASE target[p] = "file"
    <3>1. Len(cmd[p].args) = 2 /\ Len(cmd[p].args) >= 2
      BY <2>1 DEF Copies
    <3>2. Sources(p) \in Seq(Path) /\ Len(Sources(p)) = Len(cmd[p].args) - 1
      BY <3>1, ArgumentsAre
    <3>3. DOMAIN Sources(p) = 1..1
      BY <3>1, <3>2
    <3> QED
      BY <3>3
  <2>2. CASE target[p] # "file"
    <3> DEFINE a == Last(Sources(p)[i])
               b == Last(Sources(p)[j])
               x == ImageOf(p, i, q)
               d == Dest(p)
    <3>1. a \in Name /\ b \in Name
      BY <1>1, <1>2, FrontAndLast DEF Path
    <3>2. Image(p, i) = Append(d, a) /\ Image(p, j) = Append(d, b)
      BY <2>2 DEF Image
    <3>3. d \in Seq(Name) /\ x \in Seq(Name)
      BY <1>1 DEF Path
    <3>4. IsPrefix(Append(d, a), x) /\ IsPrefix(Append(d, b), x)
      BY <1>1, <1>2, <3>2
    <3> HIDE DEF a, b, x, d
    <3>5. /\ Append(d, a) \in Seq(Name) /\ Append(d, b) \in Seq(Name) /\ Len(d) \in Nat
          /\ Len(Append(d, a)) = Len(d) + 1 /\ Len(Append(d, b)) = Len(d) + 1
          /\ Append(d, a)[Len(d) + 1] = a /\ Append(d, b)[Len(d) + 1] = b
      BY <3>1, <3>3
    <3>6. x[Len(d) + 1] = a /\ x[Len(d) + 1] = b
      <4>1. Len(d) + 1 \in 1..Len(Append(d, a)) /\ Len(d) + 1 \in 1..Len(Append(d, b))
        BY <3>5
      <4>2. /\ \A k \in 1..Len(Append(d, a)) : Append(d, a)[k] = x[k]
            /\ \A k \in 1..Len(Append(d, b)) : Append(d, b)[k] = x[k]
        <5>1. \A e \in Seq(Name) : IsPrefix(e, x) => \A k \in 1..Len(e) : e[k] = x[k]
          BY <3>3, PrefixElements
        <5> QED
          BY <3>4, <3>5, <5>1, Zenon
      <4>3. Append(d, a)[Len(d) + 1] = x[Len(d) + 1] /\ Append(d, b)[Len(d) + 1] = x[Len(d) + 1]
        BY <4>1, <4>2, Zenon
      <4> QED
        BY <3>5, <4>3, Zenon
    <3>7. a = b
      BY <3>6
    <3> QED
      BY <3>7 DEF Orderly, a, b
  <2> QED
    BY <2>1, <2>2
<1>4. q = Swap(ImageOf(p, i, q), Image(p, i), Sources(p)[i])
  BY <1>1, SwapIs DEF Path
<1>5. s = Swap(ImageOf(p, j, s), Image(p, j), Sources(p)[j])
  BY <1>2, SwapIs DEF Path
<1> QED
  BY <1>3, <1>4, <1>5

\* The rest of a path behind a part of it, by way of a longer part.
LEMMA RestSplits ==
  ASSUME NEW S, NEW q \in Seq(S), NEW s \in Seq(S), IsPrefix(s, q), NEW i \in 0..Len(s)
  PROVE  /\ SubSeq(s, i + 1, Len(s)) \in Seq(S) /\ SubSeq(q, Len(s) + 1, Len(q)) \in Seq(S)
         /\ SubSeq(q, i + 1, Len(q)) = SubSeq(s, i + 1, Len(s)) \o SubSeq(q, Len(s) + 1, Len(q))
<1> DEFINE t == SubSeq(s, i + 1, Len(s))
           u == SubSeq(q, Len(s) + 1, Len(q))
           v == SubSeq(q, i + 1, Len(q))
<1>0. /\ Len(s) \in Nat /\ Len(q) \in Nat /\ Len(s) <= Len(q) /\ i \in Nat /\ i <= Len(s)
      /\ \A k \in 1..Len(s) : s[k] = q[k]
  BY PrefixElements
<1>1. t \in Seq(S) /\ Len(t) = Len(s) - i /\ \A k \in 1..(Len(s) - i) : t[k] = s[i + k]
  BY <1>0
<1>2. u \in Seq(S) /\ Len(u) = Len(q) - Len(s) /\ \A k \in 1..(Len(q) - Len(s)) : u[k] = q[Len(s) + k]
  BY <1>0
<1>3. v \in Seq(S) /\ Len(v) = Len(q) - i /\ \A k \in 1..(Len(q) - i) : v[k] = q[i + k]
  BY <1>0
<1> HIDE DEF t, u, v
<1>4. /\ t \o u \in Seq(S) /\ Len(t \o u) = Len(t) + Len(u)
      /\ \A k \in 1..(Len(t) + Len(u)) : (t \o u)[k] = IF k <= Len(t) THEN t[k] ELSE u[k - Len(t)]
  BY <1>1, <1>2, ConcatProperties
<1>5. Len(t) + Len(u) = Len(q) - i
  BY <1>0, <1>1, <1>2
<1> DEFINE w == t \o u
<1> HIDE DEF w
<1>6. w \in Seq(S) /\ Len(w) = Len(v)
  BY <1>3, <1>4, <1>5 DEF w
<1>7. ASSUME NEW k \in 1..Len(v) PROVE v[k] = w[k]
  <2>0. k \in 1..(Len(q) - i) /\ k \in Nat
    BY <1>0, <1>3
  <2>1. w[k] = IF k <= Len(t) THEN t[k] ELSE u[k - Len(t)]
    BY <1>4, <1>5, <2>0 DEF w
  <2>2. CASE k <= Len(t)
    <3>1. k \in 1..(Len(s) - i) /\ i + k \in 1..Len(s)
      BY <1>0, <1>1, <2>0, <2>2
    <3> QED
      BY <1>0, <1>1, <1>3, <2>0, <2>1, <2>2, <3>1
  <2>3. CASE ~(k <= Len(t))
    <3>1. k - Len(t) \in 1..(Len(q) - Len(s)) /\ Len(s) + (k - Len(t)) = i + k
      BY <1>0, <1>1, <2>0, <2>3
    <3>2. u[k - Len(t)] = q[i + k]
      BY <1>2, <3>1
    <3> QED
      BY <1>3, <2>0, <2>1, <2>3, <3>2
  <2> QED
    BY <2>2, <2>3
<1>8. v = w
  BY <1>3, <1>6, <1>7, SeqEqual
<1> QED
  BY <1>1, <1>2, <1>8 DEF t, u, v, w

\* The image of what lies further down, and of an entry.
LEMMA ImageFurther ==
  ASSUME setting \in Settings, NEW p \in Proc, Copies(p), NEW i \in DOMAIN Sources(p),
         NEW s \in Path, IsPrefix(Sources(p)[i], s)
  PROVE  /\ \A n \in Name : /\ Append(s, n) \in Path /\ IsPrefix(Sources(p)[i], Append(s, n))
                            /\ ImageOf(p, i, Append(s, n)) = Append(ImageOf(p, i, s), n)
         /\ \A q \in Path : IsPrefix(s, q) =>
              /\ IsPrefix(Sources(p)[i], q)
              /\ ImageOf(p, i, q) = Swap(q, s, ImageOf(p, i, s))
<1> DEFINE a == Sources(p)[i]
           m == Image(p, i)
<1>1. a \in Seq(Name) /\ m \in Seq(Name) /\ s \in Seq(Name)
  BY ImageOfIs DEF Path
<1>2. \A q : ImageOf(p, i, q) = m \o SubSeq(q, Len(a) + 1, Len(q))
  BY DEF ImageOf
<1>p. IsPrefix(a, s)
  OBVIOUS
<1> HIDE DEF a, m
<1>3. Len(a) \in Nat /\ Len(s) \in Nat /\ Len(a) <= Len(s)
  BY <1>1, <1>p, PrefixElements
<1>4. ASSUME NEW q \in Path, IsPrefix(s, q)
      PROVE  IsPrefix(a, q) /\ ImageOf(p, i, q) = Swap(q, s, ImageOf(p, i, s))
  <2>1. q \in Seq(Name) /\ IsPrefix(a, q)
    <3>1. q \in Seq(Name)
      BY DEF Path
    <3> QED
      BY <1>1, <1>p, <1>4, <3>1, PrefixTransitive
  <2> DEFINE t == SubSeq(s, Len(a) + 1, Len(s))
             u == SubSeq(q, Len(s) + 1, Len(q))
  <2>2. t \in Seq(Name) /\ u \in Seq(Name) /\ SubSeq(q, Len(a) + 1, Len(q)) = t \o u
    <3>1. Len(a) \in 0..Len(s)
      BY <1>3
    <3> QED
      BY <1>1, <1>4, <2>1, <3>1, RestSplits
  <2>3. ImageOf(p, i, q) = m \o (t \o u) /\ ImageOf(p, i, s) = m \o t
    BY <1>2, <2>2
  <2>4. Swap(q, s, ImageOf(p, i, s)) = (m \o t) \o u
    BY <2>3 DEF Swap
  <2> HIDE DEF t, u
  <2>5. (m \o t) \o u = m \o (t \o u)
    BY <1>1, <2>2, ConcatAssociative
  <2> QED
    BY <2>1, <2>3, <2>4, <2>5
<1>5. ASSUME NEW n \in Name
      PROVE  /\ Append(s, n) \in Path /\ IsPrefix(a, Append(s, n))
             /\ ImageOf(p, i, Append(s, n)) = Append(ImageOf(p, i, s), n)
  <2> DEFINE q == Append(s, n)
             x == ImageOf(p, i, s)
  <2>1. q \in Seq(Name) /\ IsPrefix(s, q) /\ Len(q) = Len(s) + 1 /\ q[Len(s) + 1] = n
    <3>1. IsPrefix(s, s)
      BY <1>1, PrefixElements
    <3> QED
      BY <1>1, <3>1, PrefixOfEntry
  <2>2. x \in Seq(Name)
    BY ImageOfIs DEF Path
  <2>3. IsPrefix(a, q) /\ ImageOf(p, i, q) = Swap(q, s, x)
    BY <1>4, <2>1 DEF Path
  <2> HIDE DEF x, q
  <2>4. SubSeq(q, Len(s) + 1, Len(q)) = <<n>>
    <3>1. /\ SubSeq(q, Len(s) + 1, Len(s) + 1) \in Seq(Name)
          /\ Len(SubSeq(q, Len(s) + 1, Len(s) + 1)) = 1
          /\ SubSeq(q, Len(s) + 1, Len(s) + 1)[1] = n
      BY <1>3, <2>1
    <3> DEFINE y == SubSeq(q, Len(s) + 1, Len(s) + 1)
    <3> HIDE DEF y
    <3>2. y \in Seq(Name) /\ Len(y) = 1 /\ y[1] = n
      BY <3>1 DEF y
    <3>3. y = <<n>>
      BY <3>2
    <3> QED
      BY <2>1, <3>3 DEF y
  <2>5. Swap(q, s, x) = Append(x, n)
    BY <2>2, <2>4, AppendIsConcat DEF Swap
  <2> QED
    BY <2>1, <2>3, <2>5 DEF x, q, Path
<1> QED
  BY <1>4, <1>5 DEF a

-------------------------------------------------------------------------------
(***************************************************************************)
(* What a step does to the tree and to the contents.                       *)
(***************************************************************************)

\* Where the innermost activation of a process is.
LEMMA TopPlace ==
  ASSUME Typed, NEW p \in Proc, Under(p), stack[p] # <<>>
  PROVE  /\ setting \in Settings /\ Copies(p)
         /\ operand[p] \in DOMAIN Sources(p) /\ operand[p] \in 1..operand[p]
         /\ target[p] = "file" => Len(cmd[p].args) = 2
         /\ Top(p).src \in Path /\ Top(p).dest \in Path
         /\ IsPrefix(Sources(p)[operand[p]], Top(p).src)
         /\ Top(p).dest = ImageOf(p, operand[p], Top(p).src)
         /\ IsPrefix(Dest(p), Top(p).dest)
<1>1. /\ setting \in Settings /\ at[p] = "loop" /\ operand[p] >= 1 /\ operand[p] \in Nat
      /\ Len(cmd[p].args) >= 2 /\ StacksTyped
  BY DEF Typed, ProgressTyped
<1>2. operand[p] <= Len(Sources(p)) /\ (target[p] = "file" => Len(cmd[p].args) = 2)
  BY <1>1 DEF Under
<1>3. Sources(p) \in Seq(Path)
  BY <1>1, ArgumentsAre
<1>4. operand[p] \in DOMAIN Sources(p) /\ operand[p] \in 1..operand[p]
  BY <1>1, <1>2, <1>3
<1>5. OnWay(p, Top(p))
  BY <1>1, TopIs DEF Under
<1>6. Top(p).src \in Path /\ Top(p).dest \in Path
  BY TopPaths
<1>7. Copies(p)
  BY <1>1 DEF Copies
<1>8. IsPrefix(Dest(p), Top(p).dest)
  BY <1>1, <1>4, <1>5, <1>6, <1>7, ImageOfIs DEF OnWay
<1> QED
  BY <1>1, <1>2, <1>4, <1>5, <1>6, <1>7, <1>8 DEF OnWay

\* What lies below a DESTINATION is not outside, and no source.
LEMMA TopApart ==
  ASSUME Typed, Orderly, NEW p \in Proc, Under(p), stack[p] # <<>>, NEW x \in Path
  PROVE  /\ IsPrefix(Top(p).src, x) => Outside(x)
         /\ IsPrefix(Top(p).dest, x) => IsPrefix(Dest(p), x) /\ ~Outside(x)
<1>1. /\ setting \in Settings /\ Copies(p) /\ operand[p] \in DOMAIN Sources(p)
      /\ Top(p).src \in Path /\ Top(p).dest \in Path
      /\ IsPrefix(Sources(p)[operand[p]], Top(p).src) /\ IsPrefix(Dest(p), Top(p).dest)
  BY TopPlace
<1>2. Sources(p)[operand[p]] \in Path /\ Dest(p) \in Path
  BY <1>1, ArgumentsAre DEF Copies
<1>3. IsPrefix(Top(p).src, x) => IsPrefix(Sources(p)[operand[p]], x)
  BY <1>1, <1>2, PrefixTransitive DEF Path
<1>4. IsPrefix(Top(p).dest, x) => IsPrefix(Dest(p), x)
  BY <1>1, <1>2, PrefixTransitive DEF Path
<1> QED
  BY <1>1, <1>3, <1>4, SourceOutside DEF Outside

\* Without links a path leads to itself.
LEMMA TopStraight ==
  ASSUME Typed, Linkless(tree), NEW p \in Proc, stack[p] # <<>>
  PROVE  /\ Follow(tree, Top(p).src) = Top(p).src /\ NoFollow(tree, Top(p).src) = Top(p).src
         /\ Follow(tree, Top(p).dest) = Top(p).dest /\ NoFollow(tree, Top(p).dest) = Top(p).dest
         /\ Found(tree, Top(p).src) = Top(p).src
<1>1. Top(p).src \in Path /\ Top(p).dest \in Path
  BY TopPaths
<1>2. /\ Follow(tree, Top(p).src) = Top(p).src /\ NoFollow(tree, Top(p).src) = Top(p).src
      /\ Follow(tree, Top(p).dest) = Top(p).dest /\ NoFollow(tree, Top(p).dest) = Top(p).dest
  BY <1>1, FollowStraight DEF Linkless
<1> QED
  BY <1>2 DEF Found

\* The calls of an activation that change the tree.
Alters(act) ==
  \/ act.call = "rmdir" /\ CanRmdir(tree, act.src) /\ tree' = Without(tree, act.src)
  \/ act.call = "unlink_src" /\ CanUnlink(tree, act.src) /\ tree' = Without(tree, act.src)
  \/ act.call = "unlink_dest" /\ CanUnlink(tree, act.dest) /\ tree' = Without(tree, act.dest)
  \/ act.call = "mkdir" /\ CanMake(tree, act.dest) /\ tree' = With(tree, act.dest, Dir)
  \/ /\ act.call \in {"open_dest", "reopen_dest"} /\ CanMake(tree, act.dest)
     /\ tree' = With(tree, act.dest, File(Len(file) + 1))
  \/ /\ act.call = "rename" /\ CanRename(tree, act.src, act.dest)
     /\ tree' = Renamed(tree, act.src, act.dest)

\* Every change of the tree is one of those.
LEMMA StepAlters ==
  ASSUME Typed, Linkless(tree), NEW p \in Proc, Step(p)
  PROVE  tree' = tree \/ (stack[p] # <<>> /\ Alters(Top(p)))
<1>1. CASE \/ Usage(p) \/ Guess(p) \/ Check(p) \/ CheckFails(p) \/ NextSource(p) \/ Exit(p)
  BY <1>1 DEF Usage, Guess, Check, CheckFails, NextSource, Exit, Quit
<1>2. CASE \/ StatSrc(p) \/ StatSrcFails(p) \/ StatDestMissing(p) \/ StatDestExists(p)
           \/ StatDestClashes(p) \/ PromptYes(p) \/ PromptNo(p) \/ RenameFails(p)
           \/ Opendir(p) \/ OpendirFails(p) \/ ReaddirEnd(p) \/ OpenDestForced(p)
           \/ OpenDestFails(p) \/ OpenSrc(p) \/ OpenSrcFails(p) \/ Read(p) \/ ReadEof(p)
           \/ ReadFails(p) \/ WriteFails(p) \/ ReaddirEntry(p) \/ Write(p) \/ PreserveMeta(p)
  BY <1>2 DEF StatSrc, StatSrcFails, StatDestMissing, StatDestExists, StatDestClashes, PromptYes,
         PromptNo, RenameFails, Opendir, OpendirFails, ReaddirEnd, OpenDestForced,
         OpenDestFails, OpenSrc, OpenSrcFails, Read, ReadEof, ReadFails, WriteFails,
         ReaddirEntry, Write, PreserveMeta, disk
<1>3. CASE RenameDone(p) \/ Mkdir(p) \/ RmdirSrc(p) \/ OpenDest(p) \/ UnlinkDest(p) \/ UnlinkSrc(p)
  <2>1. stack[p] # <<>>
    BY <1>3 DEF RenameDone, Mkdir, RmdirSrc, OpenDest, UnlinkDest, UnlinkSrc, Busy
  <2>2. /\ Follow(tree, Top(p).src) = Top(p).src /\ NoFollow(tree, Top(p).src) = Top(p).src
        /\ Follow(tree, Top(p).dest) = Top(p).dest /\ NoFollow(tree, Top(p).dest) = Top(p).dest
    BY <2>1, TopStraight
  <2>3. CASE RenameDone(p)
    BY <2>1, <2>2, <2>3 DEF RenameDone, Busy, Top, Alters
  <2>4. CASE Mkdir(p)
    BY <2>1, <2>2, <2>4 DEF Mkdir, Busy, Top, Alters
  <2>5. CASE RmdirSrc(p)
    BY <2>1, <2>2, <2>5 DEF RmdirSrc, Busy, Top, Alters
  <2>6. CASE OpenDest(p)
    BY <2>1, <2>2, <2>6 DEF OpenDest, Busy, Top, Alters, CanOpen
  <2>7. CASE UnlinkDest(p)
    BY <2>1, <2>2, <2>7 DEF UnlinkDest, Busy, Top, Alters
  <2>8. CASE UnlinkSrc(p)
    BY <2>1, <2>2, <2>8 DEF UnlinkSrc, Busy, Top, Alters
  <2> QED
    BY <1>3, <2>3, <2>4, <2>5, <2>6, <2>7, <2>8
<1> QED
  BY <1>1, <1>2, <1>3, Zenon DEF Step

\* What is new or different is at or below the place that is copied to.
LEMMA TreeGrows ==
  ASSUME Typed, Linkless(tree), NEW p \in Proc, Step(p), NEW x \in DOMAIN tree'
  PROVE  \/ x \in DOMAIN tree /\ tree'[x] = tree[x]
         \/ stack[p] # <<>> /\ x \in Path /\ IsPrefix(Top(p).dest, x)
<1> SUFFICES ASSUME stack[p] # <<>>, Alters(Top(p))
             PROVE  \/ x \in DOMAIN tree /\ tree'[x] = tree[x]
                    \/ x \in Path /\ IsPrefix(Top(p).dest, x)
  BY StepAlters
<1> DEFINE s == Top(p).src
           d == Top(p).dest
<1>1. s \in Path /\ d \in Path /\ Grown(tree)
  BY TopPaths DEF Typed, DiskTyped
<1>2. IsPrefix(d, d)
  BY <1>1, PrefixElements DEF Path
<1>3. CASE tree' = Without(tree, s) \/ tree' = Without(tree, d)
  BY <1>3 DEF Without
<1>4. CASE tree' = With(tree, d, Dir) \/ tree' = With(tree, d, File(Len(file) + 1))
  BY <1>1, <1>2, <1>4 DEF With
<1>5. CASE CanRename(tree, s, d) /\ tree' = Renamed(tree, s, d)
  <2> HIDE DEF s, d
  <2>1. CASE x \in DOMAIN tree /\ ~IsPrefix(s, x) /\ x # d
    BY <1>1, <1>5, <2>1, RenamedIs
  <2>2. CASE \E q \in DOMAIN tree : IsPrefix(s, q) /\ x = Swap(q, s, d)
    <3>1. PICK q \in DOMAIN tree : IsPrefix(s, q) /\ x = Swap(q, s, d)
      BY <2>2
    <3>2. q \in Seq(Name) /\ s \in Seq(Name) /\ d \in Seq(Name)
      BY <1>1 DEF Grown, Path
    <3>3. x \in Seq(Name) /\ IsPrefix(d, x)
      BY <3>1, <3>2, SwapIs
    <3> QED
      BY <3>3 DEF d, Path
  <2> QED
    BY <1>1, <1>5, <2>1, <2>2, RenamedIs
<1> QED
  BY <1>3, <1>4, <1>5 DEF Alters

\* What is gone or different was at or below the source, or at the place that is
\* copied to.
LEMMA TreeShrinks ==
  ASSUME Typed, Linkless(tree), NEW p \in Proc, Step(p), NEW x \in DOMAIN tree
  PROVE  \/ x \in DOMAIN tree' /\ tree'[x] = tree[x]
         \/ /\ stack[p] # <<>> /\ Alters(Top(p))
            /\ IsPrefix(Top(p).src, x) \/ (x = Top(p).dest /\ Top(p).call \in Harmful)
<1> SUFFICES ASSUME stack[p] # <<>>, Alters(Top(p))
             PROVE  \/ x \in DOMAIN tree' /\ tree'[x] = tree[x]
                    \/ IsPrefix(Top(p).src, x) \/ (x = Top(p).dest /\ Top(p).call \in Harmful)
  BY StepAlters
<1> DEFINE s == Top(p).src
           d == Top(p).dest
<1>1. s \in Path /\ d \in Path /\ Grown(tree)
  BY TopPaths DEF Typed, DiskTyped
<1>2. IsPrefix(s, s)
  BY <1>1, PrefixElements DEF Path
<1>3. CASE tree' = Without(tree, s)
  BY <1>2, <1>3 DEF Without
<1>4. CASE Top(p).call = "unlink_dest" /\ tree' = Without(tree, d)
  BY <1>4 DEF Without, Harmful
<1>5. CASE /\ CanMake(tree, d)
           /\ tree' = With(tree, d, Dir) \/ tree' = With(tree, d, File(Len(file) + 1))
  BY <1>5 DEF With, CanMake, Exists
<1>6. CASE Top(p).call = "rename" /\ CanRename(tree, s, d) /\ tree' = Renamed(tree, s, d)
  <2> HIDE DEF s, d
  <2>1. IsPrefix(s, x) \/ x = d \/ (x \in DOMAIN tree' /\ tree'[x] = tree[x])
    BY <1>1, <1>6, RenamedIs
  <2> QED
    BY <1>6, <2>1 DEF s, d, Harmful
<1> QED
  BY <1>3, <1>4, <1>5, <1>6 DEF Alters

\* A rename takes everything away from the source.
LEMMA SourceGone ==
  ASSUME Typed, Orderly, Linkless(tree), NEW p \in Proc, Under(p), stack[p] # <<>>,
         CanRename(tree, Top(p).src, Top(p).dest),
         tree' = Renamed(tree, Top(p).src, Top(p).dest), NEW x \in Path,
         IsPrefix(Top(p).src, x)
  PROVE  x \notin DOMAIN tree'
<1> SUFFICES ASSUME x \in DOMAIN tree' PROVE FALSE
  OBVIOUS
<1> DEFINE s == Top(p).src
           d == Top(p).dest
<1>1. s \in Path /\ d \in Path /\ Grown(tree)
  BY TopPaths DEF Typed, DiskTyped
<1>2. Outside(x) /\ ~IsPrefix(d, x)
  BY TopApart
<1> HIDE DEF s, d
<1>3. PICK q \in DOMAIN tree : IsPrefix(s, q) /\ x = Swap(q, s, d)
  BY <1>1, RenamedIs DEF s, d
<1>4. q \in Seq(Name) /\ s \in Seq(Name) /\ d \in Seq(Name)
  BY <1>1 DEF Grown, Path
<1>5. IsPrefix(d, x)
  BY <1>3, <1>4, SwapIs
<1> QED
  BY <1>2, <1>5

\* A file was there before, or is a new one, or was moved.
MovedFrom(act, q, x) ==
  /\ act.call = "rename" /\ CanRename(tree, act.src, act.dest)
  /\ tree' = Renamed(tree, act.src, act.dest)
  /\ q \in Path /\ q \in DOMAIN tree /\ IsPrefix(act.src, q)
  /\ x = Swap(q, act.src, act.dest) /\ tree'[x] = tree[q]

\* Where the files of the next tree come from.
LEMMA FilesFrom ==
  ASSUME Typed, Linkless(tree), NEW p \in Proc, Step(p), NEW x \in DOMAIN tree', IsFile(tree', x)
  PROVE  \/ x \in DOMAIN tree /\ tree'[x] = tree[x]
         \/ stack[p] # <<>> /\ x = Top(p).dest /\ tree'[x].ino = Len(file) + 1
         \/ stack[p] # <<>> /\ \E q : MovedFrom(Top(p), q, x)
<1> SUFFICES ASSUME stack[p] # <<>>, Alters(Top(p))
             PROVE  \/ x \in DOMAIN tree /\ tree'[x] = tree[x]
                    \/ x = Top(p).dest /\ tree'[x].ino = Len(file) + 1
                    \/ \E q : MovedFrom(Top(p), q, x)
  BY StepAlters
<1> DEFINE s == Top(p).src
           d == Top(p).dest
<1>1. s \in Path /\ d \in Path /\ Grown(tree)
  BY TopPaths DEF Typed, DiskTyped
<1>3. CASE tree' = Without(tree, s) \/ tree' = Without(tree, d)
  BY <1>3 DEF Without
<1>4. CASE tree' = With(tree, d, Dir)
  BY <1>4 DEF With, IsFile, Dir, Exists
<1>5. CASE tree' = With(tree, d, File(Len(file) + 1))
  BY <1>5 DEF With, File
<1>6. CASE Top(p).call = "rename" /\ CanRename(tree, s, d) /\ tree' = Renamed(tree, s, d)
  <2> HIDE DEF s, d
  <2>1. CASE x \in DOMAIN tree /\ ~IsPrefix(s, x) /\ x # d
    BY <1>1, <1>6, <2>1, RenamedIs
  <2>2. CASE \E q \in DOMAIN tree : IsPrefix(s, q) /\ x = Swap(q, s, d)
    <3>1. PICK q \in DOMAIN tree : IsPrefix(s, q) /\ x = Swap(q, s, d)
      BY <2>2
    <3>2. q \in Path /\ tree'[x] = tree[q]
      BY <1>1, <1>6, <3>1, RenamedIs DEF Grown
    <3>3. MovedFrom(Top(p), q, x)
      BY <1>6, <3>1, <3>2 DEF MovedFrom, s, d
    <3> QED
      BY <3>3
  <2> QED
    BY <1>1, <1>6, <2>1, <2>2, RenamedIs
<1> QED
  BY <1>3, <1>4, <1>5, <1>6 DEF Alters

\* Contents change only at the place that is copied to, while it is being written.
LEMMA DataChanges ==
  ASSUME Typed, Orderly, Linkless(tree), NEW p \in Proc, Under(p), Step(p), NEW f \in DOMAIN file
  PROVE  \/ f \in DOMAIN file' /\ file'[f].data = file[f].data
         \/ /\ stack[p] # <<>> /\ Top(p).call \in Harmful
            /\ IsFile(tree, Top(p).dest) /\ tree[Top(p).dest].ino = f
<1>1. CASE \/ Usage(p) \/ Guess(p) \/ Check(p) \/ CheckFails(p) \/ NextSource(p) \/ Exit(p)
  BY <1>1 DEF Usage, Guess, Check, CheckFails, NextSource, Exit, Quit
<1>2. CASE \/ StatSrc(p) \/ StatSrcFails(p) \/ StatDestMissing(p) \/ StatDestExists(p)
           \/ StatDestClashes(p) \/ PromptYes(p) \/ PromptNo(p) \/ RenameFails(p)
           \/ Opendir(p) \/ OpendirFails(p) \/ ReaddirEnd(p) \/ OpenDestForced(p)
           \/ OpenDestFails(p) \/ OpenSrc(p) \/ OpenSrcFails(p) \/ Read(p) \/ ReadEof(p)
           \/ ReadFails(p) \/ WriteFails(p) \/ ReaddirEntry(p)
           \/ RenameDone(p) \/ Mkdir(p) \/ RmdirSrc(p) \/ UnlinkDest(p) \/ UnlinkSrc(p)
  BY <1>2 DEF StatSrc, StatSrcFails, StatDestMissing, StatDestExists, StatDestClashes, PromptYes,
         PromptNo, RenameFails, Opendir, OpendirFails, ReaddirEnd, OpenDestForced,
         OpenDestFails, OpenSrc, OpenSrcFails, Read, ReadEof, ReadFails, WriteFails,
         ReaddirEntry, disk, RenameDone, Mkdir, RmdirSrc, UnlinkDest, UnlinkSrc
<1>f. file \in Seq(Inode) /\ StacksTyped /\ Len(file) \in Nat /\ DOMAIN file = 1..Len(file)
  BY DEF Typed, DiskTyped
<1>3. CASE OpenDest(p)
  <2> DEFINE d == Follow(tree, Top(p).dest)
             i == IF IsFile(tree, d) THEN tree[d].ino ELSE Len(file) + 1
  <2>1. /\ stack[p] # <<>> /\ Top(p).call \in {"open_dest", "reopen_dest"}
    BY <1>3 DEF OpenDest, Busy, Top
  <2>2. Top(p).dest = d
    BY <2>1, TopStraight
  <2>3. file' = Touched(file, i, <<>>) \/ file' = Append(file, Fresh)
    BY <1>3 DEF OpenDest
  <2> HIDE DEF i
  <2>4. file' = [file EXCEPT ![i].data = <<>>, ![i].meta.time = "now"] \/ file' = Append(file, Fresh)
    BY <2>3 DEF Touched
  <2>5. f # i => f \in DOMAIN file' /\ file'[f] = file[f]
    BY <1>f, <2>4
  <2>6. CASE f # i
    BY <2>5, <2>6
  <2>7. CASE f = i
    <3>1. IsFile(tree, d)
      BY <1>f, <2>7 DEF i
    <3> QED
      BY <2>1, <2>2, <2>7, <3>1 DEF Harmful, i
  <2> QED
    BY <2>6, <2>7
<1>4. CASE Write(p)
  <2>1. stack[p] # <<>> /\ Top(p).call = "write"
    BY <1>4 DEF Write, Busy, Top
  <2>2. Copying(Top(p))
    BY <2>1 DEF Under
  <2>3. IsFile(tree, Top(p).dest) /\ tree[Top(p).dest].ino = Top(p).out
    BY <2>1, <2>2 DEF Copying, CopyingFile, Partly
  <2>4. PICK b : file' = Written(p, b)
    BY <1>4 DEF Write
  <2> DEFINE g == Stored(file[Top(p).out].data, Top(p).pos, b)
  <2>5. file' = [file EXCEPT ![Top(p).out].data = g, ![Top(p).out].meta.time = "now"]
    BY <2>4 DEF Written, Touched
  <2> HIDE DEF g
  <2>6. f # Top(p).out => f \in DOMAIN file' /\ file'[f] = file[f]
    BY <1>f, <2>5
  <2> QED
    BY <2>1, <2>3, <2>6 DEF Harmful
<1>5. CASE PreserveMeta(p)
  <2>1. CASE file' = file
    BY <2>1
  <2>2. CASE file' # file
    <3> DEFINE i == tree[Follow(tree, Top(p).dest)].ino
    <3>1. PICK r : file' = [file EXCEPT ![i].meta = Preserved(@, Top(p).meta, r)]
      BY <1>5, <2>2 DEF PreserveMeta
    <3> DEFINE m == Preserved(file[i].meta, Top(p).meta, r)
    <3>2. file' = [file EXCEPT ![i].meta = m]
      BY <3>1
    <3> HIDE DEF m, i
    <3>3. file[f] \in Inode
      BY <1>f
    <3> QED
      BY <1>f, <3>2, <3>3 DEF Inode
  <2> QED
    BY <2>1, <2>2
<1> QED
  BY <1>1, <1>2, <1>3, <1>4, <1>5, Zenon DEF Step

-------------------------------------------------------------------------------
(***************************************************************************)
(* How an activation goes on.                                              *)
(***************************************************************************)

\* An activation goes on with the same paths, looks at the source before it does
\* harm, and knows how much it has copied; or it returns; or it enters a directory.
Carries(p, act) ==
  /\ act.src = Top(p).src /\ act.dest = Top(p).dest
  /\ act.call \in Harmful =>
       Top(p).call \in Harmful \/ (Top(p).call = "stat_src" /\ Exists(tree, Top(p).src))

Continues(p, act) == Carries(p, act) /\ Copying(act)'

Descends(p, act, n) ==
  /\ act.call = "readdir" /\ act.src = Top(p).src /\ act.dest = Top(p).dest
  /\ n \in Name /\ Enters(p, act, n)

Advances(p) ==
  \/ Return(p)
  \/ \E act \in Activation : GoOn(p, act) /\ Continues(p, act)
  \/ \E act : \E n : Descends(p, act, n)

\* What an activation goes on with is an activation.
LEMMA GoesOnTyped ==
  ASSUME StacksTyped, StacksTyped', NEW p \in Proc, stack[p] # <<>>, NEW act, GoOn(p, act)
  PROVE  act \in Activation
<1> DEFINE S == Activation \cup {act}
           f == Front(stack[p])
<1>1. f \in Seq(Activation) /\ stack \in [Proc -> Seq(Activation)] /\ stack' \in [Proc -> Seq(Activation)]
  BY FrontAndLast DEF StacksTyped
<1>2. stack'[p] = Append(f, act)
  BY <1>1 DEF GoOn
<1> HIDE DEF f
<1>3. f \in Seq(S) /\ act \in S
  BY <1>1
<1> HIDE DEF S
<1>4. Append(f, act) \in Seq(Activation) /\ Len(Append(f, act)) = Len(f) + 1 /\ Len(f) \in Nat
      /\ Append(f, act)[Len(f) + 1] = act
  BY <1>1, <1>2, <1>3
<1> QED
  BY <1>4

\* By a step that opens and copies nothing.
LEMMA PlainNext ==
  ASSUME Typed, Typed', NEW p \in Proc, stack[p] # <<>>, Under(p), setting' = setting,
         NEW act, GoOn(p, act),
         act.src = Top(p).src, act.dest = Top(p).dest, act.pos = Top(p).pos,
         act.call \notin {"stat_src", "open_src", "read", "write", "unlink_src"},
         act.call \in Harmful =>
           \/ Top(p).call \in Harmful \ {"read", "write"}
           \/ Top(p).call = "stat_src" /\ Exists(tree, Top(p).src)
  PROVE  Advances(p)
<1>1. act \in Activation
  BY GoesOnTyped DEF Typed
<1>2. Copying(Top(p))
  BY DEF Under
<1>3. act.call \in Harmful => act.pos = 0
  BY <1>2 DEF Copying
<1>4. CopyingFile(act)'
  BY DEF CopyingFile
<1>5. Copying(act)'
  BY <1>3, <1>4 DEF Copying
<1>6. Continues(p, act)
  BY <1>5 DEF Continues, Carries
<1> QED
  BY <1>1, <1>6 DEF Advances

\* A call that is followed by another one of the same activation.
LEMMA ToNext ==
  ASSUME Typed, Typed', NEW p \in Proc, stack[p] # <<>>, Under(p), setting' = setting,
         NEW c \in Calls \ {"stat_src", "open_src", "read", "write", "unlink_src"}, To(p, c),
         c \in Harmful => Top(p).call \in Harmful \ {"read", "write"}
  PROVE  Advances(p)
<1>1. PICK act : act = [Top(p) EXCEPT !.call = c]
  OBVIOUS
<1>2. Top(p) \in Activation
  BY TopIs DEF Typed
<1>3. act.call = c /\ act.src = Top(p).src /\ act.dest = Top(p).dest /\ act.pos = Top(p).pos
  BY <1>1, <1>2 DEF Activation
<1>4. GoOn(p, act)
  BY <1>1 DEF To
<1> QED
  BY <1>3, <1>4, PlainNext

\* The end of an activation, as goto finish and attributes leave it.
LEMMA FinishNext ==
  ASSUME Typed, Typed', NEW p \in Proc, stack[p] # <<>>, Under(p), setting' = setting, Finish(p)
  PROVE  Advances(p)
<1>1. CASE Return(p)
  BY <1>1 DEF Advances
<1>2. CASE To(p, "preserve")
  <2>1. "preserve" \in Calls \ {"stat_src", "open_src", "read", "write", "unlink_src"}
        /\ "preserve" \notin Harmful
    BY DEF Calls, Harmful
  <2> QED
    BY <1>2, <2>1, ToNext
<1> QED
  BY <1>1, <1>2 DEF Finish

\* By the steps that open and copy nothing.
LEMMA PlainStepNext ==
  ASSUME Typed, Typed', Linkless(tree), NEW p \in Proc, Under(p),
         \/ StatSrc(p) \/ StatSrcFails(p) \/ StatDestMissing(p) \/ StatDestExists(p)
         \/ StatDestClashes(p) \/ PromptYes(p) \/ PromptNo(p) \/ RenameFails(p)
         \/ Opendir(p) \/ OpendirFails(p) \/ ReaddirEnd(p) \/ OpenDestForced(p)
         \/ OpenDestFails(p) \/ OpenSrcFails(p) \/ RenameDone(p) \/ Mkdir(p) \/ RmdirSrc(p)
         \/ UnlinkDest(p) \/ UnlinkSrc(p) \/ PreserveMeta(p)
  PROVE  stack[p] # <<>> /\ UNCHANGED main /\ Advances(p)
<1>1. stack[p] # <<>> /\ UNCHANGED main
  BY DEF StatSrc, StatSrcFails, StatDestMissing, StatDestExists, StatDestClashes, PromptYes,
         PromptNo, RenameFails, Opendir, OpendirFails, ReaddirEnd, OpenDestForced,
         OpenDestFails, OpenSrcFails, Busy, RenameDone, Mkdir, RmdirSrc, UnlinkDest,
         UnlinkSrc, PreserveMeta
<1>2. setting' = setting /\ Top(p) \in Activation
  BY <1>1, TopIs DEF main, Typed
<1>c. {"prompt", "rename", "mkdir", "open_dest", "unlink_dest", "reopen_dest", "opendir", "rmdir"}
        \subseteq Calls \ {"stat_src", "open_src", "read", "write", "unlink_src"}
  BY DEF Calls
<1>w. FirstWay(p) \in {"rename", "mkdir", "open_dest"}
  BY DEF FirstWay
<1> SUFFICES Advances(p)
  BY <1>1
<1>3. CASE \/ StatSrcFails(p) \/ StatDestClashes(p) \/ PromptNo(p) \/ OpendirFails(p)
           \/ OpenDestFails(p) \/ OpenSrcFails(p) \/ RenameDone(p) \/ PreserveMeta(p)
  BY <1>3 DEF StatSrcFails, StatDestClashes, PromptNo, OpendirFails, OpenDestFails,
              OpenSrcFails, Fail, Advances, RenameDone, PreserveMeta
<1>4. CASE StatDestMissing(p) \/ StatDestExists(p) \/ RenameFails(p) \/ OpenDestForced(p)
           \/ UnlinkDest(p)
  <2>1. /\ Top(p).call \in {"stat_dest", "rename", "open_dest", "unlink_dest"}
        /\ \E c \in {"prompt", "rename", "mkdir", "open_dest", "unlink_dest", "reopen_dest"} : To(p, c)
    BY <1>4, <1>w DEF StatDestMissing, StatDestExists, RenameFails, OpenDestForced, UnlinkDest,
                      Busy, Top
  <2>2. Top(p).call \in Harmful \ {"read", "write"}
    BY <2>1 DEF Harmful
  <2> QED
    BY <1>1, <1>2, <1>c, <2>1, <2>2, ToNext
<1>5. CASE ReaddirEnd(p) \/ RmdirSrc(p) \/ UnlinkSrc(p) \/ Mkdir(p)
  <2>1. To(p, "rmdir") \/ To(p, "opendir") \/ Finish(p)
    BY <1>5 DEF ReaddirEnd, RmdirSrc, UnlinkSrc, Mkdir
  <2>2. "rmdir" \notin Harmful /\ "opendir" \notin Harmful
    BY DEF Harmful
  <2> QED
    BY <1>1, <1>2, <1>c, <2>1, <2>2, ToNext, FinishNext
<1>6. CASE StatSrc(p)
  <2> DEFINE q == Found(tree, Top(p).src)
             m == IF IsFile(tree, q) THEN file[tree[q].ino].meta ELSE NoMeta
             b == [Top(p) EXCEPT !.call = "stat_dest", !.dir = IsDir(tree, q),
                                 !.id = Identity(tree, q), !.meta = m]
  <2>1. GoOn(p, b) /\ Exists(tree, q) /\ Top(p).call = "stat_src"
    BY <1>6 DEF StatSrc, Busy, Top
  <2>2. q = Top(p).src
    BY <1>1, TopStraight
  <2> HIDE DEF q, m
  <2>3. PICK act : act = b
    OBVIOUS
  <2>4. act.call = "stat_dest" /\ act.src = Top(p).src /\ act.dest = Top(p).dest /\ act.pos = Top(p).pos
    BY <1>2, <2>3 DEF Activation
  <2>5. GoOn(p, act)
    BY <2>1, <2>3
  <2> QED
    BY <1>1, <1>2, <2>1, <2>2, <2>4, <2>5, PlainNext
<1>7. CASE PromptYes(p)
  <2>a. PICK a : GoOn(p, [Top(p) EXCEPT !.call = FirstWay(p), !.consent = a \in Accepted])
    BY <1>7 DEF PromptYes
  <2>1. PICK act : act = [Top(p) EXCEPT !.call = FirstWay(p), !.consent = a \in Accepted]
    OBVIOUS
  <2>2. GoOn(p, act) /\ Top(p).call = "prompt"
    BY <1>7, <2>a, <2>1 DEF PromptYes, Busy, Top
  <2>3. act.call = FirstWay(p) /\ act.src = Top(p).src /\ act.dest = Top(p).dest /\ act.pos = Top(p).pos
    BY <1>2, <2>1 DEF Activation
  <2>4. Top(p).call \in Harmful \ {"read", "write"}
    BY <2>2 DEF Harmful
  <2>5. act.call \notin {"stat_src", "open_src", "read", "write", "unlink_src"}
    BY <1>w, <2>3
  <2> QED
    BY <1>1, <1>2, <2>2, <2>3, <2>4, <2>5, PlainNext
<1>8. CASE Opendir(p)
  <2> DEFINE snap == Entries(tree, Follow(tree, Top(p).src)) \cup Dots
  <2>1. PICK act : act = [Top(p) EXCEPT !.call = "readdir", !.snap = snap]
    OBVIOUS
  <2>2. GoOn(p, act)
    BY <1>8, <2>1 DEF Opendir
  <2> HIDE DEF snap
  <2>3. act.call = "readdir" /\ act.src = Top(p).src /\ act.dest = Top(p).dest /\ act.pos = Top(p).pos
    BY <1>2, <2>1 DEF Activation
  <2>4. act.call \notin Harmful
    BY <2>3 DEF Harmful
  <2> QED
    BY <1>1, <1>2, <2>2, <2>3, <2>4, PlainNext
<1> QED
  BY <1>3, <1>4, <1>5, <1>6, <1>7, <1>8

\* By a step into an entry of a directory.
LEMMA EntryNext ==
  ASSUME Typed, Typed', NEW p \in Proc, Under(p), ReaddirEntry(p)
  PROVE  stack[p] # <<>> /\ UNCHANGED main /\ Advances(p)
<1>1. PICK act \in Activation :
        /\ stack[p] # <<>> /\ UNCHANGED disk /\ UNCHANGED main
        /\ Sound(Len(file), act)
        /\ act.call = "readdir" /\ act.src = Top(p).src /\ act.dest = Top(p).dest
        /\ act.dir = Top(p).dir /\ Top(p).call = "readdir"
        /\ GoOn(p, act) \/ \E n \in Name : Enters(p, act, n)
  BY ReaddirEntryIs
<1>2. CASE GoOn(p, act)
  <2>1. act.call \notin Harmful /\ CopyingFile(act)'
    BY <1>1 DEF Harmful, CopyingFile
  <2>2. Copying(act)'
    BY <1>1, <2>1 DEF Copying
  <2>3. Continues(p, act)
    BY <1>1, <2>1, <2>2 DEF Continues, Carries
  <2> QED
    BY <1>1, <1>2, <2>3 DEF Advances
<1>3. CASE \E n \in Name : Enters(p, act, n)
  <2>1. PICK n \in Name : Enters(p, act, n)
    BY <1>3
  <2>2. Descends(p, act, n)
    BY <1>1, <2>1 DEF Descends
  <2> QED
    BY <1>1, <2>2 DEF Advances
<1> QED
  BY <1>1, <1>2, <1>3

-------------------------------------------------------------------------------
(***************************************************************************)
(* The copying of one file.                                                *)
(***************************************************************************)

\* The files nobody copies to, their inodes and what was in them.
LEMMA HomeIs ==
  ASSUME Typed
  PROVE  /\ \A q \in Home : /\ q \in Path /\ q \in DOMAIN setting.tree
                            /\ IsFile(setting.tree, q) /\ Outside(q)
                            /\ setting.tree[q].ino \in HomeInodes /\ HomeData(q) \in Seq(Nat)
         /\ \A f \in HomeInodes : f \in DOMAIN file /\ f \in Nat /\ f # 0 /\ f # Len(file) + 1
         /\ \A q \in DOMAIN setting.tree : IsFile(setting.tree, q) /\ Outside(q) => q \in Home
<1>1. /\ setting \in Settings /\ file \in Seq(Inode) /\ Len(setting.file) <= Len(file)
  BY DEF Typed, DiskTyped, ProgressTyped
<1>2. /\ Grown(setting.tree) /\ setting.file \in Seq(Inode)
      /\ \A q \in DOMAIN setting.tree :
           IsFile(setting.tree, q) => setting.tree[q].ino \in DOMAIN setting.file
  BY <1>1, SettingIs
<1>3. ASSUME NEW q \in Home
      PROVE  /\ q \in Path /\ q \in DOMAIN setting.tree
             /\ IsFile(setting.tree, q) /\ Outside(q)
             /\ setting.tree[q].ino \in HomeInodes /\ HomeData(q) \in Seq(Nat)
             /\ setting.tree[q].ino \in DOMAIN setting.file
  <2>1. q \in DOMAIN setting.tree /\ IsFile(setting.tree, q) /\ Outside(q) /\ setting.tree[q].ino \in HomeInodes
    BY DEF Home, HomeInodes
  <2>2. q \in Path /\ setting.tree[q].ino \in DOMAIN setting.file
    BY <1>2, <2>1 DEF Grown
  <2>3. setting.file[setting.tree[q].ino] \in Inode
    BY <1>2, <2>2
  <2> QED
    BY <2>1, <2>2, <2>3 DEF HomeData, Inode
<1>4. \A f \in HomeInodes : f \in DOMAIN setting.file
  BY <1>3 DEF HomeInodes
<1>5. \A f \in DOMAIN setting.file : f \in DOMAIN file /\ f \in Nat /\ f # 0 /\ f # Len(file) + 1
  BY <1>1, <1>2
<1> QED
  BY <1>3, <1>4, <1>5 DEF Home

\* The beginning stays what it was.
LEMMA HomeStays ==
  ASSUME setting' = setting
  PROVE  /\ HomeInodes' = HomeInodes /\ Home' = Home /\ \A x : HomeData(x)' = HomeData(x)
         /\ \A x : Outside(x)' <=> Outside(x)
<1>1. \A x : Outside(x)' <=> Outside(x)
  BY DEF Outside, Copies, Dest, cmd
<1> QED
  BY <1>1 DEF HomeInodes, Home, HomeData

\* Only who has two arguments has sources.
LEMMA AwayCopies ==
  ASSUME setting \in Settings, NEW p \in Proc, NEW i \in DOMAIN Sources(p)
  PROVE  Copies(p)
<1>1. cmd[p].args \in Seq(Path \ {<<>>})
  BY SettingIs DEF Command
<1> DEFINE a == cmd[p].args
<1> HIDE DEF a
<1>2. SUFFICES ASSUME ~(Len(a) >= 2) PROVE FALSE
  BY DEF Copies, a
<1>3. Front(a) = <<>>
  <2>1. a \in Seq(Path \ {<<>>}) /\ Len(a) \in Nat /\ Len(a) - 1 <= 0
    BY <1>1, <1>2 DEF a
  <2> QED
    BY <2>1 DEF Front
<1>4. i \in DOMAIN Front(a)
  BY DEF Sources, a
<1> QED
  BY <1>3, <1>4

\* What is at the source is what was there at first.
LEMMA SourceIs ==
  ASSUME Typed, Orderly, Placed, NEW p \in Proc, Under(p), stack[p] # <<>>,
         Exists(tree, Top(p).src)
  PROVE  /\ tree[Top(p).src] = setting.tree[Top(p).src]
         /\ Top(p).src \in Home <=> IsFile(tree, Top(p).src)
<1> DEFINE s == Top(p).src
<1>1. s \in Path /\ IsPrefix(s, s)
  BY TopPaths, PrefixElements DEF Path
<1>2. Outside(s)
  BY <1>1, TopApart
<1>3. s \in DOMAIN setting.tree /\ tree[s] = setting.tree[s]
  BY <1>2 DEF Placed, Exists
<1> QED
  BY <1>2, <1>3, HomeIs DEF IsFile, Exists

\* What a file of the beginning was moved to is not written to.
LEMMA NotHere ==
  ASSUME Typed, Orderly, Guests, NEW p \in Proc, Under(p), stack[p] # <<>>,
         Top(p).call \in Harmful, IsFile(tree, Top(p).dest)
  PROVE  tree[Top(p).dest].ino \notin HomeInodes
<1> SUFFICES ASSUME tree[Top(p).dest].ino \in HomeInodes PROVE FALSE
  OBVIOUS
<1> DEFINE d == Top(p).dest
<1>1. d \in Path /\ IsPrefix(d, d)
  BY TopPaths, PrefixElements DEF Path
<1>2. ~Outside(d) /\ IsPrefix(Dest(p), d) /\ Copies(p) /\ setting \in Settings
  BY <1>1, TopApart, TopPlace
<1>3. PICK r \in Proc : \E i \in DOMAIN Sources(r) : \E q \in Path :
        d = ImageOf(r, i, q) /\ Away(r, i, q)
  BY <1>2 DEF Guests, IsFile, Exists
<1>i. PICK i \in DOMAIN Sources(r) : \E q \in Path : d = ImageOf(r, i, q) /\ Away(r, i, q)
  BY <1>3
<1>q. PICK q \in Path : d = ImageOf(r, i, q) /\ Away(r, i, q)
  BY <1>i
<1>4. Copies(r)
  BY <1>2, AwayCopies
<1>5. IsPrefix(Dest(r), d)
  BY <1>2, <1>q, <1>4, ImageOfIs DEF Away
<1>6. r = p
  BY <1>1, <1>2, <1>4, <1>5, OneOwner
<1> QED
  BY <1>q, <1>6 DEF Away, Safe

\* By the opening of the place that is copied to.
LEMMA OpenDestNext ==
  ASSUME Typed, Typed', Orderly, Moving, NEW p \in Proc, OpenDest(p)
  PROVE  stack[p] # <<>> /\ UNCHANGED main /\ Advances(p)
<1> DEFINE d == Top(p).dest
           i == IF IsFile(tree, d) THEN tree[d].ino ELSE Len(file) + 1
<1>1. stack[p] # <<>> /\ UNCHANGED main /\ Top(p).call \in {"open_dest", "reopen_dest"}
  BY DEF OpenDest, Busy, Top
<1>2. Under(p) /\ Linkless(tree) /\ Guests /\ setting' = setting
  BY <1>1 DEF Moving, main
<1>3. Follow(tree, Top(p).dest) = d /\ Top(p) \in Activation
  BY <1>1, <1>2, TopStraight, TopIs DEF Typed
<1>4. /\ GoOn(p, [Top(p) EXCEPT !.call = "open_src", !.out = i])
      /\ file'[i].data = <<>>
      /\ IF IsFile(tree, d) THEN tree' = tree
         ELSE CanMake(tree, d) /\ tree' = With(tree, d, File(i))
  <2>1. GoOn(p, [Top(p) EXCEPT !.call = "open_src", !.out = i])
    BY <1>3 DEF OpenDest
  <2>2. IF IsFile(tree, d) THEN tree' = tree
        ELSE CanMake(tree, d) /\ tree' = With(tree, d, File(i))
    BY <1>3 DEF OpenDest, CanOpen
  <2>3. /\ IsFile(tree, d) => file' = Touched(file, i, <<>>)
        /\ ~IsFile(tree, d) => file' = Append(file, Fresh)
    BY <1>3 DEF OpenDest
  <2>f. file \in Seq(Inode) /\ Len(file) \in Nat /\ DOMAIN file = 1..Len(file)
    BY DEF Typed, DiskTyped
  <2>4. CASE IsFile(tree, d)
    <3>1. i \in DOMAIN file
      BY <2>4 DEF Typed, DiskTyped, IsFile, Exists
    <3> HIDE DEF i
    <3>e. <<>> \in Seq(Nat)
      OBVIOUS
    <3>2. Touched(file, i, <<>>)[i].data = <<>>
      BY <2>f, <3>1, <3>e, TouchedIs, Zenon
    <3> QED
      BY <2>1, <2>2, <2>3, <2>4, <3>2
  <2>5. CASE ~IsFile(tree, d)
    <3>1. i = Len(file) + 1 /\ file' = Append(file, Fresh)
      BY <2>3, <2>5
    <3> HIDE DEF i
    <3>2. file'[i] = Fresh
      BY <2>f, <3>1
    <3> QED
      BY <2>1, <2>2, <3>2 DEF Fresh
  <2> QED
    BY <2>4, <2>5
<1>5. PICK act : act = [Top(p) EXCEPT !.call = "open_src", !.out = i]
  OBVIOUS
<1> HIDE DEF i
<1>6. /\ act.call = "open_src" /\ act.src = Top(p).src /\ act.dest = d /\ act.out = i
      /\ act.pos = Top(p).pos /\ GoOn(p, act)
  BY <1>3, <1>4, <1>5 DEF Activation
<1>7. act \in Activation
  BY <1>1, <1>6, GoesOnTyped DEF Typed
<1>8. act.pos = 0
  <2>1. Copying(Top(p)) /\ Top(p).call \in Harmful \ {"read", "write"}
    BY <1>1, <1>2 DEF Under, Harmful
  <2> QED
    BY <1>6, <2>1 DEF Copying
<1>9. IsFile(tree', d) /\ tree'[d].ino = i
  <2>1. CASE IsFile(tree, d)
    BY <1>4, <2>1 DEF i
  <2>2. CASE ~IsFile(tree, d)
    BY <1>4, <2>2 DEF With, File, IsFile, Exists
  <2> QED
    BY <2>1, <2>2
<1>10. i \notin HomeInodes
  <2>1. CASE IsFile(tree, d)
    BY <1>1, <1>2, <2>1, NotHere DEF i, Harmful
  <2>2. CASE ~IsFile(tree, d)
    BY <2>2, HomeIs DEF i
  <2> QED
    BY <2>1, <2>2
<1>11. \A x : SubSeq(x, 1, 0) = <<>>
  OBVIOUS
<1>12. /\ HomeInodes' = HomeInodes /\ Home' = Home /\ \A x : HomeData(x)' = HomeData(x)
  BY <1>2, HomeStays
<1>13. Partly(act, 0)'
  BY <1>4, <1>6, <1>9, <1>10, <1>11, <1>12 DEF Partly
<1>14. Copying(act)'
  BY <1>6, <1>8, <1>13 DEF Copying, CopyingFile
<1>15. Continues(p, act)
  BY <1>1, <1>6, <1>14 DEF Continues, Carries, Harmful
<1> QED
  BY <1>1, <1>6, <1>7, <1>15 DEF Advances

\* A buffer more.
LEMMA StoredNext ==
  ASSUME NEW data \in Seq(Nat), NEW k \in 1..Len(data)
  PROVE  /\ Stored(SubSeq(data, 1, k - 1), k, data[k]) = SubSeq(data, 1, k)
         /\ SubSeq(data, 1, k) \in Seq(Nat)
<1> DEFINE s == SubSeq(data, 1, k - 1)
           t == SubSeq(data, 1, k)
           w == Stored(s, k, data[k])
<1>0. Len(data) \in Nat /\ k \in Nat /\ k >= 1 /\ k <= Len(data)
  OBVIOUS
<1>1. s \in Seq(Nat) /\ Len(s) = k - 1 /\ \A i \in 1..(k - 1) : s[i] = data[i]
  <2>1. k - 1 \in 0..Len(data)
    BY <1>0
  <2> QED
    BY <2>1, PartOfPath
<1>2. t \in Seq(Nat) /\ Len(t) = k /\ \A i \in 1..k : t[i] = data[i]
  BY <1>0
<1> HIDE DEF s, t
<1>3. w = [i \in 1..k |-> IF i = k THEN data[k] ELSE IF i \in DOMAIN s THEN s[i] ELSE Hole]
  <2>1. k > Len(s)
    BY <1>0, <1>1
  <2> QED
    BY <2>1 DEF Stored
<1>4. DOMAIN s = 1..(k - 1)
  BY <1>1
<1>5. data[k] \in Nat
  BY <1>0
<1>6. ASSUME NEW i \in 1..k
      PROVE  (IF i = k THEN data[k] ELSE IF i \in DOMAIN s THEN s[i] ELSE Hole) = t[i]
  <2>1. i # k => i \in 1..(k - 1)
    BY <1>0
  <2> QED
    BY <1>1, <1>2, <1>4, <2>1
<1>7. w = [i \in 1..k |-> t[i]]
  BY <1>3, <1>6
<1>8. t = [i \in 1..k |-> t[i]]
  BY <1>0, <1>2
<1> QED
  BY <1>2, <1>7, <1>8 DEF s, t

\* By the opening of the source.
LEMMA OpenSrcNext ==
  ASSUME Typed, Typed', Orderly, Moving, NEW p \in Proc, OpenSrc(p)
  PROVE  stack[p] # <<>> /\ UNCHANGED main /\ Advances(p)
<1> DEFINE s == Top(p).src
           i == Identity(tree, s).ino
<1>1. stack[p] # <<>> /\ UNCHANGED main /\ UNCHANGED disk /\ Top(p).call = "open_src"
  BY DEF OpenSrc, Busy, Top
<1>2. Under(p) /\ Linkless(tree) /\ Placed /\ setting' = setting /\ tree' = tree /\ file' = file
  BY <1>1 DEF Moving, main, disk
<1>3. Follow(tree, Top(p).src) = s /\ Top(p) \in Activation /\ Copying(Top(p))
  BY <1>1, <1>2, TopStraight, TopIs DEF Typed, Under
<1>4. Exists(tree, s) /\ GoOn(p, [Top(p) EXCEPT !.call = "read", !.in = i])
  BY <1>3 DEF OpenSrc
<1>5. PICK act : act = [Top(p) EXCEPT !.call = "read", !.in = i]
  OBVIOUS
<1>6. tree[s] = setting.tree[s] /\ (s \in Home <=> IsFile(tree, s))
  BY <1>1, <1>2, <1>4, SourceIs
<1> HIDE DEF i
<1>7. /\ act.call = "read" /\ act.src = Top(p).src /\ act.dest = Top(p).dest /\ act.in = i
      /\ act.out = Top(p).out /\ act.pos = Top(p).pos /\ GoOn(p, act)
  BY <1>3, <1>4, <1>5 DEF Activation
<1>8. act \in Activation
  BY <1>1, <1>7, GoesOnTyped DEF Typed
<1>9. act.pos = 0
  BY <1>1, <1>3, <1>7 DEF Copying, Harmful
<1>10. /\ HomeInodes' = HomeInodes /\ Home' = Home /\ \A x : HomeData(x)' = HomeData(x)
  BY <1>2, HomeStays
<1>11. CASE s \in Home
  <2>1. i = setting.tree[s].ino
    BY <1>6, <1>11 DEF i, Identity
  <2>2. Partly(Top(p), 0)
    BY <1>1, <1>3, <1>11 DEF Copying, CopyingFile
  <2>3. Partly(act, 0)'
    BY <1>2, <1>7, <1>10, <2>2 DEF Partly
  <2>4. 0 \in 0..Len(HomeData(s))
    <3>1. HomeData(s) \in Seq(Nat)
      BY <1>11, HomeIs
    <3> QED
      BY <3>1
  <2>5. CopyingFile(act)'
    BY <1>2, <1>7, <1>9, <1>10, <2>1, <2>3, <2>4 DEF CopyingFile
  <2>6. Copying(act)'
    BY <1>7, <1>10, <1>11, <2>5 DEF Copying
  <2>7. Continues(p, act)
    BY <1>1, <1>7, <2>6 DEF Continues, Carries, Harmful
  <2> QED
    BY <1>1, <1>7, <1>8, <2>7 DEF Advances
<1>12. CASE s \notin Home
  <2>1. i = 0
    BY <1>6, <1>12 DEF i, Identity
  <2>2. Copying(act)'
    BY <1>7, <1>10, <1>12, <2>1 DEF Copying
  <2>3. Continues(p, act)
    BY <1>1, <1>7, <2>2 DEF Continues, Carries, Harmful
  <2> QED
    BY <1>1, <1>7, <1>8, <2>3 DEF Advances
<1> QED
  BY <1>11, <1>12

\* By the reading of a buffer.
LEMMA ReadNext ==
  ASSUME Typed, Typed', Orderly, Moving, NEW p \in Proc, Read(p)
  PROVE  stack[p] # <<>> /\ UNCHANGED main /\ Advances(p)
<1> DEFINE s == Top(p).src
           b == file[Top(p).in].data[Top(p).pos + 1]
<1>1. /\ stack[p] # <<>> /\ UNCHANGED main /\ UNCHANGED disk /\ Top(p).call = "read"
      /\ Top(p).in # 0 /\ Top(p).pos < Len(file[Top(p).in].data)
      /\ GoOn(p, [Top(p) EXCEPT !.call = "write", !.pos = @ + 1, !.buf = b])
  BY DEF Read, Busy, Top
<1>2. /\ Under(p) /\ Linkless(tree) /\ Unwritten /\ setting' = setting
      /\ tree' = tree /\ file' = file
  BY <1>1 DEF Moving, main, disk
<1>3. Top(p) \in Activation /\ Copying(Top(p))
  BY <1>1, <1>2, TopIs DEF Typed, Under
<1>4. /\ s \in Home /\ Top(p).in = setting.tree[s].ino
      /\ Top(p).pos \in 0..Len(HomeData(s)) /\ Partly(Top(p), Top(p).pos)
  BY <1>1, <1>3 DEF Copying, CopyingFile
<1>5. file[Top(p).in].data = HomeData(s)
  BY <1>2, <1>4, HomeIs DEF Unwritten, HomeData
<1>6. PICK act : act = [Top(p) EXCEPT !.call = "write", !.pos = @ + 1, !.buf = b]
  OBVIOUS
<1>7. b = HomeData(s)[Top(p).pos + 1]
  BY <1>5
<1> HIDE DEF b
<1>8. /\ act.call = "write" /\ act.src = Top(p).src /\ act.dest = Top(p).dest
      /\ act.in = Top(p).in /\ act.out = Top(p).out /\ act.pos = Top(p).pos + 1 /\ act.buf = b
      /\ GoOn(p, act)
  BY <1>1, <1>3, <1>6 DEF Activation
<1>9. act \in Activation
  BY <1>1, <1>8, GoesOnTyped DEF Typed
<1>10. /\ HomeInodes' = HomeInodes /\ Home' = Home /\ \A x : HomeData(x)' = HomeData(x)
  BY <1>2, HomeStays
<1>11. act.pos \in 1..Len(HomeData(s)) /\ act.pos - 1 = Top(p).pos
  <2>1. HomeData(s) \in Seq(Nat)
    BY <1>4, HomeIs
  <2>2. Top(p).pos < Len(HomeData(s)) /\ Top(p).pos \in Nat /\ Len(HomeData(s)) \in Nat
    BY <1>1, <1>4, <1>5, <2>1
  <2> QED
    BY <1>8, <2>2
<1>12. Partly(act, act.pos - 1)'
  BY <1>2, <1>4, <1>8, <1>10, <1>11 DEF Partly
<1>13. CopyingFile(act)'
  BY <1>2, <1>4, <1>7, <1>8, <1>10, <1>11, <1>12 DEF CopyingFile
<1>14. Copying(act)'
  BY <1>4, <1>8, <1>10, <1>13 DEF Copying
<1>15. Continues(p, act)
  BY <1>1, <1>8, <1>14 DEF Continues, Carries, Harmful
<1> QED
  BY <1>1, <1>8, <1>9, <1>15 DEF Advances

\* By the writing of a buffer.
LEMMA WriteNext ==
  ASSUME Typed, Typed', Orderly, Moving, NEW p \in Proc, Write(p), Smooth(p)
  PROVE  stack[p] # <<>> /\ UNCHANGED main /\ Advances(p)
<1> DEFINE s == Top(p).src
<1>1. /\ stack[p] # <<>> /\ UNCHANGED main /\ tree' = tree /\ Top(p).call = "write"
      /\ To(p, "read")
  BY DEF Write, Busy, Top, main
<1>2. Under(p) /\ setting' = setting
  BY <1>1 DEF Moving, main
<1>3. /\ Top(p) \in Activation /\ Copying(Top(p)) /\ Top(p).out \in DOMAIN file
      /\ file \in Seq(Inode)
  <2>1. Sound(Len(file), Top(p)) /\ file \in Seq(Inode)
    BY <1>1, TopIs DEF Typed, DiskTyped
  <2> QED
    BY <1>1, <1>2, <2>1, TopIs DEF Typed, Under, Sound
<1>4. /\ s \in Home /\ Top(p).in = setting.tree[s].ino
      /\ Top(p).pos \in 1..Len(HomeData(s)) /\ Top(p).buf = HomeData(s)[Top(p).pos]
      /\ Partly(Top(p), Top(p).pos - 1)
  BY <1>1, <1>3 DEF Copying, CopyingFile
<1>5. file' = Written(p, Top(p).buf)
  <2>1. ~Refused("short")
    BY DEF Smooth, Never, Refused
  <2> QED
    BY <2>1 DEF Write
<1> DEFINE data == HomeData(s)
           k == Top(p).pos
<1>6. data \in Seq(Nat)
  BY <1>4, HomeIs
<1>7. file' = Touched(file, Top(p).out, SubSeq(data, 1, k)) /\ SubSeq(data, 1, k) \in Seq(Nat)
  <2>1. file[Top(p).out].data = SubSeq(data, 1, k - 1)
    BY <1>4 DEF Partly
  <2>2. k \in 1..Len(data) /\ Top(p).buf = data[k]
    BY <1>4
  <2> HIDE DEF data, k
  <2>3. Stored(SubSeq(data, 1, k - 1), k, data[k]) = SubSeq(data, 1, k) /\ SubSeq(data, 1, k) \in Seq(Nat)
    BY <1>6, <2>2, StoredNext
  <2> QED
    BY <1>5, <2>1, <2>2, <2>3 DEF Written, k
<1>8. file'[Top(p).out].data = SubSeq(data, 1, k)
  <2> HIDE DEF data, k
  <2> QED
    BY <1>3, <1>7, TouchedIs
<1>9. PICK act : act = [Top(p) EXCEPT !.call = "read"]
  OBVIOUS
<1>10. /\ act.call = "read" /\ act.src = Top(p).src /\ act.dest = Top(p).dest
       /\ act.in = Top(p).in /\ act.out = Top(p).out /\ act.pos = Top(p).pos /\ GoOn(p, act)
  BY <1>1, <1>3, <1>9 DEF Activation, To
<1>11. act \in Activation
  BY <1>1, <1>10, GoesOnTyped DEF Typed
<1>12. /\ HomeInodes' = HomeInodes /\ Home' = Home /\ \A x : HomeData(x)' = HomeData(x)
  BY <1>2, HomeStays
<1>13. Partly(act, act.pos)'
  BY <1>1, <1>4, <1>8, <1>10, <1>12 DEF Partly
<1>14. act.pos \in 0..Len(HomeData(s))
  BY <1>4, <1>10
<1>15. CopyingFile(act)'
  BY <1>2, <1>4, <1>10, <1>12, <1>13, <1>14 DEF CopyingFile
<1>16. Copying(act)'
  BY <1>4, <1>10, <1>12, <1>15 DEF Copying
<1>17. Continues(p, act)
  BY <1>1, <1>10, <1>16 DEF Continues, Carries, Harmful
<1> QED
  BY <1>1, <1>10, <1>11, <1>17 DEF Advances

\* By the end of the copying.
LEMMA CloseNext ==
  ASSUME Typed, Typed', Orderly, Moving, NEW p \in Proc, Smooth(p),
         ReadEof(p) \/ ReadFails(p) \/ WriteFails(p)
  PROVE  stack[p] # <<>> /\ UNCHANGED main /\ Advances(p)
<1> DEFINE s == Top(p).src
<1>1. /\ stack[p] # <<>> /\ UNCHANGED main /\ UNCHANGED disk /\ Close(p)
  BY DEF ReadEof, ReadFails, WriteFails, Busy
<1>2. /\ Under(p) /\ Unwritten /\ setting' = setting /\ tree' = tree /\ file' = file
  BY <1>1 DEF Moving, main, disk
<1>3. Top(p) \in Activation /\ Copying(Top(p))
  BY <1>1, <1>2, TopIs DEF Typed, Under
<1>5. Top(p).call = "read" /\ (Top(p).in = 0 \/ Top(p).pos >= Len(file[Top(p).in].data))
  BY DEF Smooth, ReadEof, ReadFails, WriteFails, Busy, Top
<1>6. s \in Home => /\ IsFile(tree, Top(p).dest)
                    /\ file[tree[Top(p).dest].ino].data = HomeData(s)
  <2> SUFFICES ASSUME s \in Home
               PROVE  /\ IsFile(tree, Top(p).dest)
                      /\ file[tree[Top(p).dest].ino].data = HomeData(s)
    OBVIOUS
  <2>1. /\ Top(p).in = setting.tree[s].ino /\ Top(p).pos \in 0..Len(HomeData(s))
        /\ Partly(Top(p), Top(p).pos)
    BY <1>3, <1>5 DEF Copying, CopyingFile
  <2>2. Top(p).in # 0 /\ file[Top(p).in].data = HomeData(s) /\ HomeData(s) \in Seq(Nat)
    BY <1>2, <2>1, HomeIs DEF Unwritten, HomeData
  <2>3. Top(p).pos = Len(HomeData(s))
    BY <1>5, <2>1, <2>2
  <2>4. SubSeq(HomeData(s), 1, Len(HomeData(s))) = HomeData(s)
    BY <2>2, SubSeqFull
  <2> QED
    BY <2>1, <2>3, <2>4 DEF Partly
<1>7. CASE Finish(p)
  BY <1>1, <1>2, <1>7, FinishNext
<1>8. CASE To(p, "unlink_src")
  <2>1. PICK act : act = [Top(p) EXCEPT !.call = "unlink_src"]
    OBVIOUS
  <2>2. /\ act.call = "unlink_src" /\ act.src = Top(p).src /\ act.dest = Top(p).dest /\ GoOn(p, act)
    BY <1>3, <1>8, <2>1 DEF Activation, To
  <2>3. act \in Activation
    BY <1>1, <2>2, GoesOnTyped DEF Typed
  <2>4. /\ HomeInodes' = HomeInodes /\ Home' = Home /\ \A x : HomeData(x)' = HomeData(x)
    BY <1>2, HomeStays
  <2>5. act.src \in Home => CopyingFile(act)'
    BY <1>2, <1>6, <2>2, <2>4 DEF CopyingFile
  <2>6. act.call \notin Harmful
    BY <2>2 DEF Harmful
  <2>7. Copying(act)'
    BY <2>2, <2>4, <2>5, <2>6 DEF Copying
  <2>8. Continues(p, act)
    BY <2>2, <2>6, <2>7 DEF Continues, Carries
  <2> QED
    BY <1>1, <2>2, <2>3, <2>8 DEF Advances
<1> QED
  BY <1>1, <1>7, <1>8 DEF Close

\* By every step.
LEMMA StepNext ==
  ASSUME Typed, Typed', Orderly, Moving, NEW p \in Proc, Step(p), Smooth(p), stack[p] # <<>>
  PROVE  UNCHANGED main /\ Advances(p)
<1>1. Linkless(tree) /\ Under(p)
  BY DEF Moving
<1>2. CASE \/ Usage(p) \/ Guess(p) \/ Check(p) \/ CheckFails(p) \/ NextSource(p) \/ Exit(p)
  <2>1. at[p] = "loop"
    BY DEF Typed, ProgressTyped
  <2> QED
    BY <1>2, <2>1 DEF Usage, Guess, Check, CheckFails, NextSource, Exit
<1>3. CASE \/ StatSrc(p) \/ StatSrcFails(p) \/ StatDestMissing(p) \/ StatDestExists(p)
           \/ StatDestClashes(p) \/ PromptYes(p) \/ PromptNo(p) \/ RenameFails(p)
           \/ Opendir(p) \/ OpendirFails(p) \/ ReaddirEnd(p) \/ OpenDestForced(p)
           \/ OpenDestFails(p) \/ OpenSrcFails(p) \/ RenameDone(p) \/ Mkdir(p) \/ RmdirSrc(p)
           \/ UnlinkDest(p) \/ UnlinkSrc(p) \/ PreserveMeta(p)
  BY <1>1, <1>3, PlainStepNext
<1>4. CASE ReaddirEntry(p)
  BY <1>1, <1>4, EntryNext
<1>5. CASE OpenDest(p)
  BY <1>5, OpenDestNext
<1>6. CASE OpenSrc(p)
  BY <1>6, OpenSrcNext
<1>7. CASE Read(p)
  BY <1>7, ReadNext
<1>8. CASE Write(p)
  BY <1>8, WriteNext
<1>9. CASE ReadEof(p) \/ ReadFails(p) \/ WriteFails(p)
  BY <1>9, CloseNext
<1> QED
  BY <1>2, <1>3, <1>4, <1>5, <1>6, <1>7, <1>8, <1>9, Zenon DEF Step

-------------------------------------------------------------------------------
(***************************************************************************)
(* Every activation stays on its way.                                      *)
(***************************************************************************)

\* The command line and what DESTINATION is taken for stay.
LEMMA NamesStay ==
  ASSUME setting' = setting, NEW p \in Proc, target'[p] = target[p]
  PROVE  /\ Sources(p)' = Sources(p) /\ Dest(p)' = Dest(p) /\ (Copies(p)' <=> Copies(p))
         /\ Len(cmd[p].args)' = Len(cmd[p].args)
         /\ \A i, q : ImageOf(p, i, q)' = ImageOf(p, i, q)
<1>1. /\ Sources(p)' = Sources(p) /\ Dest(p)' = Dest(p) /\ (Copies(p)' <=> Copies(p))
      /\ Len(cmd[p].args)' = Len(cmd[p].args)
  BY DEF Sources, Dest, Copies, cmd
<1>2. \A i, q : ImageOf(p, i, q)' = ImageOf(p, i, q)
  BY <1>1 DEF ImageOf, Image
<1> QED
  BY <1>1, <1>2

\* Of the activations only those of p change, and they are as they should be.
LEMMA UnderAgain ==
  ASSUME Typed, NEW p \in Proc, stack[p] # <<>>, Under(p), UNCHANGED main,
         \A k \in DOMAIN stack'[p] : /\ OnWay(p, stack'[p][k])
                                     /\ k # Len(stack'[p]) => stack'[p][k].call = "readdir",
         stack'[p] # <<>> => Copying(Top(p))'
  PROVE  Under(p)'
<1>1. setting' = setting /\ at' = at /\ target' = target /\ operand' = operand
  BY DEF main
<1>2. at[p] = "loop"
  BY DEF Typed, ProgressTyped
<1>3. ASSUME NEW k \in DOMAIN stack'[p] PROVE OnWay(p, stack[p][k])'
  <2>1. OnWay(p, stack'[p][k])
    OBVIOUS
  <2>2. PICK act : act = stack'[p][k]
    OBVIOUS
  <2>3. OnWay(p, act)
    BY <2>1, <2>2
  <2>4. OnWay(p, act)'
    BY <1>1, <2>3, NamesStay DEF OnWay
  <2> QED
    BY <2>2, <2>4 DEF OnWay
<1>4. (at[p] = "loop" /\ target[p] = "file" => Len(cmd[p].args) = 2)'
  BY <1>1, NamesStay DEF Under
<1>5. (operand[p] <= Len(Sources(p)))'
  BY <1>1, NamesStay DEF Under
<1> QED
  BY <1>3, <1>4, <1>5 DEF Under

\* After a return p is reading a directory again.
LEMMA ReturnUnder ==
  ASSUME Typed, NEW p \in Proc, stack[p] # <<>>, Under(p), UNCHANGED main, Return(p)
  PROVE  /\ Under(p)'
         /\ stack'[p] # <<>> => Last(stack'[p]).call = "readdir"
<1>1. /\ \A k \in DOMAIN stack'[p] : k \in DOMAIN stack[p] /\ k # Len(stack[p])
                                     /\ stack'[p][k] = stack[p][k]
      /\ stack'[p] # <<>> => Len(stack'[p]) \in DOMAIN stack'[p]
                             /\ Last(stack'[p]) = stack'[p][Len(stack'[p])]
  BY Returning DEF Typed
<1>2. \A k \in DOMAIN stack'[p] : OnWay(p, stack'[p][k]) /\ stack'[p][k].call = "readdir"
  BY <1>1 DEF Under
<1>3. stack'[p] # <<>> => Last(stack'[p]).call = "readdir"
  BY <1>1, <1>2
<1>4. ASSUME stack'[p] # <<>> PROVE Copying(Top(p))'
  <2>1. PICK act : act = Last(stack'[p])
    OBVIOUS
  <2>2. act.call = "readdir" /\ Top(p)' = act
    BY <1>3, <1>4, <2>1 DEF Top
  <2>3. Copying(act)'
    BY <2>2 DEF Copying, CopyingFile, Harmful
  <2> QED
    BY <2>2, <2>3
<1> QED
  BY <1>2, <1>3, <1>4, UnderAgain

\* The innermost activation goes on with another call.
LEMMA GoOnUnder ==
  ASSUME Typed, NEW p \in Proc, stack[p] # <<>>, Under(p), UNCHANGED main,
         NEW act \in Activation, GoOn(p, act), Continues(p, act)
  PROVE  Under(p)' /\ stack'[p] # <<>> /\ Last(stack'[p]) = act
<1>1. /\ Len(stack'[p]) = Len(stack[p]) /\ DOMAIN stack'[p] = DOMAIN stack[p]
      /\ \A k \in DOMAIN stack[p] :
           stack'[p][k] = IF k = Len(stack[p]) THEN act ELSE stack[p][k]
      /\ stack'[p] # <<>> /\ Last(stack'[p]) = act
  BY GoingOn DEF Typed
<1>2. OnWay(p, act)
  <2>1. OnWay(p, Top(p))
    BY TopIs DEF Under, Typed
  <2> QED
    BY <2>1 DEF OnWay, Continues, Carries
<1>3. \A k \in DOMAIN stack'[p] : /\ OnWay(p, stack'[p][k])
                                  /\ k # Len(stack'[p]) => stack'[p][k].call = "readdir"
  BY <1>1, <1>2 DEF Under
<1>4. Copying(Top(p))'
  <2>1. Top(p)' = act
    BY <1>1 DEF Top
  <2> QED
    BY <2>1 DEF Continues, Carries
<1> QED
  BY <1>1, <1>3, <1>4, UnderAgain

\* A directory is entered: the copy of an entry of it begins.
LEMMA DescendUnder ==
  ASSUME Typed, NEW p \in Proc, stack[p] # <<>>, Under(p), UNCHANGED main,
         NEW act, NEW n, Descends(p, act, n)
  PROVE  Under(p)' /\ stack'[p] # <<>> /\ Last(stack'[p]).call = "stat_src"
<1> DEFINE s == Append(Top(p).src, n)
           d == Append(Top(p).dest, n)
           new == Copy(s, d)
<1>1. /\ DOMAIN stack'[p] = DOMAIN stack[p] \cup {Len(stack'[p])}
      /\ \A k \in DOMAIN stack[p] :
           stack'[p][k] = IF k = Len(stack[p]) THEN act ELSE stack[p][k]
      /\ stack'[p][Len(stack'[p])] = new
      /\ stack'[p] # <<>> /\ Last(stack'[p]) = stack'[p][Len(stack'[p])]
      /\ act.call = "readdir" /\ act.src = Top(p).src /\ act.dest = Top(p).dest /\ n \in Name
  BY DEF Descends, Enters
<1>2. OnWay(p, Top(p))
  BY TopIs DEF Under, Typed
<1>3. OnWay(p, act)
  BY <1>1, <1>2 DEF OnWay
<1>4. /\ setting \in Settings /\ Copies(p) /\ operand[p] \in DOMAIN Sources(p)
      /\ Top(p).src \in Path /\ Top(p).dest \in Path
  BY TopPlace
<1>5. /\ s \in Path /\ IsPrefix(Sources(p)[operand[p]], s)
      /\ ImageOf(p, operand[p], s) = d
  BY <1>1, <1>2, <1>4, ImageFurther DEF OnWay
<1>6. d \in Path
  BY <1>1, <1>4 DEF Path
<1> HIDE DEF s, d
<1>7. /\ new.call = "stat_src" /\ new.src = s /\ new.dest = d /\ new.pos = 0
  BY <1>5, <1>6, CopyIs DEF Copy
<1> HIDE DEF new
<1>8. OnWay(p, new)
  BY <1>5, <1>7 DEF OnWay
<1>9. \A k \in DOMAIN stack'[p] : /\ OnWay(p, stack'[p][k])
                                  /\ k # Len(stack'[p]) => stack'[p][k].call = "readdir"
  BY <1>1, <1>3, <1>8 DEF Under
<1>10. Copying(Top(p))'
  <2>1. PICK b : b = new
    OBVIOUS
  <2>2. Top(p)' = b
    BY <1>1, <2>1 DEF Top
  <2>3. Copying(b)'
    BY <1>7, <2>1 DEF Copying, CopyingFile
  <2> QED
    BY <2>2, <2>3
<1>11. Under(p)'
  BY <1>9, <1>10, UnderAgain
<1> QED
  BY <1>1, <1>7, <1>11

\* Where the innermost activation is after a step.
LEMMA StepUnder ==
  ASSUME Typed, Typed', Orderly, Moving, NEW p \in Proc, Step(p), Smooth(p), stack[p] # <<>>
  PROVE  /\ UNCHANGED main /\ Under(p)'
         /\ \A r \in Proc \ {p} : stack'[r] = stack[r]
         /\ stack'[p] # <<>> => \/ Last(stack'[p]).call \in {"readdir", "stat_src"}
                                \/ Carries(p, Last(stack'[p]))
<1>1. UNCHANGED main /\ Advances(p) /\ Under(p) /\ StacksTyped
  BY StepNext DEF Moving, Typed
<1>2. CASE Return(p)
  BY <1>1, <1>2, ReturnUnder, Returning
<1>3. CASE \E act \in Activation : GoOn(p, act) /\ Continues(p, act)
  <2>1. PICK act \in Activation : GoOn(p, act) /\ Continues(p, act)
    BY <1>3
  <2>2. Under(p)' /\ Last(stack'[p]) = act
    BY <1>1, <2>1, GoOnUnder
  <2>3. \A r \in Proc \ {p} : stack'[r] = stack[r]
    BY <1>1, <2>1, GoingOn
  <2> QED
    BY <1>1, <2>1, <2>2, <2>3 DEF Continues
<1>4. CASE \E act : \E n : Descends(p, act, n)
  <2>1. PICK act, n : Descends(p, act, n)
    BY <1>4
  <2>2. Under(p)' /\ Last(stack'[p]).call = "stat_src"
    BY <1>1, <2>1, DescendUnder
  <2>3. \A r \in Proc \ {p} : stack'[r] = stack[r]
    BY <2>1 DEF Descends, Enters
  <2> QED
    BY <1>1, <2>2, <2>3
<1> QED
  BY <1>1, <1>2, <1>3, <1>4 DEF Advances

\* By the steps of cp_main.
LEMMA MainStepUnder ==
  ASSUME Typed, NEW p \in Proc, stack[p] = <<>>, Under(p), Step(p)
  PROVE  /\ setting' = setting /\ UNCHANGED disk /\ Under(p)'
         /\ \A r \in Proc : /\ operand'[r] \in Nat /\ operand'[r] >= operand[r]
                            /\ operand[r] >= 1 => target'[r] = target[r]
         /\ \A r \in Proc \ {p} : /\ at'[r] = at[r] /\ target'[r] = target[r]
                                  /\ operand'[r] = operand[r] /\ stack'[r] = stack[r]
         /\ stack'[p] # <<>> => Last(stack'[p]).call = "stat_src"
<1>1. /\ setting \in Settings /\ stack \in [Proc -> Seq(Activation)]
      /\ at \in [Proc -> {"guess", "check", "loop", "exited"}]
      /\ target \in [Proc -> {"unset", "dir", "file"}] /\ operand \in [Proc -> Nat]
      /\ \A r \in Proc : /\ at[r] \in {"check", "loop"} => Len(cmd[r].args) >= 2
                         /\ at[r] = "guess" => operand[r] = 0
  BY DEF Typed, ProgressTyped, StacksTyped
<1>2. at[p] = "loop" /\ target[p] = "file" => Len(cmd[p].args) = 2
  BY DEF Under
<1>a. \A r \in Proc : operand[r] \in Nat /\ operand[r] >= operand[r]
  BY <1>1
<1>3. CASE Usage(p) \/ CheckFails(p) \/ Exit(p)
  <2>1. UNCHANGED <<tree, file, setting, target, operand, stack>> /\ at' = [at EXCEPT ![p] = "exited"]
    BY <1>3 DEF Usage, CheckFails, Quit, Exit
  <2>2. at'[p] = "exited" /\ \A r \in Proc \ {p} : at'[r] = at[r]
    BY <1>1, <2>1
  <2>3. Under(p)'
    BY <2>1, <2>2 DEF Under
  <2> QED
    BY <1>a, <2>1, <2>2, <2>3 DEF disk
<1>4. CASE Guess(p)
  <2>1. /\ UNCHANGED <<tree, file, setting, operand, stack>> /\ at' = [at EXCEPT ![p] = "check"]
        /\ at[p] = "guess" /\ \E x : target' = [target EXCEPT ![p] = x]
    BY <1>4 DEF Guess
  <2>2. /\ at'[p] = "check" /\ operand[p] = 0
        /\ \A r \in Proc \ {p} : at'[r] = at[r] /\ target'[r] = target[r]
    BY <1>1, <2>1
  <2>3. Under(p)'
    BY <2>1, <2>2 DEF Under
  <2> QED
    BY <1>a, <2>1, <2>2, <2>3 DEF disk
<1>5. CASE Check(p)
  <2>1. /\ UNCHANGED <<tree, file, setting, target, operand, stack>> /\ at' = [at EXCEPT ![p] = "loop"]
        /\ Agrees(p)
    BY <1>5 DEF Check
  <2>2. at'[p] = "loop" /\ \A r \in Proc \ {p} : at'[r] = at[r]
    BY <1>1, <2>1
  <2>3. target[p] = "file" => Len(cmd[p].args) = 2
    BY <2>1 DEF Agrees
  <2>4. Under(p)'
    BY <2>1, <2>2, <2>3 DEF Under, cmd
  <2> QED
    BY <1>a, <2>1, <2>2, <2>4 DEF disk
<1>6. CASE NextSource(p)
  <2> DEFINE i == operand[p] + 1
             s == Sources(p)[i]
             new == Copy(s, Image(p, i))
  <2>1. /\ UNCHANGED <<tree, file, setting, at, target>> /\ at[p] = "loop"
        /\ operand[p] < Len(Sources(p)) /\ operand' = [operand EXCEPT ![p] = i]
        /\ stack' = [stack EXCEPT ![p] = <<new>>]
    BY <1>6 DEF NextSource
  <2>2. Len(cmd[p].args) >= 2 /\ Sources(p) \in Seq(Path) /\ operand[p] \in Nat
    BY <1>1, <2>1, ArgumentsAre
  <2>3. i \in DOMAIN Sources(p) /\ i <= Len(Sources(p)) /\ i \in Nat /\ i >= operand[p]
    BY <2>1, <2>2
  <2>4. /\ operand'[p] = i /\ stack'[p] = <<new>>
        /\ \A r \in Proc \ {p} : operand'[r] = operand[r] /\ stack'[r] = stack[r]
    BY <1>1, <2>1
  <2> HIDE DEF i
  <2>5. s \in Path /\ Image(p, i) \in Path
    BY <1>1, <2>2, <2>3, ArgumentsAre, ImageIsPath
  <2>6. IsPrefix(s, s) /\ ImageOf(p, i, s) = Image(p, i)
    <3>1. s \in Seq(Name) /\ Image(p, i) \in Seq(Name)
      BY <2>5 DEF Path
    <3>2. IsPrefix(s, s)
      BY <3>1, PrefixElements
    <3>3. Swap(s, s, Image(p, i)) = Image(p, i)
      BY <3>1, <3>2, SwapIs
    <3> QED
      BY <3>2, <3>3 DEF ImageOf, Swap
  <2>7. new.call = "stat_src" /\ new.src = s /\ new.dest = Image(p, i) /\ new.pos = 0
    BY <2>5, CopyIs DEF Copy
  <2> HIDE DEF new, s
  <2>8. PICK b : b = new
    OBVIOUS
  <2>9. \A k \in DOMAIN stack'[p] : k = Len(stack'[p]) /\ stack'[p][k] = b
    BY <2>4, <2>8
  <2>10. Last(stack'[p]) = b
    BY <2>4, <2>8 DEF Last
  <2>11. Copying(b)'
    BY <2>7, <2>8 DEF Copying, CopyingFile
  <2>12. OnWay(p, b)'
    <3>1. Sources(p)' = Sources(p) /\ \A j, q : ImageOf(p, j, q)' = ImageOf(p, j, q)
      BY <2>1, NamesStay
    <3>2. PICK j : j = i
      OBVIOUS
    <3>3. /\ b.dest = ImageOf(p, j, b.src) /\ IsPrefix(Sources(p)[j], b.src)
          /\ operand'[p] = j
      BY <2>4, <2>6, <2>7, <2>8, <3>2 DEF s
    <3>4. ImageOf(p, j, b.src)' = ImageOf(p, j, b.src)
      BY <3>1
    <3> QED
      BY <3>1, <3>3, <3>4 DEF OnWay
  <2>13. operand'[p] <= Len(Sources(p)') /\ (at'[p] = "loop" /\ target'[p] = "file" => Len(cmd[p].args)' = 2)
    BY <1>2, <2>1, <2>3, <2>4, NamesStay
  <2>14. \A k \in DOMAIN stack'[p] : OnWay(p, stack[p][k])'
    BY <2>9, <2>12 DEF OnWay
  <2>15. Copying(Top(p))'
    BY <2>10, <2>11 DEF Top
  <2>16. Under(p)'
    BY <2>9, <2>13, <2>14, <2>15 DEF Under
  <2> QED
    BY <1>a, <2>1, <2>3, <2>4, <2>7, <2>8, <2>10, <2>16 DEF disk
<1> QED
  <2>1. \/ Usage(p) \/ Guess(p) \/ Check(p) \/ CheckFails(p) \/ NextSource(p) \/ Exit(p)
    <3>1. CASE \/ StatSrc(p) \/ StatSrcFails(p) \/ StatDestMissing(p) \/ StatDestExists(p)
               \/ StatDestClashes(p) \/ PromptYes(p) \/ PromptNo(p) \/ RenameFails(p)
               \/ Opendir(p) \/ OpendirFails(p) \/ ReaddirEntry(p) \/ ReaddirEnd(p)
               \/ OpenDestForced(p) \/ OpenDestFails(p) \/ OpenSrc(p) \/ OpenSrcFails(p)
               \/ Read(p) \/ ReadEof(p) \/ ReadFails(p) \/ Write(p) \/ WriteFails(p)
               \/ RenameDone(p) \/ Mkdir(p) \/ RmdirSrc(p) \/ OpenDest(p) \/ UnlinkDest(p)
               \/ UnlinkSrc(p) \/ PreserveMeta(p)
      <4>1. FALSE
        BY <3>1 DEF StatSrc, StatSrcFails, StatDestMissing, StatDestExists, StatDestClashes, PromptYes,
           PromptNo, RenameFails, Opendir, OpendirFails, ReaddirEnd, OpenDestForced,
           OpenDestFails, OpenSrc, OpenSrcFails, Read, ReadEof, ReadFails, WriteFails,
           ReaddirEntry, Write, PreserveMeta, RenameDone, Mkdir, RmdirSrc, OpenDest, UnlinkDest,
           UnlinkSrc, Busy
      <4> QED
        BY <4>1
    <3> QED
      BY <3>1, Zenon DEF Step
  <2> QED
    BY <1>3, <1>4, <1>5, <1>6, <2>1

-------------------------------------------------------------------------------
(***************************************************************************)
(* What has arrived stays.                                                 *)
(***************************************************************************)

\* What a step does to the processes.
LEMMA StepEffect ==
  ASSUME Typed, Typed', Orderly, Moving, NEW p \in Proc, Step(p), Smooth(p)
  PROVE  /\ setting' = setting /\ Under(p)'
         /\ \A r \in Proc : /\ operand'[r] \in Nat /\ operand'[r] >= operand[r]
                            /\ operand[r] >= 1 => target'[r] = target[r]
         /\ \A r \in Proc \ {p} : /\ at'[r] = at[r] /\ target'[r] = target[r]
                                  /\ operand'[r] = operand[r] /\ stack'[r] = stack[r]
         /\ stack'[p] # <<>> => \/ Last(stack'[p]).call \in {"readdir", "stat_src"}
                                \/ stack[p] # <<>> /\ Carries(p, Last(stack'[p]))
<1>1. Under(p)
  BY DEF Moving
<1>2. CASE stack[p] = <<>>
  BY <1>1, <1>2, MainStepUnder
<1>3. CASE stack[p] # <<>>
  <2>1. operand \in [Proc -> Nat]
    BY DEF Typed, ProgressTyped
  <2>2. \A r \in Proc : operand[r] \in Nat /\ operand[r] >= operand[r]
    BY <2>1
  <2> QED
    BY <1>3, <2>2, StepUnder DEF main
<1> QED
  BY <1>2, <1>3

\* Who is done with an image stays so.
LEMMA AwayKept ==
  ASSUME Typed, Typed', Orderly, Moving, NEW p \in Proc, Step(p), Smooth(p),
         NEW r \in Proc, NEW i \in DOMAIN Sources(r), NEW q \in Path, Away(r, i, q)
  PROVE  Away(r, i, q)' /\ ImageOf(r, i, q)' = ImageOf(r, i, q)
<1>1. /\ setting' = setting /\ operand'[r] \in Nat /\ operand'[r] >= operand[r]
      /\ operand[r] >= 1 => target'[r] = target[r]
      /\ r # p => stack'[r] = stack[r]
      /\ stack'[p] # <<>> => \/ Last(stack'[p]).call \in {"readdir", "stat_src"}
                             \/ stack[p] # <<>> /\ Carries(p, Last(stack'[p]))
  BY StepEffect
<1>2. operand \in [Proc -> Nat] /\ setting \in Settings
  BY DEF Typed, ProgressTyped
<1>3. /\ i \in 1..operand[r] /\ IsPrefix(Sources(r)[i], q) /\ q \notin DOMAIN tree
      /\ Safe(r, ImageOf(r, i, q))
  BY DEF Away
<1>4. operand[r] >= 1 /\ i \in 1..operand'[r]
  BY <1>1, <1>2, <1>3
<1>5. Sources(r)' = Sources(r) /\ \A j, s : ImageOf(r, j, s)' = ImageOf(r, j, s)
  BY <1>1, <1>4, NamesStay
<1>6. Copies(r) /\ Linkless(tree) /\ Under(p)
  BY <1>2, AwayCopies DEF Moving
<1>7. q \notin DOMAIN tree'
  <2> SUFFICES ASSUME q \in DOMAIN tree' PROVE FALSE
    OBVIOUS
  <2>1. stack[p] # <<>> /\ IsPrefix(Top(p).dest, q)
    BY <1>3, <1>6, TreeGrows
  <2>2. ~Outside(q)
    BY <1>6, <2>1, TopApart
  <2> QED
    BY <1>2, <1>3, <1>6, <2>2, SourceOutside
<1>8. PICK x : x = ImageOf(r, i, q)
  OBVIOUS
<1>9. Safe(r, x)'
  <2>1. CASE r # p
    BY <1>1, <1>3, <1>8, <2>1 DEF Safe, Top
  <2>2. CASE r = p
    <3> SUFFICES ASSUME stack'[p] # <<>>, Last(stack'[p]).dest = x, Last(stack'[p]).call \in Harmful
                 PROVE  FALSE
      BY <2>2 DEF Safe, Top
    <3>1. stack[p] # <<>> /\ Carries(p, Last(stack'[p]))
      BY <1>1 DEF Harmful
    <3>2. Top(p).dest = x /\ Top(p).call = "stat_src" /\ Exists(tree, Top(p).src)
      BY <1>3, <1>8, <2>2, <3>1 DEF Carries, Safe
    <3>3. /\ operand[p] \in DOMAIN Sources(p) /\ Copies(p)
          /\ target[p] = "file" => Len(cmd[p].args) = 2
          /\ Top(p).src \in Path /\ IsPrefix(Sources(p)[operand[p]], Top(p).src)
          /\ Top(p).dest = ImageOf(p, operand[p], Top(p).src)
      BY <1>6, <3>1, TopPlace
    <3>4. Top(p).src = q
      <4>1. /\ i \in DOMAIN Sources(p) /\ IsPrefix(Sources(p)[i], q)
            /\ ImageOf(p, operand[p], Top(p).src) = ImageOf(p, i, q)
        BY <1>3, <1>8, <2>2, <3>2, <3>3
      <4> QED
        BY <1>2, <3>3, <4>1, OneImage
    <3> QED
      BY <1>3, <3>2, <3>4 DEF Exists
  <2> QED
    BY <2>1, <2>2
<1>10. ImageOf(r, i, q)' = x
  BY <1>5, <1>8
<1>11. Safe(r, ImageOf(r, i, q))'
  BY <1>9, <1>10 DEF Safe
<1> QED
  BY <1>3, <1>4, <1>5, <1>7, <1>11 DEF Away

\* Where a process is done with an image, no step does harm.
LEMMA HarmElsewhere ==
  ASSUME Typed, Orderly, NEW p \in Proc, Under(p), stack[p] # <<>>, Top(p).call \in Harmful,
         NEW r \in Proc, NEW i \in DOMAIN Sources(r), NEW q \in Path, Away(r, i, q)
  PROVE  Top(p).dest # ImageOf(r, i, q)
<1> SUFFICES ASSUME Top(p).dest = ImageOf(r, i, q) PROVE FALSE
  OBVIOUS
<1> DEFINE d == Top(p).dest
<1>1. d \in Path /\ IsPrefix(d, d)
  BY TopPaths, PrefixElements DEF Path
<1>2. IsPrefix(Dest(p), d) /\ Copies(p) /\ setting \in Settings
  BY <1>1, TopPlace
<1>3. Copies(r)
  BY <1>2, AwayCopies
<1>4. IsPrefix(Dest(r), d)
  BY <1>2, <1>3, ImageOfIs DEF Away
<1>5. r = p
  BY <1>1, <1>2, <1>3, <1>4, OneOwner
<1> QED
  BY <1>5 DEF Away, Safe

\* What has arrived is there after any step of any process.
LEMMA ArrivedKept ==
  ASSUME Typed, Typed', Orderly, Moving, NEW p \in Proc, Step(p), Smooth(p),
         NEW r \in Proc, NEW i \in DOMAIN Sources(r), NEW q \in Path, Arrived(r, i, q)
  PROVE  Arrived(r, i, q)'
<1> DEFINE x == ImageOf(r, i, q)
<1>1. /\ Away(r, i, q) /\ IsFile(tree, x) /\ file[tree[x].ino].data = HomeData(q)
      /\ IsPrefix(Sources(r)[i], q)
  BY DEF Arrived, Away
<1>2. Away(r, i, q)' /\ ImageOf(r, i, q)' = x /\ setting' = setting
  BY <1>1, AwayKept, StepEffect
<1>3. Under(p) /\ Linkless(tree) /\ Single /\ setting \in Settings
  BY DEF Moving, Typed, ProgressTyped
<1>4. Copies(r)
  BY <1>3, AwayCopies
<1>5. x \in Path /\ IsPrefix(Dest(r), x)
  BY <1>1, <1>3, <1>4, ImageOfIs
<1>6. x \in DOMAIN tree' /\ tree'[x] = tree[x]
  <2> SUFFICES ASSUME stack[p] # <<>>,
                      IsPrefix(Top(p).src, x) \/ (x = Top(p).dest /\ Top(p).call \in Harmful)
               PROVE  FALSE
    BY <1>1, <1>3, TreeShrinks DEF IsFile, Exists
  <2>1. Top(p).dest # x \/ Top(p).call \notin Harmful
    BY <1>1, <1>3, HarmElsewhere
  <2>2. IsPrefix(Top(p).src, x)
    BY <2>1
  <2>3. Outside(x)
    BY <1>3, <1>5, <2>2, TopApart
  <2> QED
    BY <1>4, <1>5, <2>3 DEF Outside
<1>7. file'[tree[x].ino].data = file[tree[x].ino].data
  <2>1. tree[x].ino \in DOMAIN file
    BY <1>1 DEF Typed, DiskTyped, IsFile, Exists
  <2> SUFFICES ASSUME stack[p] # <<>>, Top(p).call \in Harmful, IsFile(tree, Top(p).dest),
                      tree[Top(p).dest].ino = tree[x].ino
               PROVE  FALSE
    BY <1>3, <2>1, DataChanges
  <2>2. Top(p).dest = x
    BY <1>1, <1>3 DEF Single, IsFile, Exists
  <2> QED
    BY <1>1, <1>3, <2>2, HarmElsewhere
<1>8. HomeData(q)' = HomeData(q)
  BY <1>2, HomeStays
<1>9. (IsFile(tree, ImageOf(r, i, q)))' /\ (file[tree[ImageOf(r, i, q)].ino].data)' = HomeData(q)
  <2> HIDE DEF x
  <2> QED
    BY <1>1, <1>2, <1>6, <1>7 DEF IsFile, Exists
<1> QED
  BY <1>2, <1>8, <1>9 DEF Arrived

\* Where nobody copies to nothing is made or changed.
LEMMA PlacedKept ==
  ASSUME Typed, Typed', Orderly, Moving, NEW p \in Proc, Step(p), Smooth(p)
  PROVE  Placed'
<1>1. /\ setting' = setting /\ Under(p) /\ Linkless(tree) /\ Placed
  BY StepEffect DEF Moving
<1>2. ASSUME NEW x \in DOMAIN tree', Outside(x)
      PROVE  x \in DOMAIN setting.tree /\ tree'[x] = setting.tree[x]
  <2>1. x \in DOMAIN tree /\ tree'[x] = tree[x]
    <3> SUFFICES ASSUME stack[p] # <<>>, x \in Path, IsPrefix(Top(p).dest, x) PROVE FALSE
      BY <1>1, TreeGrows
    <3> QED
      BY <1>1, <1>2, TopApart
  <2> QED
    BY <1>1, <1>2, <2>1 DEF Placed
<1>3. \A x : Outside(x)' <=> Outside(x)
  BY <1>1, HomeStays
<1> QED
  BY <1>1, <1>2, <1>3 DEF Placed

\* What is moved from a path to another one leaves the first.
LEMMA MovedIs ==
  ASSUME Typed, Orderly, Moving, NEW p \in Proc, stack[p] # <<>>, NEW q, NEW x, MovedFrom(Top(p), q, x)
  PROVE  /\ q \in Path /\ q \in DOMAIN tree /\ tree'[x] = tree[q] /\ q \notin DOMAIN tree'
         /\ x \in DOMAIN tree' /\ x \in Path
         /\ operand[p] \in DOMAIN Sources(p) /\ IsPrefix(Sources(p)[operand[p]], q)
         /\ x = ImageOf(p, operand[p], q) /\ x = Swap(q, Top(p).src, Top(p).dest)
         /\ Outside(q) /\ Top(p).call = "rename"
<1>1. /\ q \in Path /\ q \in DOMAIN tree /\ IsPrefix(Top(p).src, q)
      /\ x = Swap(q, Top(p).src, Top(p).dest) /\ tree'[x] = tree[q] /\ Top(p).call = "rename"
      /\ CanRename(tree, Top(p).src, Top(p).dest)
      /\ tree' = Renamed(tree, Top(p).src, Top(p).dest)
  BY DEF MovedFrom
<1>2. Under(p) /\ Linkless(tree) /\ Grown(tree)
  BY DEF Moving, Typed, DiskTyped
<1>3. q \notin DOMAIN tree'
  BY <1>1, <1>2, SourceGone
<1>4. /\ setting \in Settings /\ Copies(p) /\ operand[p] \in DOMAIN Sources(p)
      /\ Top(p).src \in Path /\ Top(p).dest \in Path
      /\ IsPrefix(Sources(p)[operand[p]], Top(p).src)
      /\ Top(p).dest = ImageOf(p, operand[p], Top(p).src)
  BY <1>2, TopPlace
<1>5. IsPrefix(Sources(p)[operand[p]], q) /\ ImageOf(p, operand[p], q) = Swap(q, Top(p).src, Top(p).dest)
  BY <1>1, <1>4, ImageFurther
<1>6. x \in DOMAIN tree'
  BY <1>1, <1>2, <1>4, RenamedIs
<1>7. x \in Path
  BY <1>1, <1>4, SwapIs DEF Path
<1>8. Outside(q)
  BY <1>1, <1>2, TopApart
<1> QED
  BY <1>1, <1>3, <1>4, <1>5, <1>6, <1>7, <1>8

\* No file gets a second name.
LEMMA SingleKept ==
  ASSUME Typed, Typed', Orderly, Moving, NEW p \in Proc, Step(p), Smooth(p)
  PROVE  Single'
<1>1. /\ Under(p) /\ Linkless(tree) /\ Single
  BY DEF Moving
<1>f. \A q \in DOMAIN tree : IsFile(tree, q) => tree[q].ino # Len(file) + 1
  <2>1. Len(file) + 1 \notin DOMAIN file
    BY DEF Typed, DiskTyped
  <2> QED
    BY <2>1 DEF Typed, DiskTyped
<1>2. ASSUME NEW x \in DOMAIN tree', NEW y \in DOMAIN tree', IsFile(tree', x), IsFile(tree', y),
             tree'[x].ino = tree'[y].ino,
             x \in DOMAIN tree, tree'[x] = tree[x]
      PROVE  x = y
  <2>1. IsFile(tree, x)
    BY <1>2 DEF IsFile, Exists
  <2>2. CASE y \in DOMAIN tree /\ tree'[y] = tree[y]
    BY <1>1, <1>2, <2>1, <2>2 DEF Single, IsFile, Exists
  <2>3. CASE tree'[y].ino = Len(file) + 1
    BY <1>2, <1>f, <2>1, <2>3
  <2>4. CASE stack[p] # <<>> /\ \E q : MovedFrom(Top(p), q, y)
    <3>1. PICK q : MovedFrom(Top(p), q, y)
      BY <2>4
    <3>2. q \in DOMAIN tree /\ tree'[y] = tree[q] /\ q \notin DOMAIN tree'
      BY <2>4, <3>1, MovedIs
    <3>3. IsFile(tree, q) /\ tree[q].ino = tree[x].ino
      BY <1>2, <3>2 DEF IsFile, Exists
    <3>4. q = x
      BY <1>1, <1>2, <2>1, <3>2, <3>3 DEF Single
    <3> QED
      BY <3>2, <3>4
  <2> QED
    BY <1>1, <1>2, <2>2, <2>3, <2>4, FilesFrom
<1>3. ASSUME NEW x \in DOMAIN tree', NEW y \in DOMAIN tree', IsFile(tree', x), IsFile(tree', y),
             tree'[x].ino = tree'[y].ino
      PROVE  x = y
  <2>1. CASE x \in DOMAIN tree /\ tree'[x] = tree[x]
    BY <1>2, <1>3, <2>1
  <2>2. CASE y \in DOMAIN tree /\ tree'[y] = tree[y]
    BY <1>2, <1>3, <2>2
  <2>3. CASE /\ stack[p] # <<>> /\ \E q : MovedFrom(Top(p), q, x)
             /\ \E q : MovedFrom(Top(p), q, y)
    <3>1. PICK q : MovedFrom(Top(p), q, x)
      BY <2>3
    <3>2. PICK r : MovedFrom(Top(p), r, y)
      BY <2>3
    <3>3. q \in DOMAIN tree /\ tree'[x] = tree[q] /\ x = Swap(q, Top(p).src, Top(p).dest)
      BY <2>3, <3>1, MovedIs
    <3>4. r \in DOMAIN tree /\ tree'[y] = tree[r] /\ y = Swap(r, Top(p).src, Top(p).dest)
      BY <2>3, <3>2, MovedIs
    <3>5. IsFile(tree, q) /\ IsFile(tree, r) /\ tree[q].ino = tree[r].ino
      BY <1>3, <3>3, <3>4 DEF IsFile, Exists
    <3>6. q = r
      BY <1>1, <3>3, <3>4, <3>5 DEF Single
    <3> QED
      BY <3>3, <3>4, <3>6
  <2>4. CASE /\ stack[p] # <<>> /\ \E q : MovedFrom(Top(p), q, x)
             /\ tree'[y].ino = Len(file) + 1
    <3>1. PICK q : MovedFrom(Top(p), q, x)
      BY <2>4
    <3>2. q \in DOMAIN tree /\ tree'[x] = tree[q]
      BY <2>4, <3>1, MovedIs
    <3>3. IsFile(tree, q)
      BY <1>3, <3>2 DEF IsFile, Exists
    <3> QED
      BY <1>3, <1>f, <2>4, <3>2, <3>3
  <2>5. CASE /\ stack[p] # <<>> /\ \E q : MovedFrom(Top(p), q, y)
             /\ tree'[x].ino = Len(file) + 1
    <3>1. PICK q : MovedFrom(Top(p), q, y)
      BY <2>5
    <3>2. q \in DOMAIN tree /\ tree'[y] = tree[q]
      BY <2>5, <3>1, MovedIs
    <3>3. IsFile(tree, q)
      BY <1>3, <3>2 DEF IsFile, Exists
    <3> QED
      BY <1>3, <1>f, <2>5, <3>2, <3>3
  <2>6. CASE x = Top(p).dest /\ y = Top(p).dest
    BY <2>6
  <2>7. /\ \/ x \in DOMAIN tree /\ tree'[x] = tree[x]
           \/ stack[p] # <<>> /\ x = Top(p).dest /\ tree'[x].ino = Len(file) + 1
           \/ stack[p] # <<>> /\ \E q : MovedFrom(Top(p), q, x)
        /\ \/ y \in DOMAIN tree /\ tree'[y] = tree[y]
           \/ stack[p] # <<>> /\ y = Top(p).dest /\ tree'[y].ino = Len(file) + 1
           \/ stack[p] # <<>> /\ \E q : MovedFrom(Top(p), q, y)
    BY <1>1, <1>3, FilesFrom
  <2> QED
    BY <2>1, <2>2, <2>3, <2>4, <2>5, <2>6, <2>7, Zenon
<1> QED
  BY <1>3 DEF Single

\* The steps by which a source goes.
LEMMA SourceSteps ==
  ASSUME Typed, NEW p \in Proc, Step(p), stack[p] # <<>>
  PROVE  /\ Top(p).call = "rename" => RenameDone(p) \/ RenameFails(p)
         /\ Top(p).call = "unlink_src" => UnlinkSrc(p)
         /\ Top(p).call = "rmdir" => RmdirSrc(p)
<1>1. CASE \/ Usage(p) \/ Guess(p) \/ Check(p) \/ CheckFails(p) \/ NextSource(p) \/ Exit(p)
  <2>1. at[p] = "loop"
    BY DEF Typed, ProgressTyped
  <2> QED
    BY <1>1, <2>1 DEF Usage, Guess, Check, CheckFails, NextSource, Exit
<1>2. CASE \/ StatSrc(p) \/ StatSrcFails(p) \/ StatDestMissing(p) \/ StatDestExists(p)
           \/ StatDestClashes(p) \/ PromptYes(p) \/ PromptNo(p)
           \/ Opendir(p) \/ OpendirFails(p) \/ ReaddirEntry(p) \/ ReaddirEnd(p) \/ Mkdir(p)
  <2>1. Top(p).call \in {"stat_src", "stat_dest", "prompt", "mkdir", "opendir", "readdir"}
    BY <1>2 DEF StatSrc, StatSrcFails, StatDestMissing, StatDestExists, StatDestClashes, PromptYes,
           PromptNo, Opendir, OpendirFails, ReaddirEntry, ReaddirEnd, Mkdir, Busy, Top
  <2> QED
    BY <2>1
<1>4. CASE OpenDestForced(p) \/ OpenDestFails(p) \/ OpenDest(p) \/ UnlinkDest(p)
  <2>1. Top(p).call \in {"open_dest", "reopen_dest", "unlink_dest"}
    BY <1>4 DEF OpenDestForced, OpenDestFails, OpenDest, UnlinkDest, Busy, Top
  <2> QED
    BY <2>1
<1>5. CASE \/ OpenSrc(p) \/ OpenSrcFails(p) \/ Read(p) \/ ReadEof(p) \/ ReadFails(p)
           \/ Write(p) \/ WriteFails(p) \/ PreserveMeta(p)
  <2>1. Top(p).call \in {"open_src", "read", "write", "preserve"}
    <3>1. OpenSrc(p) \/ OpenSrcFails(p) => Top(p).call = "open_src"
      BY DEF OpenSrc, OpenSrcFails, Busy, Top
    <3>2. Read(p) \/ ReadEof(p) \/ ReadFails(p) => Top(p).call = "read"
      BY DEF Read, ReadEof, ReadFails, Busy, Top
    <3>3. Write(p) \/ WriteFails(p) => Top(p).call = "write"
      BY DEF Write, WriteFails, Busy, Top
    <3>4. PreserveMeta(p) => Top(p).call = "preserve"
      BY DEF PreserveMeta, Busy, Top
    <3> QED
      BY <1>5, <3>1, <3>2, <3>3, <3>4
  <2> QED
    BY <2>1
<1>3. CASE RenameDone(p) \/ RenameFails(p) \/ UnlinkSrc(p) \/ RmdirSrc(p)
  <2>1. /\ RenameDone(p) \/ RenameFails(p) => Top(p).call = "rename"
        /\ UnlinkSrc(p) => Top(p).call = "unlink_src"
        /\ RmdirSrc(p) => Top(p).call = "rmdir"
    BY DEF RenameDone, RenameFails, UnlinkSrc, RmdirSrc, Busy, Top
  <2> QED
    BY <1>3, <2>1
<1> QED
  BY <1>1, <1>2, <1>3, <1>4, <1>5, Zenon DEF Step

\* What was just moved by a rename is away.
LEMMA MovedAway ==
  ASSUME Typed, Typed', Orderly, Moving, NEW p \in Proc, Step(p), Smooth(p),
         stack[p] # <<>>, NEW q, NEW x, MovedFrom(Top(p), q, x)
  PROVE  /\ Away(p, operand[p], q)' /\ ImageOf(p, operand[p], q)' = x
         /\ operand'[p] = operand[p] /\ Sources(p)' = Sources(p)
<1>1. /\ q \in Path /\ q \notin DOMAIN tree' /\ Top(p).call = "rename"
      /\ operand[p] \in DOMAIN Sources(p) /\ IsPrefix(Sources(p)[operand[p]], q)
      /\ x = ImageOf(p, operand[p], q)
  BY MovedIs
<1>2. UNCHANGED main
  BY StepUnder
<1>3. setting' = setting /\ target' = target /\ operand' = operand
  BY <1>2 DEF main
<1>4. Under(p) /\ operand[p] \in 1..operand[p]
  BY TopPlace DEF Moving
<1>5. Sources(p)' = Sources(p) /\ \A j, s : ImageOf(p, j, s)' = ImageOf(p, j, s)
  BY <1>3, NamesStay
<1>6. Return(p)
  <2>1. q \in DOMAIN tree
    BY MovedIs
  <2>2. tree' # tree
    BY <1>1, <2>1
  <2>3. ~RenameFails(p)
    BY <2>2 DEF RenameFails, disk
  <2> QED
    BY <1>1, <2>3, SourceSteps DEF RenameDone
<1>7. stack'[p] # <<>> => Last(stack'[p]).call = "readdir"
  BY <1>2, <1>4, <1>6, ReturnUnder
<1>8. PICK i : i = operand[p]
  OBVIOUS
<1>9. /\ i \in 1..operand'[p] /\ i \in DOMAIN Sources(p)' /\ IsPrefix(Sources(p)'[i], q)
      /\ ImageOf(p, i, q)' = x
  BY <1>1, <1>3, <1>4, <1>5, <1>8
<1>10. Safe(p, ImageOf(p, i, q))'
  BY <1>7 DEF Safe, Top, Harmful
<1>11. Away(p, i, q)'
  BY <1>1, <1>9, <1>10 DEF Away
<1>12. operand'[p] = i
  BY <1>3, <1>8
<1> QED
  BY <1>3, <1>5, <1>8, <1>9, <1>11, <1>12

\* A file of the beginning that is where somebody copies to stays.
LEMMA GuestsKept ==
  ASSUME Typed, Typed', Orderly, Moving, NEW p \in Proc, Step(p), Smooth(p)
  PROVE  Guests'
<1>1. /\ setting' = setting /\ Linkless(tree) /\ Guests
  BY StepEffect DEF Moving
<1>2. (\A x : Outside(x)' <=> Outside(x)) /\ HomeInodes' = HomeInodes
  BY <1>1, HomeStays
<1>3. \A r \in Proc : Sources(r)' = Sources(r)
  BY <1>1 DEF Sources, cmd
<1>4. ASSUME NEW x \in DOMAIN tree', ~Outside(x), IsFile(tree', x), tree'[x].ino \in HomeInodes
      PROVE  \E r \in Proc : \E i \in DOMAIN Sources(r) : \E q \in Path :
               x = ImageOf(r, i, q)' /\ Away(r, i, q)'
  <2>1. CASE x \in DOMAIN tree /\ tree'[x] = tree[x]
    <3>1. IsFile(tree, x)
      BY <1>4, <2>1 DEF IsFile, Exists
    <3>2. PICK r \in Proc : \E i \in DOMAIN Sources(r) : \E q \in Path :
            x = ImageOf(r, i, q) /\ Away(r, i, q)
      BY <1>1, <1>4, <2>1, <3>1 DEF Guests
    <3>3. PICK i \in DOMAIN Sources(r) : \E q \in Path : x = ImageOf(r, i, q) /\ Away(r, i, q)
      BY <3>2
    <3>4. PICK q \in Path : x = ImageOf(r, i, q) /\ Away(r, i, q)
      BY <3>3
    <3>5. Away(r, i, q)' /\ ImageOf(r, i, q)' = ImageOf(r, i, q)
      BY <3>4, AwayKept
    <3> QED
      BY <3>4, <3>5
  <2>2. CASE tree'[x].ino = Len(file) + 1
    BY <1>4, <2>2, HomeIs
  <2>3. CASE stack[p] # <<>> /\ \E q : MovedFrom(Top(p), q, x)
    <3>1. PICK q : MovedFrom(Top(p), q, x)
      BY <2>3
    <3>2. PICK i : i = operand[p]
      OBVIOUS
    <3>3. q \in Path /\ i \in DOMAIN Sources(p)
      BY <2>3, <3>1, <3>2, MovedIs
    <3>4. Away(p, operand[p], q)' /\ ImageOf(p, operand[p], q)' = x /\ operand'[p] = operand[p]
      BY <2>3, <3>1, MovedAway
    <3>5. Away(p, i, q)' /\ ImageOf(p, i, q)' = x
      BY <3>2, <3>4
    <3> QED
      BY <3>3, <3>5
  <2> QED
    BY <1>1, <1>4, <2>1, <2>2, <2>3, FilesFrom
<1> QED
  BY <1>2, <1>3, <1>4 DEF Guests

\* Nobody writes to a file of the beginning that is to be kept.
LEMMA UnwrittenKept ==
  ASSUME Typed, Typed', Orderly, Moving, NEW p \in Proc, Step(p), Smooth(p)
  PROVE  Unwritten'
<1>1. /\ setting' = setting /\ Linkless(tree) /\ Guests /\ Unwritten /\ Under(p)
  BY StepEffect DEF Moving
<1>2. HomeInodes' = HomeInodes
  BY <1>1, HomeStays
<1>3. ASSUME NEW f \in HomeInodes PROVE file'[f].data = setting.file[f].data
  <2>1. f \in DOMAIN file
    BY HomeIs
  <2>2. file'[f].data = file[f].data
    <3> SUFFICES ASSUME stack[p] # <<>>, Top(p).call \in Harmful, IsFile(tree, Top(p).dest),
                        tree[Top(p).dest].ino = f
                 PROVE  FALSE
      BY <1>1, <2>1, DataChanges
    <3> QED
      BY <1>1, NotHere
  <2> QED
    BY <1>1, <2>2 DEF Unwritten
<1> QED
  BY <1>1, <1>2, <1>3 DEF Unwritten

\* What goes has arrived.
LEMMA KeptKept ==
  ASSUME Typed, Typed', Orderly, Moving, NEW p \in Proc, Step(p), Smooth(p)
  PROVE  Kept'
<1>1. /\ setting' = setting /\ Linkless(tree) /\ Placed /\ Unwritten /\ Under(p) /\ Kept
  BY StepEffect DEF Moving
<1>2. Home' = Home /\ \A x : HomeData(x)' = HomeData(x)
  BY <1>1, HomeStays
<1>3. \A r \in Proc : Sources(r)' = Sources(r)
  BY <1>1 DEF Sources, cmd
<1>4. ASSUME NEW q \in Home, q \notin DOMAIN tree'
      PROVE  \E r \in Proc : \E i \in DOMAIN Sources(r) : Arrived(r, i, q)'
  <2>0. q \in Path /\ Outside(q) /\ IsFile(setting.tree, q) /\ setting.tree[q].ino \in HomeInodes
    BY HomeIs
  <2>1. CASE \E r \in Proc : \E i \in DOMAIN Sources(r) : Arrived(r, i, q)
    <3>1. PICK r \in Proc : \E i \in DOMAIN Sources(r) : Arrived(r, i, q)
      BY <2>1
    <3>2. PICK i \in DOMAIN Sources(r) : Arrived(r, i, q)
      BY <3>1
    <3>3. Arrived(r, i, q)'
      BY <2>0, <3>2, ArrivedKept
    <3> QED
      BY <3>3
  <2>2. CASE q \in DOMAIN tree
    <3> DEFINE s == Top(p).src
               d == Top(p).dest
    <3>1. IsFile(tree, q) /\ tree[q] = setting.tree[q]
      BY <1>1, <2>0, <2>2 DEF Placed, IsFile, Exists
    <3>2. file[tree[q].ino].data = HomeData(q)
      BY <1>1, <2>0, <3>1 DEF Unwritten, HomeData
    <3>3. /\ stack[p] # <<>> /\ Alters(Top(p))
          /\ IsPrefix(s, q) \/ (q = d /\ Top(p).call \in Harmful)
      BY <1>1, <1>4, <2>2, TreeShrinks
    <3>4. s \in Path /\ d \in Path /\ IsPrefix(d, d)
      BY <3>3, TopPaths, PrefixElements DEF Path
    <3>5. ~Outside(d) /\ q # d /\ IsPrefix(s, q)
      BY <1>1, <2>0, <3>3, <3>4, TopApart
    <3>6. CASE Top(p).call = "rename" /\ CanRename(tree, s, d) /\ tree' = Renamed(tree, s, d)
      <4> DEFINE x == Swap(q, s, d)
      <4>1. tree'[x] = tree[q]
        BY <2>2, <3>4, <3>5, <3>6, RenamedIs DEF Typed, DiskTyped
      <4>2. MovedFrom(Top(p), q, x)
        BY <2>0, <2>2, <3>5, <3>6, <4>1 DEF MovedFrom
      <4> HIDE DEF x
      <4>3. /\ Away(p, operand[p], q)' /\ ImageOf(p, operand[p], q)' = x
            /\ operand'[p] = operand[p] /\ operand[p] \in DOMAIN Sources(p) /\ x \in DOMAIN tree'
        BY <3>3, <4>2, MovedAway, MovedIs
      <4>4. PICK i : i = operand[p]
        OBVIOUS
      <4>5. Away(p, i, q)' /\ ImageOf(p, i, q)' = x /\ i \in DOMAIN Sources(p)
        BY <4>3, <4>4
      <4>6. file' = file
        BY <1>4, <2>2, <3>3, <3>6, SourceSteps DEF RenameDone, RenameFails, disk
      <4>7. Arrived(p, i, q)'
        BY <1>2, <3>1, <3>2, <4>1, <4>3, <4>5, <4>6 DEF Arrived, IsFile, Exists
      <4> QED
        BY <4>5, <4>7
    <3>7. CASE Top(p).call = "unlink_src" /\ CanUnlink(tree, s) /\ tree' = Without(tree, s)
      <4>1. q = s
        BY <1>4, <2>2, <3>7 DEF Without
      <4>2. /\ IsFile(tree, d) /\ file[tree[d].ino].data = HomeData(q)
        BY <1>1, <3>3, <3>7, <4>1 DEF Under, Copying, CopyingFile
      <4>3. IsFile(tree', d) /\ tree'[d] = tree[d]
        BY <3>5, <3>7, <4>1, <4>2 DEF Without, IsFile, Exists
      <4>4. file' = file /\ UNCHANGED main
        BY <3>3, <3>7, SourceSteps DEF UnlinkSrc
      <4>5. stack'[p] # <<>> => Last(stack'[p]).call \notin Harmful
        BY <3>7, StepEffect DEF Carries, Harmful
      <4>6. PICK i : i = operand[p]
        OBVIOUS
      <4>7. /\ i \in DOMAIN Sources(p) /\ i \in 1..operand[p] /\ IsPrefix(Sources(p)[i], q)
            /\ d = ImageOf(p, i, q)
        BY <1>1, <3>3, <4>1, <4>6, TopPlace
      <4>8. ImageOf(p, i, q)' = d /\ operand' = operand
        <5>1. target' = target /\ operand' = operand
          BY <4>4 DEF main
        <5>2. \A j, y : ImageOf(p, j, y)' = ImageOf(p, j, y)
          BY <1>1, <5>1, NamesStay
        <5> QED
          BY <4>7, <5>1, <5>2
      <4>9. Away(p, i, q)'
        <5>1. Safe(p, ImageOf(p, i, q))'
          BY <4>5 DEF Safe, Top
        <5> QED
          BY <1>3, <1>4, <2>0, <4>7, <4>8, <5>1 DEF Away
      <4>10. Arrived(p, i, q)'
        BY <1>2, <4>2, <4>3, <4>4, <4>8, <4>9 DEF Arrived
      <4> QED
        BY <4>7, <4>10
    <3>8. CASE CanRmdir(tree, s) /\ tree' = Without(tree, s)
      <4>1. q = s
        BY <1>4, <2>2, <3>8 DEF Without
      <4> QED
        BY <3>1, <3>8, <4>1 DEF CanRmdir, IsDir, IsFile
    <3>9. CASE tree' = Without(tree, d)
      BY <1>4, <2>2, <3>5, <3>9 DEF Without
    <3>10. CASE tree' = With(tree, d, Dir) \/ tree' = With(tree, d, File(Len(file) + 1))
      BY <1>4, <2>2, <3>10 DEF With
    <3> QED
      BY <3>3, <3>6, <3>7, <3>8, <3>9, <3>10 DEF Alters
  <2> QED
    BY <1>1, <2>1, <2>2 DEF Kept
<1> QED
  BY <1>2, <1>3, <1>4 DEF Kept

\* The other processes find the files they copy to as they left them.
LEMMA OtherUnder ==
  ASSUME Typed, Typed', Orderly, Moving, NEW p \in Proc, Step(p), Smooth(p),
         NEW r \in Proc \ {p}
  PROVE  Under(r)'
<1>1. /\ setting' = setting /\ at'[r] = at[r] /\ target'[r] = target[r]
      /\ operand'[r] = operand[r] /\ stack'[r] = stack[r]
  BY StepEffect
<1>2. /\ Under(r) /\ Under(p) /\ Linkless(tree) /\ Single
  BY DEF Moving
<1>3. /\ Sources(r)' = Sources(r) /\ Len(cmd[r].args)' = Len(cmd[r].args)
      /\ \A j, q : ImageOf(r, j, q)' = ImageOf(r, j, q)
  BY <1>1, NamesStay
<1>4. (at[r] = "loop" /\ target[r] = "file" => Len(cmd[r].args) = 2)'
  BY <1>1, <1>2, <1>3 DEF Under
<1>5. CASE stack[r] = <<>>
  BY <1>1, <1>4, <1>5 DEF Under
<1>6. CASE stack[r] # <<>>
  <2>1. operand'[r] <= Len(Sources(r)')
    BY <1>1, <1>2, <1>3, <1>6 DEF Under
  <2>2. ASSUME NEW k \in DOMAIN stack[r]
        PROVE  OnWay(r, stack[r][k])' /\ (k # Len(stack[r]) => stack[r][k].call = "readdir")
    <3>1. PICK act : act = stack[r][k]
      OBVIOUS
    <3>2. OnWay(r, act) /\ (k # Len(stack[r]) => act.call = "readdir")
      BY <1>2, <1>6, <3>1 DEF Under
    <3>3. OnWay(r, act)'
      BY <1>1, <1>3, <3>2 DEF OnWay
    <3>4. act = stack'[r][k]
      BY <1>1, <3>1
    <3> QED
      BY <3>1, <3>2, <3>3, <3>4 DEF OnWay
  <2>3. PICK act : act = Top(r)
    OBVIOUS
  <2>4. Copying(act) /\ Top(r)' = act
    BY <1>1, <1>2, <1>6, <2>3 DEF Under, Top
  <2>5. IsFile(tree, act.dest) =>
          /\ IsFile(tree', act.dest) /\ tree'[act.dest] = tree[act.dest]
          /\ file'[tree[act.dest].ino].data = file[tree[act.dest].ino].data
    <3> SUFFICES ASSUME IsFile(tree, act.dest)
                 PROVE  /\ IsFile(tree', act.dest) /\ tree'[act.dest] = tree[act.dest]
                        /\ file'[tree[act.dest].ino].data = file[tree[act.dest].ino].data
      OBVIOUS
    <3> DEFINE d == act.dest
    <3>1. d \in Path /\ IsPrefix(d, d) /\ d = Top(r).dest
      BY <1>6, <2>3, TopPaths, PrefixElements DEF Path
    <3>2. ~Outside(d) /\ IsPrefix(Dest(r), d) /\ Copies(r) /\ setting \in Settings
      BY <1>2, <1>6, <3>1, TopApart, TopPlace
    <3>3. stack[p] # <<>> => Top(p).dest # d
      <4> SUFFICES ASSUME stack[p] # <<>>, Top(p).dest = d PROVE FALSE
        OBVIOUS
      <4>1. IsPrefix(Dest(p), d) /\ Copies(p)
        BY <1>2, TopPlace
      <4> QED
        BY <3>1, <3>2, <4>1, OneOwner
    <3>4. stack[p] # <<>> => ~IsPrefix(Top(p).src, d)
      BY <1>2, <3>1, <3>2, TopApart
    <3>5. d \in DOMAIN tree' /\ tree'[d] = tree[d]
      BY <1>2, <3>3, <3>4, TreeShrinks DEF IsFile, Exists
    <3>6. tree[d].ino \in DOMAIN file
      BY DEF Typed, DiskTyped, IsFile, Exists
    <3>7. file'[tree[d].ino].data = file[tree[d].ino].data
      <4> SUFFICES ASSUME stack[p] # <<>>, IsFile(tree, Top(p).dest),
                          tree[Top(p).dest].ino = tree[d].ino
                   PROVE  FALSE
        BY <1>2, <3>6, DataChanges
      <4> QED
        BY <1>2, <3>3 DEF Single, IsFile, Exists
    <3> QED
      BY <3>5, <3>7 DEF IsFile, Exists
  <2>6. /\ HomeInodes' = HomeInodes /\ Home' = Home /\ \A x : HomeData(x)' = HomeData(x)
    BY <1>1, HomeStays
  <2>7. \A k : Partly(act, k) => Partly(act, k)'
    BY <2>5, <2>6 DEF Partly
  <2>8. CopyingFile(act) => CopyingFile(act)'
    BY <1>1, <2>5, <2>6, <2>7 DEF CopyingFile
  <2>9. Copying(act)'
    BY <2>4, <2>6, <2>8 DEF Copying
  <2>10. Copying(Top(r))'
    BY <2>4, <2>9
  <2> QED
    BY <1>1, <1>4, <2>1, <2>2, <2>10 DEF Under
<1> QED
  BY <1>5, <1>6

\* A step that changes nothing.
LEMMA StutterKeeps ==
  ASSUME Moving, UNCHANGED vars
  PROVE  Moving'
<1>1. /\ tree' = tree /\ file' = file /\ setting' = setting /\ at' = at
      /\ target' = target /\ operand' = operand /\ stack' = stack
  BY DEF vars
<1>2. /\ Linkless(tree) /\ Placed /\ Single /\ Guests /\ Unwritten /\ Kept
      /\ \A p \in Proc : Under(p)
  BY DEF Moving
<1>3. /\ HomeInodes' = HomeInodes /\ Home' = Home /\ \A q : HomeData(q)' = HomeData(q)
      /\ \A x : Outside(x)' <=> Outside(x)
  BY <1>1, HomeStays
<1>4. \A r \in Proc : /\ Sources(r)' = Sources(r) /\ Len(cmd[r].args)' = Len(cmd[r].args)
                      /\ \A j, q : ImageOf(r, j, q)' = ImageOf(r, j, q)
  BY <1>1, NamesStay
<1>5. Linkless(tree') /\ Placed' /\ Single'
  BY <1>1, <1>2, <1>3 DEF Placed, Single
<1>6. \A r \in Proc : \A i, q : Away(r, i, q) => Away(r, i, q)'
  BY <1>1, <1>4 DEF Away, Safe, Top
<1>7. \A r \in Proc : \A i, q : Arrived(r, i, q) => Arrived(r, i, q)'
  BY <1>1, <1>3, <1>4, <1>6 DEF Arrived
<1>8. Guests'
  BY <1>1, <1>2, <1>3, <1>4, <1>6 DEF Guests
<1>9. Unwritten' /\ Kept'
  BY <1>1, <1>2, <1>3, <1>4, <1>7 DEF Unwritten, Kept
<1>10. ASSUME NEW r \in Proc PROVE Under(r)'
  <2>1. Under(r)
    BY <1>2
  <2>2. \A act : OnWay(r, act) => OnWay(r, act)'
    BY <1>1, <1>4 DEF OnWay
  <2>3. \A act : Copying(act) => Copying(act)'
    <3>1. \A act, k : Partly(act, k) => Partly(act, k)'
      BY <1>1, <1>3 DEF Partly
    <3>2. \A act : CopyingFile(act) => CopyingFile(act)'
      BY <1>1, <1>3, <3>1 DEF CopyingFile
    <3> QED
      BY <1>3, <3>2 DEF Copying
  <2>4. CASE stack[r] = <<>>
    BY <1>1, <1>4, <2>1, <2>4 DEF Under
  <2>5. CASE stack[r] # <<>>
    <3>1. ASSUME NEW k \in DOMAIN stack[r]
          PROVE  OnWay(r, stack[r][k])' /\ (k # Len(stack[r]) => stack[r][k].call = "readdir")
      <4>1. PICK act : act = stack[r][k]
        OBVIOUS
      <4>2. OnWay(r, act)' /\ act = stack'[r][k]
        BY <1>1, <2>1, <2>2, <2>5, <4>1 DEF Under
      <4> QED
        BY <2>1, <2>5, <4>1, <4>2 DEF Under, OnWay
    <3>2. PICK act : act = Top(r)
      OBVIOUS
    <3>3. Copying(act)' /\ Top(r)' = act
      BY <1>1, <2>1, <2>3, <2>5, <3>2 DEF Under, Top
    <3>4. Copying(Top(r))'
      BY <3>3
    <3> QED
      BY <1>1, <1>4, <2>1, <2>5, <3>1, <3>4 DEF Under
  <2> QED
    BY <2>4, <2>5
<1> QED
  BY <1>5, <1>8, <1>9, <1>10 DEF Moving

\* Every step keeps the invariant.
LEMMA MovingKept ==
  ASSUME Typed, Typed', Orderly, Moving, [Next]_vars, \A p \in Proc : Step(p) => Smooth(p)
  PROVE  Moving'
<1>1. CASE UNCHANGED vars
  BY <1>1, StutterKeeps
<1>2. ASSUME NEW p \in Proc, Step(p) PROVE Moving'
  <2>1. Linkless(tree')
    <3>1. [Next]_vars /\ Linkless(tree)
      BY DEF Moving
    <3> QED
      BY <3>1, LinklessKept
  <2>0. Smooth(p)
    BY <1>2
  <2>2. Placed' /\ Single' /\ Guests' /\ Unwritten' /\ Kept'
    BY <1>2, <2>0, PlacedKept, SingleKept, GuestsKept, UnwrittenKept, KeptKept
  <2>3. \A r \in Proc : Under(r)'
    BY <1>2, <2>0, StepEffect, OtherUnder
  <2> QED
    BY <2>1, <2>2, <2>3 DEF Moving
<1> QED
  BY <1>1, <1>2 DEF Next, Done

\* It holds at the beginning.
LEMMA MovingBegins ==
  ASSUME Init, Orderly
  PROVE  Moving
<1>1. /\ tree = setting.tree /\ file = setting.file /\ setting \in Settings
      /\ at = [p \in Proc |-> "guess"] /\ stack = [p \in Proc |-> <<>>]
  BY DEF Init
<1>2. Typed
  BY TypesBegin
<1>3. Linkless(tree) /\ Placed /\ Single /\ Unwritten
  BY <1>1 DEF Orderly, Placed, Single, Unwritten
<1>4. Kept
  BY <1>1 DEF Kept, Home
<1>5. Guests
  <2> SUFFICES ASSUME NEW x \in DOMAIN tree, ~Outside(x), IsFile(tree, x), tree[x].ino \in HomeInodes
               PROVE  FALSE
    BY DEF Guests
  <2>1. PICK q \in Home : tree[x].ino = setting.tree[q].ino
    BY DEF HomeInodes
  <2>2. q \in DOMAIN setting.tree /\ IsFile(setting.tree, q) /\ Outside(q)
    BY DEF Home
  <2>3. x = q
    BY <1>1, <2>1, <2>2 DEF Orderly
  <2> QED
    BY <2>2, <2>3
<1>6. \A p \in Proc : Under(p)
  BY <1>1 DEF Under
<1> QED
  BY <1>3, <1>4, <1>5, <1>6 DEF Moving

\* In an orderly setting in which no read and no write fails, what was in a file
\* that anybody moves can be found at every moment.
THEOREM MovesLoseNothing == Spec => [](Orderly => NothingLost)
<1> DEFINE I == Typed /\ (Orderly /\ Unfailing => Moving)
<1>1. Init => I
  BY TypesBegin, MovingBegins
<1>2. I /\ [Next]_vars => I'
  <2> SUFFICES ASSUME I, [Next]_vars PROVE I'
    OBVIOUS
  <2>1. Typed'
    BY TypesKept
  <2>2. setting' = setting
    <3>1. \A p \in Proc : Step(p) => setting' = setting
      BY AtOthers
    <3> QED
      BY <3>1 DEF Next, Done, vars
  <2>3. Orderly' /\ Unfailing' => Orderly /\ Unfailing
    BY <2>2 DEF Orderly, Unfailing, Never, Copies, Dest, Sources, cmd
  <2>4. Orderly /\ Unfailing => Moving'
    <3>1. Unfailing => \A p \in Proc : Smooth(p)
      BY DEF Unfailing, Smooth, Never, Refused, ReadFails, WriteFails
    <3> QED
      BY <2>1, <3>1, MovingKept
  <2> QED
    BY <2>1, <2>3, <2>4
<1>3. I => (Orderly => NothingLost)
  <2> SUFFICES ASSUME I, Orderly, NEW p \in Proc, IsMv(p), Unfailing,
                      NEW i \in DOMAIN Sources(p), NEW q \in Below(setting, Sources(p)[i]),
                      IsFile(setting.tree, q)
               PROVE  \E r \in DOMAIN tree :
                        /\ IsFile(tree, r)
                        /\ file[tree[r].ino].data = setting.file[setting.tree[q].ino].data
    BY DEF NothingLost, Unfailing
  <2>1. Typed /\ Moving /\ setting \in Settings
    BY DEF Typed, ProgressTyped
  <2>2. q \in DOMAIN setting.tree /\ IsPrefix(Sources(p)[i], q) /\ q \in Path
    <3>1. Grown(setting.tree)
      BY <2>1, SettingIs
    <3> QED
      BY <3>1 DEF Below, Grown
  <2>3. Outside(q) /\ q \in Home
    <3>1. Copies(p)
      BY <2>1, AwayCopies
    <3>2. Outside(q)
      BY <2>1, <2>2, <3>1, SourceOutside
    <3> QED
      BY <2>2, <3>2 DEF Home
  <2>4. CASE q \in DOMAIN tree
    <3>1. tree[q] = setting.tree[q] /\ IsFile(tree, q)
      BY <2>1, <2>3, <2>4 DEF Moving, Placed, IsFile, Exists
    <3>2. file[tree[q].ino].data = setting.file[setting.tree[q].ino].data
      BY <2>1, <2>3, <3>1, HomeIs DEF Moving, Unwritten
    <3> QED
      BY <2>4, <3>1, <3>2
  <2>5. CASE \E r \in Proc : \E j \in DOMAIN Sources(r) : Arrived(r, j, q)
    <3>1. PICK r \in Proc : \E j \in DOMAIN Sources(r) : Arrived(r, j, q)
      BY <2>5
    <3>2. PICK j \in DOMAIN Sources(r) : Arrived(r, j, q)
      BY <3>1
    <3> QED
      BY <3>2 DEF Arrived, HomeData, IsFile, Exists
  <2> QED
    BY <2>1, <2>3, <2>4, <2>5 DEF Moving, Kept
<1> QED
  BY <1>1, <1>2, <1>3, PTL DEF Spec

-------------------------------------------------------------------------------
(***************************************************************************)
(* What a lone program has copied when it says so.                         *)
(***************************************************************************)

\* The command line: beside what is orderly, there is a directory for DESTINATION,
\* and what a mv is to move is not part of something else it is to move.
Tidy(p) ==
  /\ Orderly /\ IsDir(setting.tree, Front(Dest(p)))
  /\ IsMv(p) => \A i \in DOMAIN Sources(p) : \A j \in DOMAIN Sources(p) :
                  i # j => Parted(Sources(p)[i], Sources(p)[j])

\* The setting: p is alone, no mkdir is refused and no write is short.
Calm(p) == Tidy(p) /\ Alone(p) /\ Never({"mkdir", "short"})

\* Meta data are to be copied and all of them can be.
Faithful(p) == Preserve(p) /\ Never({"chmod", "chown", "utime"})

HomeMeta(q) == setting.file[setting.tree[q].ino].meta

\* At x there is what there was at q.
Filled(q, x) ==
  /\ IsFile(tree, x) /\ tree[x].ino \in DOMAIN file
  /\ file[tree[x].ino].data = HomeData(q)

Imaged(p, q, x) ==
  /\ IsDir(setting.tree, q) => IsDir(tree, x)
  /\ IsFile(setting.tree, q) => Filled(q, x) /\ (Faithful(p) => file[tree[x].ino].meta \in Inherited(HomeMeta(q)))

\* Before these calls nothing of the source is copied ...
Early == {"stat_src", "stat_dest", "prompt", "rename", "mkdir", "opendir", "open_dest",
          "unlink_dest", "reopen_dest", "open_src", "read", "write"}
\* ... and before these everything of a file but the meta data.
Late == {"unlink_src", "preserve"}

\* What the activation has yet to see to.
Ahead(act, q) ==
  \/ act.call \in Early /\ IsPrefix(act.src, q)
  \/ /\ act.call = "readdir" /\ IsStrictPrefix(act.src, q)
     /\ q[Len(act.src) + 1] \in act.snap \ act.seen
  \/ act.call \in Late /\ q = act.src /\ q \in Home

\* What it has learnt of its source ...
Knows(act) ==
  /\ act.call # "stat_src" =>
       /\ act.src \in DOMAIN setting.tree /\ (act.dir <=> IsDir(setting.tree, act.src))
       /\ act.src \in Home => act.meta = HomeMeta(act.src)
  /\ act.call \in Early => act.seen = {}
  /\ act.call \in Late => act.dir \/ act.src \in Home
  /\ act.call = "readdir" => \A q \in DOMAIN setting.tree :
       IsStrictPrefix(act.src, q) => q[Len(act.src) + 1] \in act.snap

\* ... and what it knows of DESTINATION.
Prepared(act) ==
  /\ IsDir(tree, Front(act.dest))
  /\ act.call \in {"prompt", "rename", "mkdir"} /\ Exists(tree, act.dest) =>
       (IsDir(tree, act.dest) <=> act.dir)
  /\ act.call \in {"opendir", "readdir", "rmdir", "preserve"} /\ act.dir => IsDir(tree, act.dest)
  /\ act.call \in Late /\ act.src \in Home =>
       Filled(act.src, act.dest) /\ tree[act.dest].ino \notin HomeInodes

\* The directories above are read in the order of the stack.
Within(above, act) ==
  IsStrictPrefix(above.src, act.src) /\ act.src[Len(above.src) + 1] \in above.seen

Entered(p) ==
  \A k \in DOMAIN stack[p] : \A m \in k + 1..Len(stack[p]) : Within(stack[p][k], stack[p][m])

\* What is ahead is still where it was.
Waiting(p) ==
  /\ \A k \in DOMAIN stack[p] : \A q \in DOMAIN setting.tree :
       Ahead(stack[p][k], q) /\ stack[p][k].call \notin Late => q \in DOMAIN tree
  /\ \A i \in DOMAIN Sources(p) : i > operand[p] =>
       \A q \in DOMAIN setting.tree : IsPrefix(Sources(p)[i], q) => q \in DOMAIN tree

\* What is not ahead is done.
Covered(p) ==
  \A i \in DOMAIN Sources(p) : i <= operand[p] =>
    \A q \in DOMAIN setting.tree : IsPrefix(Sources(p)[i], q) =>
      \/ Imaged(p, q, ImageOf(p, i, q))
      \/ i = operand[p] /\ \E k \in DOMAIN stack[p] : Ahead(stack[p][k], q)

MetaUnwritten == \A f \in HomeInodes : file[f].meta = setting.file[f].meta

\* The directory for DESTINATION.
Homeland(p) ==
  /\ IsDir(tree, Front(Dest(p)))
  /\ at[p] \in {"check", "loop"} => target[p] # "unset"
  /\ at[p] = "loop" /\ target[p] = "dir" => IsDir(tree, Dest(p))

Faring(p) ==
  /\ \A k \in DOMAIN stack[p] : Knows(stack[p][k]) /\ Prepared(stack[p][k])
  /\ Entered(p) /\ Waiting(p) /\ Covered(p) /\ MetaUnwritten /\ Homeland(p)
  /\ at[p] = "exited" => operand[p] = Len(Sources(p)) /\ stack[p] = <<>> /\ Copies(p)
                         /\ (target[p] = "file" => Len(cmd[p].args) = 2)

\* A step of p at which it has nothing to complain about.
Faultless(p) ==
  /\ Inv /\ Inv' /\ Moving /\ Copies(p) /\ Calm(p) /\ Faring(p)
  /\ ret \in [Proc -> {0, 1}] /\ Step(p) /\ ret'[p] = 0

\* How the innermost activation goes on: what was ahead of it is done when it is
\* not ahead any more ...
Narrows(p, act) ==
  /\ \A q \in DOMAIN setting.tree :
       Ahead(Top(p), q) => Ahead(act, q) \/ Imaged(p, q, ImageOf(p, operand[p], q))'
  /\ \A q \in DOMAIN setting.tree :
       Ahead(act, q) /\ act.call \notin Late =>
         Ahead(Top(p), q) /\ Top(p).call \notin Late /\ (q \in DOMAIN tree => q \in DOMAIN tree')

\* ... or handed to the activation for an entry.
Hands(p, act, n) ==
  /\ Top(p).call = "readdir" /\ Descends(p, act, n) /\ UNCHANGED disk /\ Knows(act)
  /\ act.dir /\ n \in act.seen /\ IsDir(tree, act.dest)
  /\ \A q \in DOMAIN setting.tree :
       Ahead(Top(p), q) <=> Ahead(act, q) \/ IsPrefix(Append(Top(p).src, n), q)

Turns(p) ==
  \/ /\ Return(p)
     /\ \A q \in DOMAIN setting.tree :
          Ahead(Top(p), q) => Imaged(p, q, ImageOf(p, operand[p], q))'
  \/ \E act \in Activation : /\ GoOn(p, act)
                              /\ act.src = Top(p).src /\ act.dest = Top(p).dest
                              /\ Knows(act) /\ Prepared(act)' /\ Narrows(p, act)
  \/ \E act : \E n : Hands(p, act, n)

\* A step that leaves the status at 0 is none of these.
LEMMA Complaints ==
  ASSUME NEW p \in Proc, ret \in [Proc -> {0, 1}], ret'[p] = 0
  PROVE  /\ ~Usage(p) /\ ~CheckFails(p) /\ ~StatSrcFails(p) /\ ~StatDestClashes(p) /\ ~PromptNo(p)
         /\ ~OpendirFails(p) /\ ~OpenDestFails(p) /\ ~OpenSrcFails(p)
         /\ ~ReadFails(p) /\ ~WriteFails(p)
BY DEF Usage, CheckFails, StatSrcFails, StatDestClashes, PromptNo, OpendirFails, OpenDestFails,
       OpenSrcFails, ReadFails, WriteFails, Quit, Fail

\* The status is 0 or 1.
LEMMA StatusKept ==
  ASSUME ret \in [Proc -> {0, 1}], NEW p \in Proc, Step(p)
  PROVE  ret' \in [Proc -> {0, 1}] /\ \A r \in Proc : ret[r] # 0 => ret'[r] # 0
<1>1. ret' = ret \/ ret' = [ret EXCEPT ![p] = 1]
  <2>1. CASE \/ Usage(p) \/ Guess(p) \/ Check(p) \/ CheckFails(p) \/ NextSource(p) \/ Exit(p)
             \/ StatSrc(p) \/ StatSrcFails(p) \/ StatDestMissing(p) \/ StatDestExists(p)
             \/ StatDestClashes(p) \/ PromptYes(p) \/ PromptNo(p) \/ RenameDone(p) \/ RenameFails(p)
    BY <2>1 DEF Usage, Guess, Check, CheckFails, NextSource, Exit, StatSrc, StatSrcFails,
         StatDestMissing, StatDestExists, StatDestClashes, PromptYes, PromptNo, RenameDone,
         RenameFails, Quit, Fail
  <2>2. CASE \/ Mkdir(p) \/ Opendir(p) \/ OpendirFails(p) \/ ReaddirEntry(p) \/ ReaddirEnd(p)
             \/ RmdirSrc(p) \/ OpenDest(p) \/ OpenDestForced(p) \/ OpenDestFails(p) \/ UnlinkDest(p)
             \/ OpenSrc(p) \/ OpenSrcFails(p) \/ Read(p) \/ ReadEof(p) \/ ReadFails(p)
             \/ Write(p) \/ WriteFails(p) \/ UnlinkSrc(p) \/ PreserveMeta(p)
    BY <2>2 DEF Mkdir, Opendir, OpendirFails, ReaddirEntry, ReaddirEnd, RmdirSrc, OpenDest,
         OpenDestForced, OpenDestFails, UnlinkDest, OpenSrc, OpenSrcFails, Read, ReadEof,
         ReadFails, Write, WriteFails, UnlinkSrc, PreserveMeta, Fail
  <2> QED
    BY <2>1, <2>2 DEF Step
<1> QED
  BY <1>1

\* What is known of the innermost activation.
LEMMA Setup ==
  ASSUME NEW p \in Proc, Faultless(p), stack[p] # <<>>
  PROVE  /\ Typed /\ Typed' /\ Orderly /\ Linkless(tree) /\ Step(p) /\ Smooth(p)
         /\ Placed /\ Single /\ Guests /\ Unwritten /\ Under(p)
         /\ setting' = setting /\ UNCHANGED main
         /\ Top(p) \in Activation /\ About(p, Top(p))
         /\ Knows(Top(p)) /\ Prepared(Top(p)) /\ Copying(Top(p))
<1>1. Typed /\ Typed' /\ Orderly /\ Moving /\ Step(p)
  BY DEF Faultless, Inv, Calm, Tidy
<1>2. Smooth(p)
  BY Complaints DEF Faultless, Calm, Smooth, Never
<1>3. UNCHANGED main
  BY <1>1, <1>2, StepNext
<1>4. stack[p] \in Seq(Activation) /\ Top(p) \in Activation /\ Len(stack[p]) \in DOMAIN stack[p]
      /\ Top(p) = stack[p][Len(stack[p])]
  BY <1>1, TopIs DEF Typed
<1>5. About(p, Top(p))
  <2>1. Calling(p)
    BY DEF Faultless, Inv, Calm, Tidy
  <2> QED
    BY <1>4, <2>1 DEF Calling
<1>6. Knows(Top(p)) /\ Prepared(Top(p))
  BY <1>4 DEF Faultless, Faring
<1>7. Under(p) /\ Copying(Top(p))
  BY <1>1 DEF Moving, Under
<1> QED
  BY <1>1, <1>2, <1>3, <1>4, <1>5, <1>6, <1>7 DEF Moving, main

\* Of what lies outside only a mv takes away, and only what it is at.
LEMMA SourceTaken ==
  ASSUME NEW p \in Proc, Faultless(p), stack[p] # <<>>, NEW q \in DOMAIN tree, Outside(q),
         q \notin DOMAIN tree'
  PROVE  /\ IsMv(p) /\ IsPrefix(Top(p).src, q)
         /\ Top(p).call \in {"rename", "rmdir", "unlink_src"}
<1>1. /\ Typed /\ Orderly /\ Linkless(tree) /\ Step(p) /\ Under(p) /\ About(p, Top(p))
  BY Setup
<1>2. Alters(Top(p)) /\ (IsPrefix(Top(p).src, q) \/ q = Top(p).dest)
  BY <1>1, TreeShrinks
<1>3. Top(p).dest \in Path /\ IsPrefix(Top(p).dest, Top(p).dest)
  BY <1>1, TopPaths, PrefixElements DEF Path
<1>4. q # Top(p).dest
  BY <1>1, <1>3, TopApart
<1>5. Top(p).call \in {"rename", "rmdir", "unlink_src"}
  BY <1>2, <1>4 DEF Alters, Without, With
<1> QED
  BY <1>1, <1>2, <1>4, <1>5 DEF About

\* Directories that are not moved stay.
LEMMA DirStays ==
  ASSUME NEW p \in Proc, Faultless(p), stack[p] # <<>>, NEW x, IsDir(tree, x),
         ~IsPrefix(Top(p).src, x)
  PROVE  IsDir(tree', x)
<1> DEFINE s == Top(p).src
           d == Top(p).dest
<1>1. /\ Typed /\ Orderly /\ Linkless(tree) /\ Step(p) /\ Under(p)
  BY Setup
<1>2. x \in DOMAIN tree
  BY DEF IsDir, Exists
<1>3. CASE x \in DOMAIN tree' /\ tree'[x] = tree[x]
  BY <1>3 DEF IsDir, Exists
<1>4. CASE Alters(Top(p)) /\ x = d
  <2>1. s \in Path /\ d \in Path /\ Grown(tree) /\ IsPrefix(s, s)
    BY <1>1, TopPaths, PrefixElements DEF Path, Typed, DiskTyped
  <2>2. CASE CanRename(tree, s, d) /\ tree' = Renamed(tree, s, d)
    <3>1. s \in DOMAIN tree /\ IsDir(tree, s)
      BY <1>2, <1>4, <2>2 DEF CanRename, Exists
    <3>2. Swap(s, s, d) = d
      BY <2>1, SwapIs DEF Path
    <3>3. d \in DOMAIN tree' /\ tree'[d] = tree[s]
      BY <2>1, <2>2, <3>1, <3>2, RenamedIs
    <3> QED
      BY <1>4, <3>1, <3>3 DEF IsDir, Exists
  <2>3. CASE tree' = Without(tree, s)
    BY <1>2, <1>4, <2>1, <2>3 DEF Without, IsDir, Exists
  <2>4. CASE CanMake(tree, d)
    BY <1>2, <1>4, <2>4 DEF CanMake, Exists
  <2>5. CASE CanUnlink(tree, d)
    BY <1>4, <2>5 DEF CanUnlink
  <2> QED
    BY <1>4, <2>2, <2>3, <2>4, <2>5 DEF Alters
<1> QED
  BY <1>1, <1>2, <1>3, <1>4, TreeShrinks

\* What leads to DESTINATION is no source and lies below none.
LEMMA AboveDest ==
  ASSUME NEW p \in Proc, Faultless(p), stack[p] # <<>>, NEW x \in Path,
         IsPrefix(x, Dest(p)) \/ IsPrefix(Dest(p), x)
  PROVE  ~IsPrefix(Top(p).src, x)
<1>1. /\ Typed /\ Orderly /\ Under(p)
  BY Setup
<1>2. /\ setting \in Settings /\ Copies(p) /\ operand[p] \in DOMAIN Sources(p)
      /\ Top(p).src \in Path /\ IsPrefix(Sources(p)[operand[p]], Top(p).src)
  BY <1>1, TopPlace
<1>3. Sources(p)[operand[p]] \in Path /\ Dest(p) \in Path
  BY <1>2, ArgumentsAre DEF Copies
<1>4. IsPrefix(Top(p).src, x) => IsPrefix(Sources(p)[operand[p]], x)
  BY <1>2, <1>3, PrefixTransitive DEF Path
<1>5. IsPrefix(x, Dest(p)) /\ IsPrefix(Sources(p)[operand[p]], x)
        => IsPrefix(Sources(p)[operand[p]], Dest(p))
  BY <1>2, <1>3, PrefixTransitive DEF Path
<1>6. ~IsPrefix(Sources(p)[operand[p]], Dest(p))
  BY <1>1, <1>2 DEF Orderly, Parted
<1> QED
  BY <1>1, <1>2, <1>4, <1>5, <1>6, ImageNoSource

\* Of the inodes only that of the image may change.
LEMMA InodesStay ==
  ASSUME NEW p \in Proc, Faultless(p), stack[p] # <<>>, NEW f \in DOMAIN file,
         IsFile(tree, Top(p).dest) => tree[Top(p).dest].ino # f
  PROVE  f \in DOMAIN file' /\ file'[f] = file[f]
<1>1. /\ Typed /\ Orderly /\ Linkless(tree) /\ Step(p) /\ Under(p) /\ Copying(Top(p))
  BY Setup
<1>2. CASE \/ Usage(p) \/ Guess(p) \/ Check(p) \/ CheckFails(p) \/ NextSource(p) \/ Exit(p)
  BY <1>2 DEF Usage, Guess, Check, CheckFails, NextSource, Exit, Quit
<1>3. CASE \/ StatSrc(p) \/ StatSrcFails(p) \/ StatDestMissing(p) \/ StatDestExists(p)
           \/ StatDestClashes(p) \/ PromptYes(p) \/ PromptNo(p) \/ RenameFails(p)
           \/ Opendir(p) \/ OpendirFails(p) \/ ReaddirEnd(p) \/ OpenDestForced(p)
           \/ OpenDestFails(p) \/ OpenSrc(p) \/ OpenSrcFails(p) \/ Read(p) \/ ReadEof(p)
           \/ ReadFails(p) \/ WriteFails(p) \/ ReaddirEntry(p)
           \/ RenameDone(p) \/ Mkdir(p) \/ RmdirSrc(p) \/ UnlinkDest(p) \/ UnlinkSrc(p)
  BY <1>3 DEF StatSrc, StatSrcFails, StatDestMissing, StatDestExists, StatDestClashes, PromptYes,
         PromptNo, RenameFails, Opendir, OpendirFails, ReaddirEnd, OpenDestForced,
         OpenDestFails, OpenSrc, OpenSrcFails, Read, ReadEof, ReadFails, WriteFails,
         ReaddirEntry, disk, RenameDone, Mkdir, RmdirSrc, UnlinkDest, UnlinkSrc
<1>f. file \in Seq(Inode) /\ Len(file) \in Nat /\ DOMAIN file = 1..Len(file)
  BY <1>1 DEF Typed, DiskTyped
<1>d. Follow(tree, Top(p).dest) = Top(p).dest
  BY <1>1, TopStraight
<1>4. CASE OpenDest(p)
  <2> DEFINE i == IF IsFile(tree, Top(p).dest) THEN tree[Top(p).dest].ino ELSE Len(file) + 1
  <2>1. file' = Touched(file, i, <<>>) \/ file' = Append(file, Fresh)
    BY <1>4, <1>d DEF OpenDest
  <2>2. f # i
    BY <1>f
  <2> HIDE DEF i
  <2>3. file' = [file EXCEPT ![i].data = <<>>, ![i].meta.time = "now"] \/ file' = Append(file, Fresh)
    BY <2>1 DEF Touched
  <2> QED
    BY <1>f, <2>2, <2>3
<1>5. CASE Write(p)
  <2>1. Top(p).call = "write"
    BY <1>5 DEF Write, Busy, Top
  <2>2. IsFile(tree, Top(p).dest) /\ tree[Top(p).dest].ino = Top(p).out
    BY <1>1, <2>1 DEF Copying, CopyingFile, Partly
  <2>3. PICK b : file' = Written(p, b)
    BY <1>5 DEF Write
  <2> DEFINE g == Stored(file[Top(p).out].data, Top(p).pos, b)
  <2>4. file' = [file EXCEPT ![Top(p).out].data = g, ![Top(p).out].meta.time = "now"]
    BY <2>3 DEF Written, Touched
  <2> HIDE DEF g
  <2> QED
    BY <1>f, <2>2, <2>4
<1>6. CASE PreserveMeta(p)
  <2>1. CASE file' = file
    BY <2>1
  <2>2. CASE file' # file
    <3> DEFINE i == tree[Top(p).dest].ino
    <3>1. IsFile(tree, Top(p).dest)
      BY <1>6, <1>d, <2>2 DEF PreserveMeta
    <3>2. PICK r : file' = [file EXCEPT ![i].meta = Preserved(@, Top(p).meta, r)]
      BY <1>6, <1>d, <2>2 DEF PreserveMeta
    <3> DEFINE m == Preserved(file[i].meta, Top(p).meta, r)
    <3>3. file' = [file EXCEPT ![i].meta = m] /\ f # i
      BY <3>1, <3>2
    <3> HIDE DEF m, i
    <3> QED
      BY <1>f, <3>3
  <2> QED
    BY <2>1, <2>2
<1> QED
  BY <1>1, <1>2, <1>3, <1>4, <1>5, <1>6, Zenon DEF Step

\* Below the places that are copied to, directories stay, and so does the directory
\* a place is in.
LEMMA PlaceStays ==
  ASSUME NEW p \in Proc, Faultless(p), stack[p] # <<>>, NEW x \in Path, IsPrefix(Dest(p), x)
  PROVE  /\ IsDir(tree, x) => IsDir(tree', x)
         /\ IsDir(tree, Front(x)) => IsDir(tree', Front(x))
<1>1. IsDir(tree, x) => IsDir(tree', x)
  BY AboveDest, DirStays
<1>2. Dest(p) \in Path /\ Dest(p) # <<>>
  <2>1. /\ Typed /\ Orderly /\ Under(p)
    BY Setup
  <2>2. /\ setting \in Settings /\ Copies(p) /\ operand[p] \in DOMAIN Sources(p)
    BY <2>1, TopPlace
  <2>3. /\ Dest(p) \in Path /\ Sources(p)[operand[p]] \in Path
    BY <2>2, ArgumentsAre DEF Copies
  <2>4. ~IsPrefix(Dest(p), Sources(p)[operand[p]])
    BY <2>1, <2>2 DEF Orderly, Parted
  <2>5. ASSUME Len(Dest(p)) = 0
        PROVE  IsPrefix(Dest(p), Sources(p)[operand[p]])
    <3>1. Len(Sources(p)[operand[p]]) \in Nat /\ 1..Len(Dest(p)) = {}
      BY <2>3, <2>5 DEF Path
    <3>2. Dest(p) \in Seq(Name) /\ Sources(p)[operand[p]] \in Seq(Name)
      BY <2>3 DEF Path
    <3>3. Len(Dest(p)) <= Len(Sources(p)[operand[p]])
      BY <2>5, <3>1
    <3>4. \A i \in 1..Len(Dest(p)) : Dest(p)[i] = Sources(p)[operand[p]][i]
      BY <3>1
    <3> QED
      BY <3>2, <3>3, <3>4, PrefixElements
  <2> QED
    BY <2>3, <2>4, <2>5 DEF Path
<1>3. x \in Seq(Name) /\ Dest(p) \in Seq(Name) /\ Len(Dest(p)) \in Nat /\ Len(x) \in Nat
  BY <1>2 DEF Path
<1>4. Len(Dest(p)) >= 1 /\ Len(Dest(p)) <= Len(x) /\ \A i \in 1..Len(Dest(p)) : Dest(p)[i] = x[i]
  BY <1>2, <1>3, PrefixElements
<1>5. x # <<>>
  BY <1>3, <1>4
<1>6. Front(x) \in Seq(Name) /\ Len(Front(x)) = Len(x) - 1 /\ \A i \in 1..(Len(x) - 1) : Front(x)[i] = x[i]
  BY <1>3, <1>5, FrontAndLast
<1>7. IsPrefix(Front(x), Dest(p)) \/ IsPrefix(Dest(p), Front(x))
  <2>1. CASE Len(Dest(p)) <= Len(x) - 1
    <3>1. \A i \in 1..Len(Dest(p)) : Dest(p)[i] = Front(x)[i]
      BY <1>3, <1>4, <1>6, <2>1
    <3> QED
      BY <1>3, <1>6, <2>1, <3>1, PrefixElements
  <2>2. CASE Len(Dest(p)) > Len(x) - 1
    <3>1. Len(Dest(p)) = Len(x)
      BY <1>3, <1>4, <2>2
    <3>2. \A i \in 1..Len(Front(x)) : Front(x)[i] = Dest(p)[i]
      BY <1>3, <1>4, <1>6, <3>1
    <3> QED
      BY <1>3, <1>6, <3>1, <3>2, PrefixElements
  <2> QED
    BY <1>3, <2>1, <2>2
<1>8. Front(x) \in Path
  BY <1>6 DEF Path
<1> QED
  BY <1>1, <1>7, <1>8, AboveDest, DirStays

\* A call before the copying is followed by another one.
LEMMA EarlyTurn ==
  ASSUME NEW p \in Proc, Faultless(p), stack[p] # <<>>, Top(p).call \in Early,
         NEW act, GoOn(p, act), act.call \in Early,
         act.src = Top(p).src, act.dest = Top(p).dest, Knows(act),
         Top(p).call = "rename" => tree' = tree,
         act.call \in {"prompt", "rename", "mkdir"} /\ Exists(tree', act.dest) =>
           (IsDir(tree', act.dest) <=> act.dir),
         act.call = "opendir" => IsDir(tree', act.dest)
  PROVE  Turns(p)
<1>1. /\ Typed /\ Typed' /\ Orderly /\ Under(p) /\ Prepared(Top(p)) /\ setting' = setting
  BY Setup
<1>2. act \in Activation
  BY <1>1, GoesOnTyped DEF Typed
<1>3. "readdir" \notin Early /\ Early \cap Late = {} /\ "rmdir" \notin Early /\ "unlink_src" \notin Early
      /\ "preserve" \notin Early
  BY DEF Early, Late
<1>4. \A q : (Ahead(Top(p), q) <=> IsPrefix(Top(p).src, q)) /\ (Ahead(act, q) <=> IsPrefix(Top(p).src, q))
  BY <1>3 DEF Ahead
<1>5. IsDir(tree', Front(act.dest))
  BY <1>1, TopPlace, PlaceStays DEF Prepared
<1>6. Prepared(act)'
  BY <1>3, <1>5 DEF Prepared
<1>7. ASSUME NEW q \in DOMAIN setting.tree, Ahead(act, q), q \in DOMAIN tree
      PROVE  q \in DOMAIN tree'
  <2>1. q \in Path
    BY <1>1, <1>7 DEF Typed, DiskTyped, Grown
  <2>2. Outside(q)
    BY <1>1, <1>4, <1>7, <2>1, TopApart
  <2> QED
    BY <1>3, <1>7, <2>2, SourceTaken
<1>8. Narrows(p, act)
  BY <1>3, <1>4, <1>7 DEF Narrows
<1> QED
  BY <1>2, <1>6, <1>8 DEF Turns

\* The same when nothing is learnt at the call.
LEMMA EarlyOn ==
  ASSUME NEW p \in Proc, Faultless(p), stack[p] # <<>>, Top(p).call \in Early \ {"stat_src"},
         NEW act, GoOn(p, act), act.call \in Early,
         act.src = Top(p).src, act.dest = Top(p).dest, act.dir = Top(p).dir,
         act.meta = Top(p).meta, act.seen = Top(p).seen,
         Top(p).call = "rename" => tree' = tree,
         act.call \in {"prompt", "rename", "mkdir"} /\ Exists(tree', act.dest) =>
           (IsDir(tree', act.dest) <=> act.dir),
         act.call = "opendir" => IsDir(tree', act.dest)
  PROVE  Turns(p)
<1>1. Knows(Top(p))
  BY Setup
<1>2. act.call # "readdir" /\ act.call \notin Late
  BY DEF Early, Late
<1>3. Knows(act)
  BY <1>1, <1>2 DEF Knows
<1> QED
  BY <1>3, EarlyTurn

\* By stat of the source.
LEMMA StatSrcTurns ==
  ASSUME NEW p \in Proc, Faultless(p), stack[p] # <<>>, StatSrc(p)
  PROVE  Turns(p)
<1> DEFINE s == Top(p).src
           m == IF IsFile(tree, s) THEN file[tree[s].ino].meta ELSE NoMeta
<1>1. /\ Typed /\ Orderly /\ Linkless(tree) /\ Under(p) /\ Placed /\ Top(p) \in Activation
      /\ Knows(Top(p)) /\ setting' = setting
  BY Setup
<1>2. Found(tree, s) = s /\ s \in Path
  BY <1>1, TopStraight, TopPaths
<1>3. Top(p).call = "stat_src" /\ Exists(tree, s)
  BY <1>2 DEF StatSrc, Busy, Top
<1>4. GoOn(p, [Top(p) EXCEPT !.call = "stat_dest", !.dir = IsDir(tree, s),
                             !.id = Identity(tree, s), !.meta = m])
  BY <1>2 DEF StatSrc
<1> HIDE DEF m
<1>5. PICK act : act = [Top(p) EXCEPT !.call = "stat_dest", !.dir = IsDir(tree, s),
                                      !.id = Identity(tree, s), !.meta = m]
  OBVIOUS
<1>6. /\ act.call = "stat_dest" /\ act.src = s /\ act.dest = Top(p).dest
      /\ act.meta = m /\ act.seen = Top(p).seen
  BY <1>1, <1>5 DEF Activation
<1>7. act.dir = IsDir(tree, s)
  BY <1>1, <1>5, Zenon DEF Activation
<1>8. tree[s] = setting.tree[s] /\ (s \in Home <=> IsFile(tree, s)) /\ s \in DOMAIN tree
  BY <1>1, <1>3, SourceIs DEF Exists
<1>9. IsPrefix(s, s)
  BY <1>2, PrefixElements DEF Path
<1>10. s \in DOMAIN setting.tree
  BY <1>1, <1>2, <1>8, <1>9, TopApart DEF Placed
<1>11. IsDir(tree, s) <=> IsDir(setting.tree, s)
  BY <1>8, <1>10 DEF IsDir, Exists
<1>12. s \in Home => act.meta = HomeMeta(s)
  <2> SUFFICES ASSUME s \in Home PROVE act.meta = HomeMeta(s)
    OBVIOUS
  <2>1. setting.tree[s].ino \in HomeInodes
    BY <1>1, HomeIs
  <2>2. MetaUnwritten
    BY DEF Faultless, Faring
  <2> QED
    BY <1>6, <1>8, <2>1, <2>2 DEF m, MetaUnwritten, HomeMeta
<1>13. act.call \in Early /\ Top(p).call \in Early
  BY <1>3, <1>6 DEF Early
<1>14. act.dir <=> IsDir(setting.tree, s)
  BY <1>7, <1>11, Zenon
<1>15. act.seen = {}
  BY <1>1, <1>6, <1>13 DEF Knows
<1>16. Knows(act)
  <2>1. act.call \notin Late
    BY <1>6 DEF Late
  <2> QED
  BY <2>1, <1>6, <1>10, <1>12, <1>14, <1>15 DEF Knows
<1>17. GoOn(p, act)
  BY <1>4, <1>5
<1> QED
  BY <1>3, <1>6, <1>13, <1>16, <1>17, EarlyTurn

\* Calls before the copying that go on to the call c.
LEMMA EarlyTo ==
  ASSUME NEW p \in Proc, Faultless(p), stack[p] # <<>>, Top(p).call \in Early \ {"stat_src"},
         NEW c \in Early \ {"stat_src"}, To(p, c),
         Top(p).call = "rename" => tree' = tree,
         c \in {"prompt", "rename", "mkdir"} /\ Exists(tree', Top(p).dest) =>
           (IsDir(tree', Top(p).dest) <=> Top(p).dir),
         c = "opendir" => IsDir(tree', Top(p).dest)
  PROVE  Turns(p)
<1>1. Top(p) \in Activation
  BY Setup
<1>2. PICK act : act = [Top(p) EXCEPT !.call = c]
  OBVIOUS
<1>3. /\ act.call = c /\ act.src = Top(p).src /\ act.dest = Top(p).dest
      /\ act.meta = Top(p).meta /\ act.seen = Top(p).seen
  BY <1>1, <1>2 DEF Activation
<1>4. act.dir = Top(p).dir
  BY <1>1, <1>2, Zenon DEF Activation
<1>5. GoOn(p, act)
  BY <1>2 DEF To
<1>6. act.call \in {"prompt", "rename", "mkdir"} /\ Exists(tree', act.dest) =>
        (IsDir(tree', act.dest) <=> act.dir)
  BY <1>3, <1>4, Zenon
<1>7. act.call = "opendir" => IsDir(tree', act.dest)
  BY <1>3
<1> QED
  BY <1>3, <1>4, <1>5, <1>6, <1>7, EarlyOn

\* By the checks of DESTINATION and the question.
LEMMA ChecksTurn ==
  ASSUME NEW p \in Proc, Faultless(p), stack[p] # <<>>,
         StatDestMissing(p) \/ StatDestExists(p) \/ PromptYes(p) \/ RenameFails(p)
  PROVE  Turns(p)
<1> DEFINE d == Top(p).dest
<1>1. /\ Typed /\ Linkless(tree) /\ Top(p) \in Activation /\ Prepared(Top(p))
  BY Setup
<1>2. Follow(tree, d) = d
  BY <1>1, TopStraight
<1>3. tree' = tree
  BY DEF StatDestMissing, StatDestExists, PromptYes, RenameFails, disk
<1>4. FirstWay(p) \in Early \ {"stat_src"} /\ FirstWay(p) # "opendir"
  BY DEF FirstWay, Early
<1>5. "prompt" \in Early \ {"stat_src"} /\ "mkdir" \in Early \ {"stat_src"} /\ "open_dest" \in Early \ {"stat_src"}
      /\ "stat_dest" \in Early \ {"stat_src"} /\ "rename" \in Early \ {"stat_src"}
  BY DEF Early
<1>6. CASE StatDestMissing(p)
  <2>1. Top(p).call = "stat_dest" /\ ~Exists(tree', d) /\ To(p, FirstWay(p))
    BY <1>2, <1>3, <1>6 DEF StatDestMissing, Busy, Top
  <2> QED
    BY <1>4, <1>5, <2>1, EarlyTo
<1>7. CASE StatDestExists(p)
  <2>1. Top(p).call = "stat_dest" /\ (To(p, FirstWay(p)) \/ To(p, "prompt"))
    BY <1>7 DEF StatDestExists, Busy, Top
  <2>2. IsDir(tree, d) <=> Top(p).dir
    <3>1. ~(IsDir(tree, d) # Top(p).dir)
      BY <1>2, <1>7 DEF StatDestExists, Clash
    <3> QED
      BY <3>1, Zenon
  <2>3. IsDir(tree', d) <=> Top(p).dir
    BY <1>3, <2>2, Zenon
  <2> QED
    BY <1>3, <1>4, <1>5, <2>1, <2>3, EarlyTo
<1>8. CASE RenameFails(p)
  <2>1. Top(p).call = "rename" /\ (To(p, "mkdir") \/ To(p, "open_dest"))
    BY <1>8 DEF RenameFails, Busy, Top
  <2>2. Exists(tree, d) => (IsDir(tree, d) <=> Top(p).dir)
    BY <1>1, <2>1 DEF Prepared
  <2>3. Exists(tree', d) => (IsDir(tree', d) <=> Top(p).dir)
    BY <1>3, <2>2, Zenon
  <2> QED
    BY <1>3, <1>5, <2>1, <2>3, EarlyTo
<1>9. CASE PromptYes(p)
  <2>a. PICK a : GoOn(p, [Top(p) EXCEPT !.call = FirstWay(p), !.consent = a \in Accepted])
    BY <1>9 DEF PromptYes
  <2>1. /\ Top(p).call = "prompt"
        /\ GoOn(p, [Top(p) EXCEPT !.call = FirstWay(p), !.consent = a \in Accepted])
    BY <1>9, <2>a DEF PromptYes, Busy, Top
  <2>2. Exists(tree, d) => (IsDir(tree, d) <=> Top(p).dir)
    BY <1>1, <2>1 DEF Prepared
  <2>3. PICK act : act = [Top(p) EXCEPT !.call = FirstWay(p), !.consent = a \in Accepted]
    OBVIOUS
  <2>4. /\ act.call = FirstWay(p) /\ act.src = Top(p).src /\ act.dest = Top(p).dest
        /\ act.meta = Top(p).meta /\ act.seen = Top(p).seen
    BY <1>1, <2>3 DEF Activation
  <2>5. act.dir = Top(p).dir
    BY <1>1, <2>3, Zenon DEF Activation
  <2>6. GoOn(p, act)
    BY <2>1, <2>3
  <2>7. Exists(tree', act.dest) => (IsDir(tree', act.dest) <=> act.dir)
    BY <1>3, <2>2, <2>4, <2>5, Zenon
  <2> QED
    BY <1>4, <1>5, <2>1, <2>4, <2>5, <2>6, <2>7, EarlyOn
<1> QED
  BY <1>6, <1>7, <1>8, <1>9

\* DESTINATION is not the working directory.
LEMMA DestIs ==
  ASSUME NEW p \in Proc, Faultless(p), stack[p] # <<>>
  PROVE  /\ Dest(p) \in Path /\ Dest(p) # <<>> /\ IsPrefix(Dest(p), Top(p).dest)
         /\ Top(p).dest \in Path /\ Top(p).dest # <<>>
<1>1. /\ Typed /\ Orderly /\ Under(p)
  BY Setup
<1>2. /\ setting \in Settings /\ Copies(p) /\ operand[p] \in DOMAIN Sources(p)
      /\ Top(p).dest \in Path /\ IsPrefix(Dest(p), Top(p).dest)
  BY <1>1, TopPlace
<1>3. Dest(p) \in Path /\ Sources(p)[operand[p]] \in Path
  BY <1>2, ArgumentsAre DEF Copies
<1>4. Dest(p) \in Seq(Name) /\ Sources(p)[operand[p]] \in Seq(Name) /\ Top(p).dest \in Seq(Name)
  BY <1>2, <1>3 DEF Path
<1>5. ~IsPrefix(Dest(p), Sources(p)[operand[p]])
  BY <1>1, <1>2 DEF Orderly, Parted
<1>6. ASSUME Len(Dest(p)) = 0 PROVE FALSE
  <2>1. Len(Sources(p)[operand[p]]) \in Nat /\ 1..Len(Dest(p)) = {}
    BY <1>4, <1>6
  <2>2. Len(Dest(p)) <= Len(Sources(p)[operand[p]])
    BY <1>6, <2>1
  <2>3. \A i \in 1..Len(Dest(p)) : Dest(p)[i] = Sources(p)[operand[p]][i]
    BY <2>1
  <2> QED
    BY <1>4, <1>5, <2>2, <2>3, PrefixElements
<1>7. Len(Dest(p)) <= Len(Top(p).dest)
  BY <1>2, <1>4, PrefixElements
<1>8. Len(Dest(p)) \in Nat /\ Len(Top(p).dest) \in Nat
  BY <1>4
<1>9. Len(Dest(p)) # 0 /\ Len(Top(p).dest) # 0
  BY <1>6, <1>7, <1>8
<1> QED
  BY <1>2, <1>3, <1>9

\* By the mkdir, which is never refused.
LEMMA MkdirTurns ==
  ASSUME NEW p \in Proc, Faultless(p), stack[p] # <<>>, Mkdir(p)
  PROVE  Turns(p)
<1> DEFINE d == Top(p).dest
<1>1. /\ Typed /\ Linkless(tree) /\ Top(p) \in Activation /\ Prepared(Top(p)) /\ About(p, Top(p))
  BY Setup
<1>2. NoFollow(tree, d) = d
  BY <1>1, TopStraight
<1>3. Top(p).call = "mkdir" /\ To(p, "opendir")
  BY DEF Mkdir, Busy, Top
<1>4. ~Refused("mkdir")
  BY DEF Faultless, Calm, Never, Refused
<1>5. Top(p).dir
  BY <1>1, <1>3 DEF About
<1>6. CASE CanMake(tree, d) /\ tree' = With(tree, d, Dir)
  <2>1. IsDir(tree', d)
    BY <1>6 DEF With, IsDir, Exists, Dir
  <2> QED
    BY <1>3, <2>1, EarlyTo DEF Early
<1>7. CASE ~CanMake(tree, d) /\ tree' = tree
  <2>1. d # <<>> /\ IsDir(tree, Front(d))
    BY <1>1, DestIs DEF Prepared
  <2>2. Exists(tree, d)
    BY <1>7, <2>1 DEF CanMake
  <2>3. IsDir(tree', d)
    BY <1>1, <1>3, <1>5, <1>7, <2>2 DEF Prepared
  <2> QED
    BY <1>3, <2>3, EarlyTo DEF Early
<1> QED
  BY <1>2, <1>4, <1>6, <1>7 DEF Mkdir

\* By the open of DESTINATION and of the source, and the copying loop.
LEMMA CopyingTurns ==
  ASSUME NEW p \in Proc, Faultless(p), stack[p] # <<>>,
         \/ OpenDest(p) \/ OpenDestForced(p) \/ UnlinkDest(p) \/ OpenSrc(p) \/ Read(p) \/ Write(p)
  PROVE  Turns(p)
<1>1. Top(p) \in Activation
  BY Setup
<1>2. /\ "open_dest" \in Early /\ "reopen_dest" \in Early /\ "unlink_dest" \in Early
      /\ "open_src" \in Early /\ "read" \in Early /\ "write" \in Early
  BY DEF Early
<1>3. CASE OpenDestForced(p)
  BY <1>2, <1>3, EarlyTo DEF OpenDestForced, Busy, Top
<1>4. CASE UnlinkDest(p)
  BY <1>2, <1>4, EarlyTo DEF UnlinkDest, Busy, Top
<1>5. CASE Write(p)
  BY <1>2, <1>5, EarlyTo DEF Write, Busy, Top
<1>6. CASE OpenDest(p)
  <2>1. Top(p).call \in {"open_dest", "reopen_dest"}
    BY <1>6 DEF OpenDest, Busy, Top
  <2> DEFINE e == Follow(tree, Top(p).dest)
             i == IF IsFile(tree, e) THEN tree[e].ino ELSE Len(file) + 1
  <2>2. GoOn(p, [Top(p) EXCEPT !.call = "open_src", !.out = i])
    BY <1>6 DEF OpenDest
  <2> HIDE DEF i
  <2>3. PICK act : act = [Top(p) EXCEPT !.call = "open_src", !.out = i]
    OBVIOUS
  <2>4. /\ act.call = "open_src" /\ act.src = Top(p).src /\ act.dest = Top(p).dest
        /\ act.meta = Top(p).meta /\ act.seen = Top(p).seen
    BY <1>1, <2>3 DEF Activation
  <2>5. act.dir = Top(p).dir
    BY <1>1, <2>3, Zenon DEF Activation
  <2>6. GoOn(p, act)
    BY <2>2, <2>3
  <2> QED
    BY <1>2, <2>1, <2>4, <2>5, <2>6, EarlyOn
<1>7. CASE OpenSrc(p)
  <2>1. Top(p).call = "open_src"
    BY <1>7 DEF OpenSrc, Busy, Top
  <2> DEFINE i == Identity(tree, Follow(tree, Top(p).src)).ino
  <2>2. GoOn(p, [Top(p) EXCEPT !.call = "read", !.in = i])
    BY <1>7 DEF OpenSrc
  <2> HIDE DEF i
  <2>3. PICK act : act = [Top(p) EXCEPT !.call = "read", !.in = i]
    OBVIOUS
  <2>4. /\ act.call = "read" /\ act.src = Top(p).src /\ act.dest = Top(p).dest
        /\ act.meta = Top(p).meta /\ act.seen = Top(p).seen
    BY <1>1, <2>3 DEF Activation
  <2>5. act.dir = Top(p).dir
    BY <1>1, <2>3, Zenon DEF Activation
  <2>6. GoOn(p, act)
    BY <2>2, <2>3
  <2> QED
    BY <1>2, <2>1, <2>4, <2>5, <2>6, EarlyOn
<1>8. CASE Read(p)
  <2>1. Top(p).call = "read"
    BY <1>8 DEF Read, Busy, Top
  <2> DEFINE i == Top(p).pos + 1
             b == file[Top(p).in].data[Top(p).pos + 1]
  <2>3. GoOn(p, [Top(p) EXCEPT !.call = "write", !.pos = i, !.buf = b])
    BY <1>8 DEF Read
  <2> HIDE DEF i, b
  <2>4. PICK act : act = [Top(p) EXCEPT !.call = "write", !.pos = i, !.buf = b]
    OBVIOUS
  <2>5. /\ act.call = "write" /\ act.src = Top(p).src /\ act.dest = Top(p).dest
        /\ act.meta = Top(p).meta /\ act.seen = Top(p).seen
    BY <1>1, <2>4 DEF Activation
  <2>6. act.dir = Top(p).dir
    BY <1>1, <2>4, Zenon DEF Activation
  <2>7. GoOn(p, act)
    BY <2>3, <2>4
  <2> QED
    BY <1>2, <2>1, <2>5, <2>6, <2>7, EarlyOn
<1> QED
  BY <1>3, <1>4, <1>5, <1>6, <1>7, <1>8

\* The entry of a directory by which a path leads on.
LEMMA EntryOnWay ==
  ASSUME NEW s \in Path, NEW q \in Path
  PROVE  /\ IsStrictPrefix(s, q) => q[Len(s) + 1] \in Name
         /\ IsStrictPrefix(s, q) <=> IsPrefix(s, q) /\ s # q
         /\ \A n \in Name : Append(s, n) \in Path /\
              (IsPrefix(Append(s, n), q) <=> IsStrictPrefix(s, q) /\ q[Len(s) + 1] = n)
<1>1. s \in Seq(Name) /\ q \in Seq(Name) /\ Len(s) \in Nat /\ Len(q) \in Nat
  BY DEF Path
<1>2. IsPrefix(s, q) <=> Len(s) <= Len(q) /\ \A i \in 1..Len(s) : s[i] = q[i]
  BY <1>1, PrefixElements
<1>3. IsStrictPrefix(s, q) <=> IsPrefix(s, q) /\ s # q
  BY DEF IsStrictPrefix
<1>4. IsPrefix(s, q) /\ s # q <=> IsPrefix(s, q) /\ Len(s) < Len(q)
  <2>1. ASSUME IsPrefix(s, q), Len(s) = Len(q)
        PROVE  s = q
    BY <1>1, <1>2, <2>1, SeqEqual
  <2>2. ASSUME s = q
        PROVE  Len(s) = Len(q)
    BY <2>2
  <2> QED
    BY <1>1, <1>2, <2>1, <2>2
<1>5. ASSUME IsStrictPrefix(s, q)
      PROVE  q[Len(s) + 1] \in Name
  <2>1. Len(s) + 1 \in 1..Len(q)
    BY <1>1, <1>3, <1>4, <1>5
  <2> QED
    BY <1>1, <2>1
<1>6. ASSUME NEW n \in Name
      PROVE  /\ Append(s, n) \in Path
             /\ IsPrefix(Append(s, n), q) <=> IsStrictPrefix(s, q) /\ q[Len(s) + 1] = n
  <2> DEFINE e == Append(s, n)
  <2>1. /\ e \in Seq(Name) /\ Len(e) = Len(s) + 1 /\ e[Len(s) + 1] = n
        /\ \A i \in 1..Len(s) : e[i] = s[i]
    BY <1>1
  <2> HIDE DEF e
  <2>2. IsPrefix(e, q) <=> Len(e) <= Len(q) /\ \A i \in 1..Len(e) : e[i] = q[i]
    BY <1>1, <2>1, PrefixElements
  <2>3. ASSUME IsPrefix(e, q)
        PROVE  IsStrictPrefix(s, q) /\ q[Len(s) + 1] = n
    BY <1>1, <1>2, <1>3, <1>4, <2>1, <2>2, <2>3
  <2>4. ASSUME IsStrictPrefix(s, q), q[Len(s) + 1] = n
        PROVE  IsPrefix(e, q)
    <3>1. Len(e) <= Len(q) /\ \A i \in 1..Len(s) : s[i] = q[i]
      BY <1>1, <1>2, <1>3, <1>4, <2>1, <2>4
    <3>2. \A i \in 1..Len(e) : e[i] = q[i]
      BY <1>1, <2>1, <2>4, <3>1
    <3> QED
      BY <2>2, <3>1, <3>2
  <2>5. e \in Path
    BY <2>1 DEF Path
  <2> QED
    BY <2>3, <2>4, <2>5 DEF e
<1> QED
  BY <1>3, <1>5, <1>6

\* How an image is complete after a step.
LEMMA ImagedNext ==
  ASSUME NEW p \in Proc, Faultless(p), stack[p] # <<>>, NEW q,
         NEW x, x = ImageOf(p, operand[p], q),
         IsDir(setting.tree, q) => IsDir(tree', x),
         IsFile(setting.tree, q) =>
           /\ IsFile(tree', x) /\ tree'[x].ino \in DOMAIN file'
           /\ file'[tree'[x].ino].data = HomeData(q)
           /\ Faithful(p) => file'[tree'[x].ino].meta \in Inherited(HomeMeta(q))
  PROVE  Imaged(p, q, ImageOf(p, operand[p], q))'
<1>1. setting' = setting /\ target' = target /\ operand' = operand
  BY Setup DEF main
<1>2. ImageOf(p, operand[p], q)' = x
  <2>1. Sources(p)' = Sources(p) /\ Dest(p)' = Dest(p)
    BY <1>1, NamesStay
  <2>2. Image(p, operand[p])' = Image(p, operand[p])
    BY <1>1, <2>1 DEF Image
  <2> QED
    BY <1>1, <2>1, <2>2 DEF ImageOf
<1>3. Faithful(p)' <=> Faithful(p)
  BY <1>1 DEF Faithful, Preserve, IsMv, cmd, Never
<1>4. HomeData(q)' = HomeData(q) /\ HomeMeta(q)' = HomeMeta(q)
  BY <1>1 DEF HomeData, HomeMeta
<1>5. Imaged(p, q, x)'
  BY <1>1, <1>3, <1>4 DEF Imaged, Filled
<1> QED
  BY <1>2, <1>5 DEF Imaged, Filled

\* What is ahead of the innermost activation is still there.
LEMMA TopWaits ==
  ASSUME NEW p \in Proc, Faultless(p), stack[p] # <<>>,
         NEW q \in DOMAIN setting.tree, Ahead(Top(p), q), Top(p).call \notin Late
  PROVE  q \in DOMAIN tree
<1>1. Len(stack[p]) \in DOMAIN stack[p] /\ Top(p) = stack[p][Len(stack[p])]
  <2>1. Typed
    BY Setup
  <2> QED
    BY <2>1, TopIs DEF Typed
<1>2. Waiting(p)
  BY DEF Faultless, Faring
<1> QED
  BY <1>1, <1>2 DEF Waiting

\* By opendir.
LEMMA OpendirTurns ==
  ASSUME NEW p \in Proc, Faultless(p), stack[p] # <<>>, Opendir(p)
  PROVE  Turns(p)
<1> DEFINE s == Top(p).src
           d == Top(p).dest
           S == Entries(tree, s) \cup Dots
<1>1. /\ Typed /\ Typed' /\ Orderly /\ Linkless(tree) /\ Under(p) /\ Top(p) \in Activation
      /\ About(p, Top(p)) /\ Knows(Top(p)) /\ Prepared(Top(p))
  BY Setup
<1>2. Follow(tree, s) = s /\ s \in Path
  BY <1>1, TopStraight, TopPaths
<1>3. Top(p).call = "opendir" /\ GoOn(p, [Top(p) EXCEPT !.call = "readdir", !.snap = S])
      /\ tree' = tree /\ file' = file
  BY <1>2 DEF Opendir, Busy, Top, disk
<1>e. "opendir" \in Early /\ "readdir" \notin Early /\ "readdir" \notin Late /\ "opendir" \notin Late
      /\ "opendir" # "stat_src"
  BY DEF Early, Late
<1> HIDE DEF S
<1>4. PICK act : act = [Top(p) EXCEPT !.call = "readdir", !.snap = S]
  OBVIOUS
<1>5. /\ act.call = "readdir" /\ act.src = s /\ act.dest = d /\ act.snap = S
      /\ act.meta = Top(p).meta /\ act.seen = Top(p).seen
  BY <1>1, <1>4 DEF Activation
<1>6. act.dir = Top(p).dir
  BY <1>1, <1>4, Zenon DEF Activation
<1>7. GoOn(p, act) /\ act \in Activation
  <2>1. GoOn(p, act)
    BY <1>3, <1>4
  <2> QED
    BY <1>1, <2>1, GoesOnTyped DEF Typed
<1>8. act.seen = {}
  BY <1>1, <1>3, <1>5, <1>e DEF Knows
<1>9. ASSUME NEW q \in DOMAIN setting.tree, IsStrictPrefix(s, q)
      PROVE  q[Len(s) + 1] \in S
  <2>1. q \in Path
    BY <1>1, SettingIs DEF Typed, ProgressTyped, Grown
  <2>2. IsPrefix(s, q)
    BY <1>2, <1>9, <2>1, EntryOnWay
  <2>3. q \in DOMAIN tree
    BY <1>3, <1>e, <2>2, TopWaits DEF Ahead
  <2> DEFINE n == q[Len(s) + 1]
  <2>4. n \in Name /\ Append(s, n) \in Path /\ IsPrefix(Append(s, n), q)
    BY <1>2, <1>9, <2>1, EntryOnWay
  <2>5. Exists(tree, Append(s, n))
    BY <1>1, <2>3, <2>4, AboveIsGrown DEF Typed, DiskTyped
  <2> QED
    BY <2>4, <2>5 DEF S, Entries
<1>10. Top(p).dir /\ s \in DOMAIN setting.tree /\ IsDir(setting.tree, s)
  BY <1>1, <1>3, <1>e DEF About, Knows
<1>11. s \in Home => act.meta = HomeMeta(s)
  BY <1>1, <1>3, <1>5, <1>e DEF Knows
<1>12. act.dir <=> IsDir(setting.tree, s)
  BY <1>6, <1>10, Zenon
<1>13. Knows(act)
  BY <1>5, <1>8, <1>9, <1>10, <1>11, <1>12 DEF Knows
<1>14. IsDir(tree, d) /\ IsDir(tree', d)
  BY <1>1, <1>3, <1>10 DEF Prepared
<1>15. IsDir(tree', Front(d))
  BY <1>1, <1>3 DEF Prepared
<1>16. Prepared(act)'
  BY <1>5, <1>14, <1>15, <1>e DEF Prepared
<1>17. ASSUME NEW q \in DOMAIN setting.tree, Ahead(Top(p), q)
       PROVE  Ahead(act, q) \/ Imaged(p, q, ImageOf(p, operand[p], q))'
  <2>1. q \in Path /\ IsPrefix(s, q)
    BY <1>1, <1>3, <1>17, <1>e, SettingIs DEF Typed, ProgressTyped, Grown, Ahead
  <2>2. CASE q = s
    <3>1. d = ImageOf(p, operand[p], q)
      BY <1>1, <2>2, TopPlace
    <3>2. ~IsFile(setting.tree, q)
      BY <1>10, <2>2 DEF IsFile, IsDir
    <3> QED
      BY <1>14, <3>1, <3>2, ImagedNext
  <2>3. CASE q # s
    <3>1. IsStrictPrefix(s, q)
      BY <1>2, <2>1, <2>3, EntryOnWay
    <3> QED
      BY <1>5, <1>8, <1>9, <3>1 DEF Ahead
  <2> QED
    BY <2>2, <2>3
<1>18. ASSUME NEW q \in DOMAIN setting.tree, Ahead(act, q)
       PROVE  Ahead(Top(p), q)
  <2>1. q \in Path
    BY <1>1, SettingIs DEF Typed, ProgressTyped, Grown
  <2>2. IsStrictPrefix(s, q)
    BY <1>5, <1>18, <1>e DEF Ahead
  <2> QED
    BY <1>2, <1>3, <1>e, <2>1, <2>2, EntryOnWay DEF Ahead
<1>19. Narrows(p, act)
  BY <1>3, <1>17, <1>18, <1>e DEF Narrows
<1> QED
  BY <1>5, <1>7, <1>13, <1>16, <1>19 DEF Turns

\* By readdir, when there is an entry.
LEMMA EntryTurns ==
  ASSUME NEW p \in Proc, Faultless(p), stack[p] # <<>>, ReaddirEntry(p)
  PROVE  Turns(p)
<1> DEFINE s == Top(p).src
           d == Top(p).dest
<1>1. /\ Typed /\ Typed' /\ Orderly /\ Linkless(tree) /\ Under(p) /\ Top(p) \in Activation
      /\ About(p, Top(p)) /\ Knows(Top(p)) /\ Prepared(Top(p))
  BY Setup
<1>2. Follow(tree, s) = s /\ s \in Path
  BY <1>1, TopStraight, TopPaths
<1>3. Top(p).call = "readdir" /\ UNCHANGED disk /\ tree' = tree
  BY <1>1, EntryRead DEF disk
<1>4. PICK n \in Readable(tree, s, Top(p)) : \E act \in Activation :
        /\ act = [Top(p) EXCEPT !.seen = @ \cup {n}]
        /\ (n \in Dots /\ GoOn(p, act)) \/ (n \in Name /\ Enters(p, act, n))
  BY <1>1, <1>2, EntryRead
<1>5. PICK act \in Activation :
        /\ act = [Top(p) EXCEPT !.seen = @ \cup {n}]
        /\ (n \in Dots /\ GoOn(p, act)) \/ (n \in Name /\ Enters(p, act, n))
  BY <1>4
<1>6. /\ act.call = "readdir" /\ act.src = s /\ act.dest = d /\ act.snap = Top(p).snap
      /\ act.meta = Top(p).meta /\ act.seen = Top(p).seen \cup {n}
  BY <1>1, <1>3, <1>5 DEF Activation
<1>7. act.dir = Top(p).dir
  BY <1>1, <1>5, Zenon DEF Activation
<1>e. "readdir" \notin Early /\ "readdir" \notin Late
  BY DEF Early, Late
<1>8. Top(p).dir /\ IsDir(tree, d) /\ s \in DOMAIN setting.tree /\ IsDir(setting.tree, s)
  BY <1>1, <1>3 DEF About, Prepared, Knows
<1>9. act.dir <=> IsDir(setting.tree, s)
  BY <1>7, <1>8, Zenon
<1>10. Knows(act)
  BY <1>1, <1>3, <1>6, <1>8, <1>9, <1>e DEF Knows
<1>11. \A q \in DOMAIN setting.tree : q \in Path
  BY <1>1, SettingIs DEF Typed, ProgressTyped, Grown
<1>12. \A q \in DOMAIN setting.tree :
         /\ Ahead(Top(p), q) <=> IsStrictPrefix(s, q) /\ q[Len(s) + 1] \in Top(p).snap \ Top(p).seen
         /\ Ahead(act, q) <=> IsStrictPrefix(s, q) /\ q[Len(s) + 1] \in Top(p).snap \ (Top(p).seen \cup {n})
  BY <1>3, <1>6, <1>e DEF Ahead
<1>13. CASE n \in Dots /\ GoOn(p, act)
  <2>1. n \notin Name
    BY <1>13, NameAssumption DEF Dots
  <2>2. \A q \in DOMAIN setting.tree : Ahead(Top(p), q) <=> Ahead(act, q)
    BY <1>2, <1>11, <1>12, <2>1, EntryOnWay
  <2>3. Narrows(p, act)
    BY <1>3, <2>2, <1>e DEF Narrows
  <2>4. IsDir(tree', Front(d)) /\ IsDir(tree', d)
    BY <1>1, <1>3, <1>8 DEF Prepared
  <2>5. Prepared(act)'
    BY <1>6, <1>e, <2>4 DEF Prepared
  <2> QED
    BY <1>6, <1>10, <1>13, <2>3, <2>5 DEF Turns
<1>14. CASE n \in Name /\ Enters(p, act, n)
  <2>1. n \notin Top(p).seen
    BY <1>4 DEF Readable
  <2>2. \A q \in DOMAIN setting.tree : IsStrictPrefix(s, q) => q[Len(s) + 1] \in Top(p).snap
    BY <1>1, <1>3 DEF Knows
  <2>3. \A q \in DOMAIN setting.tree :
          IsPrefix(Append(s, n), q) <=> IsStrictPrefix(s, q) /\ q[Len(s) + 1] = n
    BY <1>2, <1>11, <1>14, EntryOnWay
  <2>4. \A q \in DOMAIN setting.tree :
          Ahead(Top(p), q) <=> Ahead(act, q) \/ IsPrefix(Append(s, n), q)
    BY <1>12, <2>1, <2>2, <2>3
  <2>5. act.dir /\ n \in act.seen /\ IsDir(tree, act.dest)
    <3>1. act.dir
      BY <1>7, <1>8, Zenon
    <3> QED
      BY <1>6, <1>8, <3>1
  <2>6. Descends(p, act, n)
    BY <1>6, <1>14 DEF Descends
  <2>7. Hands(p, act, n)
    BY <1>3, <1>10, <2>4, <2>5, <2>6 DEF Hands
  <2> QED
    BY <2>7 DEF Turns
<1> QED
  BY <1>5, <1>13, <1>14

\* Calls behind the copying that go on to the call c.
LEMMA AfterTurn ==
  ASSUME NEW p \in Proc, Faultless(p), stack[p] # <<>>, Top(p).call # "stat_src",
         NEW c \in {"rmdir", "unlink_src", "preserve"}, To(p, c),
         \A q \in DOMAIN setting.tree : Ahead(Top(p), q) =>
           \/ c \in Late /\ q = Top(p).src /\ q \in Home
           \/ Imaged(p, q, ImageOf(p, operand[p], q))',
         Top(p).dir => IsDir(tree', Top(p).dest),
         Top(p).src \in Home =>
           /\ IsFile(tree', Top(p).dest) /\ tree'[Top(p).dest].ino \in DOMAIN file'
           /\ file'[tree'[Top(p).dest].ino].data = HomeData(Top(p).src)
           /\ tree'[Top(p).dest].ino \notin HomeInodes,
         Top(p).src \in Home => c \in Late /\ Ahead(Top(p), Top(p).src),
         c \in Late => Top(p).dir \/ Top(p).src \in Home
  PROVE  Turns(p)
<1> DEFINE s == Top(p).src
           d == Top(p).dest
<1>1. /\ Typed /\ Typed' /\ Orderly /\ Linkless(tree) /\ Under(p) /\ Top(p) \in Activation
      /\ Knows(Top(p)) /\ Prepared(Top(p)) /\ setting' = setting
  BY Setup
<1>2. PICK act : act = [Top(p) EXCEPT !.call = c]
  OBVIOUS
<1>3. /\ act.call = c /\ act.src = s /\ act.dest = d /\ act.meta = Top(p).meta
  BY <1>1, <1>2 DEF Activation
<1>4. act.dir = Top(p).dir
  BY <1>1, <1>2, Zenon DEF Activation
<1>5. GoOn(p, act)
  BY <1>2 DEF To
<1>6. act \in Activation
  BY <1>1, <1>5, GoesOnTyped DEF Typed
<1>e. c \notin Early /\ c # "stat_src" /\ c # "readdir" /\ (c \in Late <=> c # "rmdir")
      /\ c \notin {"prompt", "rename", "mkdir"}
  BY DEF Early, Late
<1>7. Knows(act)
  <2>1. (Top(p).dir <=> IsDir(setting.tree, s)) /\ s \in DOMAIN setting.tree
        /\ (s \in Home => Top(p).meta = HomeMeta(s))
    BY <1>1 DEF Knows
  <2>2. act.dir <=> IsDir(setting.tree, s)
    BY <1>4, <2>1, Zenon
  <2>3. act.call \in Late => act.dir \/ act.src \in Home
    BY <1>3, <1>4, Zenon
  <2> QED
    BY <1>3, <1>e, <2>1, <2>2, <2>3 DEF Knows
<1>8. Prepared(act)'
  <2>1. IsDir(tree', Front(d))
    BY <1>1, TopPlace, PlaceStays DEF Prepared
  <2>2. act.dir => IsDir(tree', d)
    BY <1>4, Zenon
  <2>3. HomeInodes' = HomeInodes /\ Home' = Home /\ HomeData(act.src)' = HomeData(act.src)
    BY <1>1, HomeStays
  <2>4. act.src \in Home => Filled(act.src, act.dest)' /\ tree'[act.dest].ino \notin HomeInodes
    BY <1>3, <2>3 DEF Filled
  <2> QED
    BY <1>3, <1>e, <2>1, <2>2, <2>3, <2>4 DEF Prepared
<1>9. Narrows(p, act)
  <2>1. \A q \in DOMAIN setting.tree : Ahead(act, q) <=> c \in Late /\ q = s /\ q \in Home
    BY <1>3, <1>e DEF Ahead
  <2> QED
    BY <1>3, <2>1 DEF Narrows
<1> QED
  BY <1>3, <1>5, <1>6, <1>7, <1>8, <1>9 DEF Turns

\* At the end of the copying.
LEMMA FinishTurns ==
  ASSUME NEW p \in Proc, Faultless(p), stack[p] # <<>>, Top(p).call # "stat_src", Finish(p),
         \A q \in DOMAIN setting.tree : Ahead(Top(p), q) =>
           \/ q = Top(p).src /\ q \in Home
           \/ Imaged(p, q, ImageOf(p, operand[p], q))',
         Top(p).dir => IsDir(tree', Top(p).dest),
         Top(p).src \in Home =>
           /\ IsFile(tree', Top(p).dest) /\ tree'[Top(p).dest].ino \in DOMAIN file'
           /\ file'[tree'[Top(p).dest].ino].data = HomeData(Top(p).src)
           /\ tree'[Top(p).dest].ino \notin HomeInodes
           /\ Ahead(Top(p), Top(p).src),
         Top(p).dir \/ Top(p).src \in Home
  PROVE  Turns(p)
<1> DEFINE s == Top(p).src
           d == Top(p).dest
<1>1. Typed /\ Under(p)
  BY Setup
<1>2. CASE Preserve(p)
  <2>1. To(p, "preserve")
    BY <1>2 DEF Finish
  <2>2. "preserve" \in Late
    BY DEF Late
  <2> QED
    BY <2>1, <2>2, AfterTurn
<1>3. CASE ~Preserve(p)
  <2>1. Return(p)
    BY <1>3 DEF Finish
  <2>2. ~Faithful(p)
    BY <1>3 DEF Faithful
  <2>3. ASSUME NEW q \in DOMAIN setting.tree, Ahead(Top(p), q)
        PROVE  Imaged(p, q, ImageOf(p, operand[p], q))'
    <3>1. CASE q = s /\ q \in Home
      <4>1. d = ImageOf(p, operand[p], q)
        BY <1>1, <3>1, TopPlace
      <4>2. ~IsDir(setting.tree, q)
        BY <3>1 DEF Home, IsFile, IsDir
      <4> QED
        BY <2>2, <3>1, <4>1, <4>2, ImagedNext
    <3> QED
      BY <2>3, <3>1
  <2> QED
    BY <2>1, <2>3 DEF Turns
<1> QED
  BY <1>2, <1>3

\* A directory is no file that is copied.
LEMMA DirNotHome ==
  ASSUME NEW p \in Proc, Faultless(p), stack[p] # <<>>, Top(p).call # "stat_src"
  PROVE  /\ Top(p).dir => Top(p).src \notin Home
         /\ Top(p).src \in DOMAIN setting.tree /\ Top(p).src \in Path
<1>1. Typed /\ Orderly /\ Under(p) /\ Knows(Top(p)) /\ Top(p) \in Activation
  BY Setup
<1>2. /\ Top(p).src \in DOMAIN setting.tree
      /\ Top(p).dir <=> IsDir(setting.tree, Top(p).src)
  BY <1>1 DEF Knows
<1>3. Top(p).src \in Path
  BY <1>1, TopPaths
<1>4. IsDir(setting.tree, Top(p).src) => Top(p).src \notin Home
  BY DEF Home, IsDir, IsFile
<1>5. Top(p).dir => Top(p).src \notin Home
  BY <1>2, <1>4, Zenon
<1> QED
  BY <1>2, <1>3, <1>5, Zenon

\* By readdir at the end of the directory, when every entry has been returned.
LEMMA EndTurns ==
  ASSUME NEW p \in Proc, Faultless(p), stack[p] # <<>>, ReaddirEnd(p)
  PROVE  Turns(p)
<1> DEFINE s == Top(p).src
<1>1. /\ Typed /\ Linkless(tree) /\ Under(p) /\ About(p, Top(p)) /\ Prepared(Top(p))
  BY Setup
<1>2. Follow(tree, s) = s /\ s \in Path
  BY <1>1, TopStraight, TopPaths
<1>3. Top(p).call = "readdir" /\ tree' = tree /\ Pending(tree, s, Top(p)) = {}
      /\ (To(p, "rmdir") \/ Finish(p))
  BY <1>2 DEF ReaddirEnd, Busy, Top, disk
<1>e. "readdir" \notin Early /\ "readdir" \notin Late
  BY DEF Early, Late
<1>4. ASSUME NEW q \in DOMAIN setting.tree, Ahead(Top(p), q)
      PROVE  FALSE
  <2> DEFINE n == q[Len(s) + 1]
  <2>1. q \in Path
    BY <1>1, SettingIs DEF Typed, ProgressTyped, Grown
  <2>2. IsStrictPrefix(s, q) /\ n \in Top(p).snap \ Top(p).seen
    BY <1>3, <1>4, <1>e DEF Ahead
  <2>3. n \in Name /\ Append(s, n) \in Path /\ IsPrefix(Append(s, n), q)
    BY <1>2, <2>1, <2>2, EntryOnWay
  <2>4. q \in DOMAIN tree
    BY <1>3, <1>4, <1>e, TopWaits
  <2>5. Exists(tree, Append(s, n))
    BY <1>1, <2>3, <2>4, AboveIsGrown DEF Typed, DiskTyped
  <2>6. n \in Entries(tree, s)
    BY <2>3, <2>5 DEF Entries
  <2>7. n \in Pending(tree, s, Top(p))
    BY <2>2, <2>6 DEF Pending, Readable
  <2> QED
    BY <1>3, <2>7
<1>5. Top(p).dir /\ IsDir(tree', Top(p).dest)
  BY <1>1, <1>3 DEF About, Prepared
<1>6. s \notin Home
  BY <1>3, <1>5, DirNotHome
<1>7. CASE To(p, "rmdir")
  BY <1>3, <1>4, <1>5, <1>6, <1>7, AfterTurn
<1>8. CASE Finish(p)
  BY <1>3, <1>4, <1>5, <1>6, <1>8, FinishTurns
<1> QED
  BY <1>3, <1>7, <1>8

\* By rmdir of what was moved, whatever comes of it.
LEMMA RmdirTurns ==
  ASSUME NEW p \in Proc, Faultless(p), stack[p] # <<>>, RmdirSrc(p)
  PROVE  Turns(p)
<1>1. /\ Typed /\ Linkless(tree) /\ Under(p) /\ About(p, Top(p)) /\ Prepared(Top(p))
  BY Setup
<1>2. Top(p).call = "rmdir" /\ Finish(p)
  BY DEF RmdirSrc, Busy, Top
<1>3. Top(p).dir /\ IsDir(tree, Top(p).dest)
  BY <1>1, <1>2 DEF About, Prepared
<1>4. IsDir(tree', Top(p).dest)
  BY <1>3, DestIs, PlaceStays
<1>5. Top(p).src \notin Home
  BY <1>2, <1>3, DirNotHome
<1>6. \A q : ~Ahead(Top(p), q)
  BY <1>2 DEF Ahead, Early, Late
<1> QED
  BY <1>2, <1>3, <1>4, <1>5, <1>6, FinishTurns

\* By the read at the end of the file, when all of it has been written.
LEMMA EofTurns ==
  ASSUME NEW p \in Proc, Faultless(p), stack[p] # <<>>, ReadEof(p)
  PROVE  Turns(p)
<1> DEFINE s == Top(p).src
           d == Top(p).dest
<1>1. /\ Typed /\ Orderly /\ Linkless(tree) /\ Under(p) /\ About(p, Top(p)) /\ Prepared(Top(p))
      /\ Copying(Top(p)) /\ Unwritten
  BY Setup
<1>2. Top(p).call = "read" /\ Top(p).in # 0 /\ Top(p).pos >= Len(file[Top(p).in].data)
      /\ Close(p) /\ tree' = tree /\ file' = file
  BY DEF ReadEof, Busy, Top, disk
<1>3. s \in Home
  BY <1>1, <1>2 DEF Copying
<1>4. /\ Top(p).in = setting.tree[s].ino /\ Top(p).pos \in 0..Len(HomeData(s))
      /\ Partly(Top(p), Top(p).pos)
  BY <1>1, <1>2, <1>3 DEF Copying, CopyingFile
<1>5. file[Top(p).in].data = HomeData(s) /\ HomeData(s) \in Seq(Nat)
  BY <1>1, <1>3, <1>4, HomeIs DEF Unwritten, HomeData
<1>6. Top(p).pos = Len(HomeData(s))
  BY <1>2, <1>4, <1>5
<1>7. SubSeq(HomeData(s), 1, Len(HomeData(s))) = HomeData(s)
  BY <1>5, SubSeqFull
<1>8. /\ IsFile(tree, d) /\ file[tree[d].ino].data = HomeData(s) /\ tree[d].ino \notin HomeInodes
  BY <1>4, <1>6, <1>7 DEF Partly
<1>9. tree[d].ino \in DOMAIN file
  BY <1>1, <1>8 DEF Typed, DiskTyped, IsFile, Exists
<1>10. ~Top(p).dir
  BY <1>1, <1>2 DEF About
<1>11. "read" \in Early /\ "unlink_src" \in Late
  BY DEF Early, Late
<1>12. ASSUME NEW q \in DOMAIN setting.tree, Ahead(Top(p), q)
       PROVE  q = s
  <2>1. s \in Path /\ q \in Path /\ Grown(setting.tree)
    BY <1>1, SettingIs, TopPaths DEF Typed, ProgressTyped, Grown
  <2>2. IsPrefix(s, q)
    BY <1>2, <1>11, <1>12 DEF Ahead, Late
  <2>3. ~IsDir(setting.tree, s)
    BY <1>3 DEF Home, IsFile, IsDir
  <2> QED
    BY <2>1, <2>2, <2>3, NothingBelow
<1>13. Ahead(Top(p), s)
  <2>1. s \in Path
    BY <1>1, TopPaths
  <2>2. IsPrefix(s, s)
    BY <2>1, PrefixElements DEF Path
  <2> QED
    BY <1>2, <1>11, <2>2 DEF Ahead
<1>14. CASE To(p, "unlink_src")
  BY <1>2, <1>3, <1>8, <1>9, <1>10, <1>11, <1>12, <1>13, <1>14, AfterTurn
<1>15. CASE Finish(p)
  BY <1>2, <1>3, <1>8, <1>9, <1>10, <1>12, <1>13, <1>15, FinishTurns
<1> QED
  BY <1>2, <1>14, <1>15 DEF Close

\* By the unlink of what was moved, whatever comes of it.
LEMMA UnlinkTurns ==
  ASSUME NEW p \in Proc, Faultless(p), stack[p] # <<>>, UnlinkSrc(p)
  PROVE  Turns(p)
<1> DEFINE s == Top(p).src
           d == Top(p).dest
<1>1. /\ Typed /\ Orderly /\ Linkless(tree) /\ Under(p) /\ About(p, Top(p)) /\ Prepared(Top(p))
  BY Setup
<1>2. NoFollow(tree, s) = s /\ s \in Path /\ d \in Path
  BY <1>1, TopStraight, TopPaths
<1>3. Top(p).call = "unlink_src" /\ Finish(p) /\ file' = file
      /\ (tree' = tree \/ tree' = Without(tree, s))
  BY <1>2 DEF UnlinkSrc, Busy, Top
<1>4. ~Top(p).dir
  BY <1>1, <1>3 DEF About
<1>6. "unlink_src" \in Late /\ "unlink_src" \notin Early
  BY DEF Early, Late
<1>7. s \in Home =>
      /\ IsFile(tree, d) /\ tree[d].ino \in DOMAIN file
      /\ file[tree[d].ino].data = HomeData(s) /\ tree[d].ino \notin HomeInodes
  BY <1>1, <1>3, <1>6 DEF Prepared, Filled
<1>8. s # d
  <2>1. IsPrefix(s, s) /\ IsPrefix(d, d)
    BY <1>2, PrefixElements DEF Path
  <2> QED
    BY <1>1, <1>2, <2>1, TopApart
<1>9. IsFile(tree, d) => IsFile(tree', d) /\ tree'[d] = tree[d]
  BY <1>3, <1>8 DEF Without, IsFile, Exists
<1>10. \A q : Ahead(Top(p), q) <=> q = s /\ q \in Home
  BY <1>3, <1>6 DEF Ahead
<1>11. Knows(Top(p))
  BY Setup
<1>12. Top(p).dir \/ s \in Home
  BY <1>3, <1>6, <1>11 DEF Knows
<1> QED
  BY <1>12, <1>3, <1>4, <1>7, <1>9, <1>10, FinishTurns

\* By the calls that preserve the meta data.
LEMMA PreserveTurns ==
  ASSUME NEW p \in Proc, Faultless(p), stack[p] # <<>>, PreserveMeta(p)
  PROVE  Turns(p)
<1> DEFINE s == Top(p).src
           d == Top(p).dest
           i == tree[d].ino
<1>1. /\ Typed /\ Orderly /\ Linkless(tree) /\ Under(p) /\ Prepared(Top(p)) /\ Knows(Top(p))
      /\ Top(p) \in Activation
  BY Setup
<1>2. Follow(tree, d) = d
  BY <1>1, TopStraight
<1>3. Top(p).call = "preserve" /\ Return(p) /\ tree' = tree
  BY DEF PreserveMeta, Busy, Top
<1>4. "preserve" \in Late /\ "preserve" \notin Early /\ "preserve" # "stat_src"
  BY DEF Early, Late
<1>5. ASSUME NEW q \in DOMAIN setting.tree, Ahead(Top(p), q)
      PROVE  Imaged(p, q, ImageOf(p, operand[p], q))'
  <2>1. q = s /\ q \in Home
    BY <1>3, <1>4, <1>5 DEF Ahead
  <2>2. /\ IsFile(tree, d) /\ i \in DOMAIN file /\ file[i].data = HomeData(q)
    BY <1>1, <1>3, <1>4, <2>1 DEF Prepared, Filled
  <2>3. PICK refused \in SUBSET ({"chmod", "chown", "utime"} \cap setting.faults) :
          file' = [file EXCEPT ![i].meta = Preserved(@, Top(p).meta, refused)]
    BY <1>2, <2>2 DEF PreserveMeta
  <2> DEFINE m == Preserved(file[i].meta, Top(p).meta, refused)
  <2>4. file' = [file EXCEPT ![i].meta = m]
    BY <2>3
  <2>5. Faithful(p) => m \in Inherited(HomeMeta(q))
    <3> SUFFICES ASSUME Faithful(p) PROVE m \in Inherited(HomeMeta(q))
      OBVIOUS
    <3>1. refused = {}
      BY <2>3 DEF Faithful, Never
    <3>2. Top(p).meta = HomeMeta(q)
      BY <1>1, <1>3, <1>4, <2>1 DEF Knows
    <3>3. setting.tree[q].ino \in DOMAIN setting.file
      BY <1>1, <2>1, SettingIs DEF Typed, ProgressTyped, Home
    <3>4. HomeMeta(q) \in Meta
      <4>1. setting.file \in Seq(Inode)
        BY <1>1, SettingIs DEF Typed, ProgressTyped
      <4>2. setting.file[setting.tree[q].ino] \in Inode
        BY <3>3, <4>1
      <4> QED
        BY <3>3, <4>2 DEF HomeMeta, Inode
    <3>5. m = [mode |-> [HomeMeta(q).mode EXCEPT !.setuid = FALSE],
               owner |-> HomeMeta(q).owner, time |-> HomeMeta(q).time]
      BY <3>1, <3>2 DEF Preserved
    <3>6. m = [HomeMeta(q) EXCEPT !.mode.setuid = FALSE]
      <4>1. \A h \in Meta : \A e : [mode |-> e, owner |-> h.owner, time |-> h.time] = [h EXCEPT !.mode = e]
        BY DEF Meta
      <4>2. \A h : [h EXCEPT !.mode.setuid = FALSE] = [h EXCEPT !.mode = [h.mode EXCEPT !.setuid = FALSE]]
        BY Zenon
      <4> QED
        BY <3>4, <3>5, <4>1, <4>2
    <3> HIDE DEF m
    <3> QED
      BY <3>6 DEF Inherited
  <2> HIDE DEF m
  <2>6. /\ IsFile(tree', d) /\ tree'[d].ino \in DOMAIN file'
        /\ file'[tree'[d].ino].data = HomeData(q)
        /\ Faithful(p) => file'[tree'[d].ino].meta \in Inherited(HomeMeta(q))
    <3> HIDE DEF i
    <3>1. file[i] \in Inode
      BY <1>1, <2>2 DEF Typed, DiskTyped
    <3>2. i \in DOMAIN file' /\ file'[i] = [file[i] EXCEPT !.meta = m]
      BY <1>1, <2>2, <2>4
    <3>3. file'[i].data = file[i].data /\ file'[i].meta = m
      BY <3>1, <3>2 DEF Inode
    <3>4. tree'[d].ino = i /\ IsFile(tree', d)
      BY <1>3, <2>2 DEF i
    <3> QED
      BY <2>2, <2>5, <3>2, <3>3, <3>4
  <2>7. d = ImageOf(p, operand[p], q)
    BY <1>1, <2>1, TopPlace
  <2>8. ~IsDir(setting.tree, q)
    BY <2>1 DEF Home, IsFile, IsDir
  <2> QED
    BY <2>6, <2>7, <2>8, ImagedNext
<1> QED
  BY <1>3, <1>5 DEF Turns

\* By a rename: everything below the source is below DESTINATION now.
LEMMA RenameTurns ==
  ASSUME NEW p \in Proc, Faultless(p), stack[p] # <<>>, RenameDone(p)
  PROVE  Turns(p)
<1> DEFINE s == Top(p).src
           d == Top(p).dest
<1>1. /\ Typed /\ Orderly /\ Linkless(tree) /\ Under(p) /\ Placed /\ Unwritten
      /\ Top(p) \in Activation
  BY Setup
<1>2. NoFollow(tree, s) = s /\ NoFollow(tree, d) = d /\ s \in Path /\ d \in Path
  BY <1>1, TopStraight, TopPaths
<1>3. Top(p).call = "rename" /\ Return(p) /\ CanRename(tree, s, d) /\ tree' = Renamed(tree, s, d)
      /\ file' = file
  BY <1>2 DEF RenameDone, Busy, Top
<1>4. "rename" \notin Late /\ "rename" # "readdir"
  BY DEF Late
<1>5. ASSUME NEW q \in DOMAIN setting.tree, Ahead(Top(p), q)
      PROVE  Imaged(p, q, ImageOf(p, operand[p], q))'
  <2> DEFINE x == Swap(q, s, d)
  <2>1. q \in Path /\ IsPrefix(s, q)
    BY <1>1, <1>3, <1>4, <1>5, SettingIs DEF Typed, ProgressTyped, Grown, Ahead
  <2>2. q \in DOMAIN tree
    BY <1>3, <1>4, <1>5, TopWaits
  <2>3. Outside(q)
    BY <1>1, <2>1, TopApart
  <2>4. tree[q] = setting.tree[q]
    BY <1>1, <2>2, <2>3 DEF Placed
  <2>5. x \in DOMAIN tree' /\ tree'[x] = tree[q]
    BY <1>1, <1>2, <1>3, <2>1, <2>2, RenamedIs DEF Typed, DiskTyped
  <2>6. x = ImageOf(p, operand[p], q)
    <3>1. /\ setting \in Settings /\ Copies(p) /\ operand[p] \in DOMAIN Sources(p)
          /\ IsPrefix(Sources(p)[operand[p]], s) /\ d = ImageOf(p, operand[p], s)
      BY <1>1, TopPlace
    <3> QED
      BY <1>2, <2>1, <3>1, ImageFurther
  <2> HIDE DEF x
  <2>7. IsDir(setting.tree, q) => IsDir(tree', x)
    BY <2>4, <2>5 DEF IsDir, Exists
  <2>8. IsFile(setting.tree, q) =>
          /\ IsFile(tree', x) /\ tree'[x].ino \in DOMAIN file'
          /\ file'[tree'[x].ino].data = HomeData(q)
          /\ Faithful(p) => file'[tree'[x].ino].meta \in Inherited(HomeMeta(q))
    <3> SUFFICES ASSUME IsFile(setting.tree, q)
                 PROVE  /\ IsFile(tree', x) /\ tree'[x].ino \in DOMAIN file'
                        /\ file'[tree'[x].ino].data = HomeData(q)
                        /\ file'[tree'[x].ino].meta \in Inherited(HomeMeta(q))
      OBVIOUS
    <3>1. q \in Home
      BY <2>3 DEF Home
    <3>2. tree'[x].ino = setting.tree[q].ino /\ IsFile(tree', x)
      BY <2>4, <2>5 DEF IsFile, Exists
    <3>3. setting.tree[q].ino \in HomeInodes /\ setting.tree[q].ino \in DOMAIN file
      BY <1>1, <3>1, HomeIs
    <3>4. MetaUnwritten
      BY DEF Faultless, Faring
    <3> QED
      BY <1>1, <1>3, <3>2, <3>3, <3>4 DEF Unwritten, MetaUnwritten, HomeData, HomeMeta, Inherited
  <2> QED
    BY <2>6, <2>7, <2>8, ImagedNext
<1> QED
  BY <1>3, <1>5 DEF Turns

\* By every step that reports nothing.
LEMMA StepTurns ==
  ASSUME NEW p \in Proc, Faultless(p), stack[p] # <<>>
  PROVE  Turns(p)
<1>1. /\ Typed /\ Step(p)
  BY Setup
<1>2. /\ ~Usage(p) /\ ~CheckFails(p) /\ ~StatSrcFails(p) /\ ~StatDestClashes(p) /\ ~PromptNo(p)
      /\ ~OpendirFails(p) /\ ~OpenDestFails(p) /\ ~OpenSrcFails(p)
      /\ ~ReadFails(p) /\ ~WriteFails(p)
  BY Complaints DEF Faultless
<1>3. at[p] = "loop"
  BY <1>1 DEF Typed, ProgressTyped
<1>4. ~Guess(p) /\ ~Check(p) /\ ~NextSource(p) /\ ~Exit(p)
  BY <1>3 DEF Guess, Check, NextSource, Exit
<1>5. StatSrc(p) => Turns(p)
  BY StatSrcTurns
<1>6. StatDestMissing(p) \/ StatDestExists(p) \/ PromptYes(p) \/ RenameFails(p) => Turns(p)
  BY ChecksTurn
<1>7. OpenDest(p) \/ OpenDestForced(p) \/ UnlinkDest(p) \/ OpenSrc(p) \/ Read(p) \/ Write(p) => Turns(p)
  BY CopyingTurns
<1>8. (Mkdir(p) => Turns(p)) /\ (Opendir(p) => Turns(p)) /\ (ReaddirEntry(p) => Turns(p))
      /\ (ReaddirEnd(p) => Turns(p)) /\ (RmdirSrc(p) => Turns(p))
  BY MkdirTurns, OpendirTurns, EntryTurns, EndTurns, RmdirTurns
<1>9. (ReadEof(p) => Turns(p)) /\ (UnlinkSrc(p) => Turns(p)) /\ (PreserveMeta(p) => Turns(p))
      /\ (RenameDone(p) => Turns(p))
  BY EofTurns, UnlinkTurns, PreserveTurns, RenameTurns
<1> QED
  BY <1>1, <1>2, <1>4, <1>5, <1>6, <1>7, <1>8, <1>9, Zenon DEF Step

\* Where the activations above are.
LEMMA LowerIs ==
  ASSUME NEW p \in Proc, Faultless(p), stack[p] # <<>>,
         NEW k \in DOMAIN stack[p], NEW act, act = stack[p][k]
  PROVE  /\ act \in Activation /\ OnWay(p, act) /\ About(p, act)
         /\ k # Len(stack[p]) => act.call = "readdir"
         /\ Knows(act) /\ Prepared(act)
         /\ act.src \in Path /\ act.dest \in Path /\ IsPrefix(Dest(p), act.dest)
         /\ IsPrefix(Sources(p)[operand[p]], act.src)
         /\ \A q \in Path : IsPrefix(act.src, q) => Outside(q)
         /\ act.dest = ImageOf(p, operand[p], act.src)
<1>1. /\ Typed /\ Orderly /\ Under(p)
  BY Setup
<1>2. /\ setting \in Settings /\ Copies(p) /\ operand[p] \in DOMAIN Sources(p)
  BY <1>1, TopPlace
<1>3. act \in Activation /\ act.src \in Path /\ act.dest \in Path
  <2>1. stack[p] \in Seq(Activation)
    BY <1>1, TopIs DEF Typed
  <2>2. act \in Activation
    BY <2>1
  <2> QED
    BY <2>2 DEF Activation
<1>4. OnWay(p, act) /\ (k # Len(stack[p]) => act.call = "readdir")
  BY <1>1 DEF Under
<1>5. About(p, act)
  BY DEF Faultless, Inv, Calm, Calling
<1>6. Knows(act) /\ Prepared(act)
  BY DEF Faultless, Faring
<1>7. IsPrefix(Sources(p)[operand[p]], act.src) /\ act.dest = ImageOf(p, operand[p], act.src)
  BY <1>4 DEF OnWay
<1>8. IsPrefix(Dest(p), act.dest)
  BY <1>2, <1>3, <1>7, ImageOfIs
<1>9. ASSUME NEW q \in Path, IsPrefix(act.src, q)
      PROVE  Outside(q)
  <2>1. Sources(p)[operand[p]] \in Path
    BY <1>2, ArgumentsAre DEF Copies
  <2>2. IsPrefix(Sources(p)[operand[p]], q)
    BY <1>3, <1>7, <1>9, <2>1, PrefixTransitive DEF Path
  <2> QED
    BY <1>1, <1>2, <2>2, SourceOutside
<1> QED
  BY <1>3, <1>4, <1>5, <1>6, <1>7, <1>8, <1>9

\* What an activation knows it knows for good.
LEMMA KnowsStays ==
  ASSUME setting' = setting, NEW act, Knows(act)
  PROVE  Knows(act)'
<1>1. Home' = Home /\ HomeMeta(act.src)' = HomeMeta(act.src)
  BY HomeStays DEF HomeMeta
<1> QED
  BY <1>1 DEF Knows

\* The directories above stay prepared.
LEMMA LowerPrepared ==
  ASSUME NEW p \in Proc, Faultless(p), stack[p] # <<>>,
         NEW k \in DOMAIN stack[p], k # Len(stack[p]), NEW act, act = stack[p][k]
  PROVE  Knows(act)' /\ Prepared(act)'
<1>1. /\ About(p, act) /\ act.call = "readdir" /\ Knows(act) /\ Prepared(act)
      /\ act.dest \in Path /\ IsPrefix(Dest(p), act.dest)
  BY LowerIs
<1>2. IsDir(tree', Front(act.dest))
  BY <1>1, PlaceStays DEF Prepared
<1>3. IsDir(tree', act.dest)
  BY <1>1, PlaceStays DEF Prepared, About
<1>4. setting' = setting
  BY Setup
<1>5. Prepared(act)'
  BY <1>1, <1>2, <1>3 DEF Prepared, Late
<1> QED
  BY <1>1, <1>4, <1>5, KnowsStays

\* What is ahead of a directory above is not where the innermost activation is.
LEMMA LowerAhead ==
  ASSUME NEW p \in Proc, Faultless(p), stack[p] # <<>>,
         NEW k \in DOMAIN stack[p], k # Len(stack[p]), NEW act, act = stack[p][k],
         NEW q \in DOMAIN setting.tree, Ahead(act, q)
  PROVE  /\ q \in DOMAIN tree /\ q \in DOMAIN tree'
         /\ act.call \notin Late
<1>1. /\ act \in Activation /\ act.call = "readdir" /\ act.src \in Path
      /\ \A x \in Path : IsPrefix(act.src, x) => Outside(x)
  BY LowerIs
<1>2. Typed /\ Top(p).src \in Path
  BY Setup, TopPaths
<1>3. "readdir" \notin Early /\ "readdir" \notin Late
  BY DEF Early, Late
<1>4. q \in Path
  BY <1>2, SettingIs DEF Typed, ProgressTyped, Grown
<1>5. IsStrictPrefix(act.src, q) /\ q[Len(act.src) + 1] \notin act.seen
  BY <1>1, <1>3 DEF Ahead
<1>6. IsPrefix(act.src, q)
  BY <1>1, <1>4, <1>5, EntryOnWay
<1>7. Outside(q)
  BY <1>1, <1>4, <1>6
<1>8. q \in DOMAIN tree
  BY <1>1, <1>3 DEF Faultless, Faring, Waiting
<1>9. IsStrictPrefix(act.src, Top(p).src) /\ Top(p).src[Len(act.src) + 1] \in act.seen
  <2>1. /\ Len(stack[p]) \in k + 1..Len(stack[p]) /\ Top(p) = stack[p][Len(stack[p])]
    <3>1. /\ stack[p] \in Seq(Activation) /\ Len(stack[p]) \in Nat \ {0}
          /\ Top(p) = stack[p][Len(stack[p])]
      BY <1>2, TopIs DEF Typed
    <3> QED
      BY <3>1
  <2>2. Entered(p)
    BY DEF Faultless, Faring
  <2> QED
    BY <2>1, <2>2 DEF Entered, Within
<1>10. ~IsPrefix(Top(p).src, q)
  <2> SUFFICES ASSUME IsPrefix(Top(p).src, q) PROVE FALSE
    OBVIOUS
  <2> DEFINE n == Top(p).src[Len(act.src) + 1]
  <2>1. n \in Name /\ Append(act.src, n) \in Path /\ IsPrefix(Append(act.src, n), Top(p).src)
    BY <1>1, <1>2, <1>9, EntryOnWay
  <2>2. IsPrefix(Append(act.src, n), q)
    BY <1>2, <1>4, <2>1, PrefixTransitive DEF Path
  <2>3. q[Len(act.src) + 1] = n
    BY <1>1, <1>4, <2>1, <2>2, EntryOnWay
  <2> QED
    BY <1>5, <1>9, <2>3
<1> QED
  BY <1>1, <1>3, <1>7, <1>8, <1>10, SourceTaken

\* A file to be copied keeps its meta data where it is.
LEMMA HomeFileStays ==
  ASSUME NEW p \in Proc, Faultless(p), stack[p] # <<>>, NEW f \in HomeInodes
  PROVE  f \in DOMAIN file' /\ file'[f] = file[f]
<1>1. /\ Typed /\ Orderly /\ Guests /\ Under(p) /\ Step(p) /\ Knows(Top(p)) /\ Prepared(Top(p))
      /\ Top(p) \in Activation
  BY Setup
<1>2. f \in DOMAIN file
  BY <1>1, HomeIs
<1>3. CASE Top(p).call \in Harmful
  BY <1>1, <1>2, <1>3, NotHere, InodesStay
<1>4. CASE Top(p).call = "preserve"
  <2>1. Top(p).call \in Late /\ Top(p).call # "stat_src"
    BY <1>4 DEF Late
  <2>2. CASE Top(p).src \in Home
    <3>1. tree[Top(p).dest].ino \notin HomeInodes
      BY <1>1, <2>1, <2>2 DEF Prepared
    <3> QED
      BY <1>2, <3>1, InodesStay
  <2>3. CASE Top(p).src \notin Home
    <3>1. Top(p).dir
      BY <1>1, <2>1, <2>3 DEF Knows
    <3>2. IsDir(tree, Top(p).dest)
      BY <1>1, <1>4, <3>1 DEF Prepared
    <3>3. ~IsFile(tree, Top(p).dest)
      BY <3>2 DEF IsDir, IsFile
    <3> QED
      BY <1>2, <3>3, InodesStay
  <2> QED
    BY <2>2, <2>3
<1>5. CASE Top(p).call \notin Harmful \cup {"preserve"}
  <2>1. ~OpenDest(p) /\ ~Write(p) /\ ~PreserveMeta(p)
    BY <1>5 DEF OpenDest, Write, PreserveMeta, Busy, Top, Harmful
  <2>2. CASE \/ Usage(p) \/ Guess(p) \/ Check(p) \/ CheckFails(p) \/ NextSource(p) \/ Exit(p)
    BY <1>2, <2>2 DEF Usage, Guess, Check, CheckFails, NextSource, Exit, Quit
  <2>3. CASE \/ StatSrc(p) \/ StatSrcFails(p) \/ StatDestMissing(p) \/ StatDestExists(p)
             \/ StatDestClashes(p) \/ PromptYes(p) \/ PromptNo(p) \/ RenameFails(p)
             \/ Opendir(p) \/ OpendirFails(p) \/ ReaddirEnd(p) \/ OpenDestForced(p)
             \/ OpenDestFails(p) \/ OpenSrc(p) \/ OpenSrcFails(p) \/ Read(p) \/ ReadEof(p)
             \/ ReadFails(p) \/ WriteFails(p) \/ ReaddirEntry(p)
             \/ RenameDone(p) \/ Mkdir(p) \/ RmdirSrc(p) \/ UnlinkDest(p) \/ UnlinkSrc(p)
    BY <1>2, <2>3 DEF StatSrc, StatSrcFails, StatDestMissing, StatDestExists, StatDestClashes, PromptYes,
         PromptNo, RenameFails, Opendir, OpendirFails, ReaddirEnd, OpenDestForced,
         OpenDestFails, OpenSrc, OpenSrcFails, Read, ReadEof, ReadFails, WriteFails,
         ReaddirEntry, disk, RenameDone, Mkdir, RmdirSrc, UnlinkDest, UnlinkSrc
  <2> QED
    BY <1>1, <2>1, <2>2, <2>3, Zenon DEF Step
<1> QED
  BY <1>3, <1>4, <1>5

\* What becomes of the stack: the activations above stay, the innermost one goes on
\* or is gone, or there is one more for an entry.
Rests(p) ==
  \A k \in DOMAIN stack'[p] :
    k \in DOMAIN stack[p] /\ k # Len(stack[p]) /\ stack'[p][k] = stack[p][k]

Goes(p, act) ==
  /\ Len(stack[p]) \in DOMAIN stack'[p] /\ stack'[p][Len(stack[p])] = act
  /\ \A k \in DOMAIN stack[p] : k # Len(stack[p]) => k \in DOMAIN stack'[p] /\ stack'[p][k] = stack[p][k]

\* Which of the two it is after a step.
LEMMA StackTurns ==
  ASSUME NEW p \in Proc, Faultless(p), stack[p] # <<>>
  PROVE  /\ stack[p] \in Seq(Activation) /\ Len(stack[p]) \in Nat \ {0}
         /\ Len(stack[p]) \in DOMAIN stack[p] /\ Top(p) = stack[p][Len(stack[p])]
         /\ stack'[p] \in Seq(Activation)
         /\ Return(p) => Rests(p)
              /\ \A k \in DOMAIN stack[p] : k # Len(stack[p]) => k \in DOMAIN stack'[p]
         /\ \A act \in Activation : GoOn(p, act) =>
              Goes(p, act) /\ Len(stack'[p]) = Len(stack[p])
         /\ \A act, n : Enters(p, act, n) =>
              Goes(p, act) /\ Len(stack'[p]) = Len(stack[p]) + 1
<1>1. Typed /\ Typed'
  BY Setup
<1>2. StacksTyped /\ stack' \in [Proc -> Seq(Activation)]
  BY <1>1 DEF Typed, StacksTyped
<1>3. /\ stack[p] \in Seq(Activation) /\ Len(stack[p]) \in Nat \ {0}
      /\ Len(stack[p]) \in DOMAIN stack[p] /\ Top(p) = stack[p][Len(stack[p])]
      /\ stack'[p] \in Seq(Activation)
  BY <1>2, TopIs
<1>4. ASSUME Return(p)
      PROVE  Rests(p) /\ \A k \in DOMAIN stack[p] : k # Len(stack[p]) => k \in DOMAIN stack'[p]
  <2>1. Rests(p) /\ Len(stack'[p]) = Len(stack[p]) - 1
    BY <1>2, <1>4, Returning DEF Rests
  <2> QED
    BY <1>3, <2>1
<1>5. ASSUME NEW act \in Activation, GoOn(p, act)
      PROVE  Goes(p, act) /\ Len(stack'[p]) = Len(stack[p])
  <2>1. /\ Len(stack'[p]) = Len(stack[p]) /\ DOMAIN stack'[p] = DOMAIN stack[p]
        /\ \A k \in DOMAIN stack[p] :
             stack'[p][k] = IF k = Len(stack[p]) THEN act ELSE stack[p][k]
    BY <1>2, <1>5, GoingOn
  <2> QED
    BY <1>3, <2>1 DEF Goes
<1>6. ASSUME NEW act, NEW n, Enters(p, act, n)
      PROVE  Goes(p, act) /\ Len(stack'[p]) = Len(stack[p]) + 1
  BY <1>3, <1>6 DEF Goes, Enters
<1> QED
  BY <1>3, <1>4, <1>5, <1>6

\* The activation for an entry.
LEMMA Entry ==
  ASSUME NEW p \in Proc, Faultless(p), stack[p] # <<>>, NEW act, NEW n, Hands(p, act, n)
  PROVE  /\ Enters(p, act, n) /\ act.src = Top(p).src /\ act.dest = Top(p).dest
         /\ act.call = "readdir" /\ Top(p).call = "readdir" /\ tree' = tree /\ n \in Name
         /\ LET new == stack'[p][Len(stack'[p])]
            IN  /\ new.call = "stat_src" /\ new.seen = {}
                /\ new.src = Append(Top(p).src, n) /\ new.dest = Append(Top(p).dest, n)
                /\ Append(Top(p).src, n) \in Path
                /\ \A q : Ahead(new, q) <=> IsPrefix(Append(Top(p).src, n), q)
<1>1. /\ Enters(p, act, n) /\ act.src = Top(p).src /\ act.dest = Top(p).dest
      /\ act.call = "readdir" /\ Top(p).call = "readdir" /\ tree' = tree /\ n \in Name
  BY DEF Hands, Descends, disk
<1>2. Typed /\ Top(p).src \in Path /\ Top(p).dest \in Path
  BY Setup, TopPaths
<1>3. Append(Top(p).src, n) \in Path /\ Append(Top(p).dest, n) \in Path
  BY <1>1, <1>2 DEF Path
<1>4. stack'[p][Len(stack'[p])] = Copy(Append(Top(p).src, n), Append(Top(p).dest, n))
  BY <1>1 DEF Enters
<1> DEFINE a == Append(Top(p).src, n)
           b == Append(Top(p).dest, n)
<1> HIDE DEF a, b
<1>5. Copy(a, b).call = "stat_src" /\ Copy(a, b).seen = {} /\ Copy(a, b).src = a /\ Copy(a, b).dest = b
  BY DEF Copy
<1>6. \A q : Ahead(Copy(a, b), q) <=> IsPrefix(a, q)
  BY <1>5 DEF Ahead, Early, Late
<1> QED
  BY <1>1, <1>3, <1>4, <1>5, <1>6 DEF a, b

\* Every activation knows its source and is prepared.
LEMMA PreparedKept ==
  ASSUME NEW p \in Proc, Faultless(p), stack[p] # <<>>
  PROVE  (\A k \in DOMAIN stack[p] : Knows(stack[p][k]) /\ Prepared(stack[p][k]))'
<1> SUFFICES ASSUME NEW k \in DOMAIN stack'[p]
             PROVE  (Knows(stack[p][k]) /\ Prepared(stack[p][k]))'
  OBVIOUS
<1>x. PICK x : x = stack'[p][k]
  OBVIOUS
<1>1. setting' = setting /\ Prepared(Top(p))
  BY Setup
<1>2. /\ stack[p] \in Seq(Activation) /\ Len(stack[p]) \in Nat \ {0} /\ stack'[p] \in Seq(Activation)
  BY StackTurns
<1>3. ASSUME k \in DOMAIN stack[p], k # Len(stack[p]), x = stack[p][k]
      PROVE  Knows(x)' /\ Prepared(x)'
  BY <1>3, LowerPrepared
<1>4. ASSUME Return(p)
      PROVE  Knows(x)' /\ Prepared(x)'
  BY <1>x, <1>3, <1>4, StackTurns DEF Rests
<1>5. ASSUME NEW act \in Activation, GoOn(p, act), Knows(act), Prepared(act)'
      PROVE  Knows(x)' /\ Prepared(x)'
  <2>1. Goes(p, act) /\ Len(stack'[p]) = Len(stack[p])
    BY <1>5, StackTurns
  <2>2. k \in DOMAIN stack[p]
    BY <1>2, <2>1
  <2>3. CASE k = Len(stack[p])
    <3>1. x = act
      BY <1>x, <2>1, <2>3 DEF Goes
    <3>2. Knows(act)'
      BY <1>1, <1>5, KnowsStays
    <3> QED
      BY <1>5, <3>1, <3>2
  <2>4. CASE k # Len(stack[p])
    BY <1>x, <1>3, <2>1, <2>2, <2>4 DEF Goes
  <2> QED
    BY <2>3, <2>4
<1>6. ASSUME NEW act, NEW n, Hands(p, act, n)
      PROVE  Knows(x)' /\ Prepared(x)'
  <2>1. /\ Enters(p, act, n) /\ act.dest = Top(p).dest /\ act.call = "readdir" /\ tree' = tree
        /\ n \in Name
    BY <1>6, Entry
  <2>2. Goes(p, act) /\ Len(stack'[p]) = Len(stack[p]) + 1
    BY <2>1, StackTurns
  <2>3. k \in DOMAIN stack[p] \/ k = Len(stack'[p])
    BY <1>2, <2>2
  <2>4. Knows(act) /\ IsDir(tree', act.dest)
    BY <1>6, <2>1 DEF Hands
  <2>5. CASE k = Len(stack[p])
    <3>1. x = act
      BY <1>x, <2>2, <2>5 DEF Goes
    <3>2. Knows(act)'
      BY <1>1, <2>4, KnowsStays
    <3>3. IsDir(tree', Front(act.dest))
      BY <1>1, <2>1 DEF Prepared
    <3>4. Prepared(act)'
      BY <2>1, <2>4, <3>3 DEF Prepared, Late
    <3> QED
      BY <3>1, <3>2, <3>4
  <2>6. CASE k \in DOMAIN stack[p] /\ k # Len(stack[p])
    BY <1>x, <1>3, <2>2, <2>6 DEF Goes
  <2>7. CASE k = Len(stack'[p])
    <3>1. x.call = "stat_src" /\ x.seen = {} /\ x.dest = Append(Top(p).dest, n)
      BY <1>x, <1>6, <2>7, Entry
    <3>2. Typed /\ Top(p).dest \in Path
      BY Setup, TopPaths
    <3>3. Front(x.dest) = act.dest
      BY <2>1, <3>1, <3>2, FrontOfAppend DEF Path
    <3>4. Prepared(x)'
      BY <2>4, <3>1, <3>3 DEF Prepared, Late
    <3>5. Knows(x)'
      BY <3>1 DEF Knows, Late
    <3> QED
      BY <3>4, <3>5
  <2> QED
    BY <2>3, <2>5, <2>6, <2>7
<1>7. Turns(p)
  BY StepTurns
<1>8. Knows(x)' /\ Prepared(x)'
  BY <1>4, <1>5, <1>6, <1>7 DEF Turns
<1>9. Knows(stack[p][k])'
  BY <1>x, <1>8 DEF Knows, HomeMeta
<1>10. Prepared(stack[p][k])'
  BY <1>x, <1>8 DEF Prepared, Filled, HomeData
<1> QED
  BY <1>9, <1>10

\* The directories above are still read in the order of the stack.
LEMMA EnteredKept ==
  ASSUME NEW p \in Proc, Faultless(p), stack[p] # <<>>
  PROVE  Entered(p)'
<1> SUFFICES ASSUME NEW k \in DOMAIN stack'[p], NEW m \in k + 1..Len(stack'[p])
             PROVE  Within(stack'[p][k], stack'[p][m])
  BY DEF Entered
<1> DEFINE n0 == Len(stack[p])
<1>1. /\ stack[p] \in Seq(Activation) /\ n0 \in Nat \ {0} /\ stack'[p] \in Seq(Activation)
      /\ n0 \in DOMAIN stack[p] /\ Top(p) = stack[p][n0]
  BY StackTurns
<1>2. \A i \in DOMAIN stack[p] : \A j \in i + 1..Len(stack[p]) : Within(stack[p][i], stack[p][j])
  BY DEF Faultless, Faring, Entered
<1>3. k \in 1..Len(stack'[p]) /\ m \in 1..Len(stack'[p]) /\ k < m
  BY <1>1
<1> HIDE DEF n0
<1>l. n0 = Len(stack[p]) /\ DOMAIN stack[p] = 1..n0
  BY <1>1 DEF n0
<1>4. ASSUME Return(p)
      PROVE  Within(stack'[p][k], stack'[p][m])
  <2>1. /\ k \in DOMAIN stack[p] /\ stack'[p][k] = stack[p][k]
        /\ m \in DOMAIN stack[p] /\ stack'[p][m] = stack[p][m]
    BY <1>1, <1>3, <1>4, StackTurns DEF Rests
  <2> QED
    BY <1>1, <1>2, <1>3, <1>l, <2>1
<1>5. ASSUME NEW act, Goes(p, act), act.src = Top(p).src, m <= n0
      PROVE  Within(stack'[p][k], stack'[p][m])
  <2>1. k \in DOMAIN stack[p] /\ k # n0 /\ m \in DOMAIN stack[p] /\ m \in k + 1..n0
    BY <1>1, <1>3, <1>5, <1>l
  <2>2. stack'[p][k] = stack[p][k]
    BY <1>5, <1>l, <2>1 DEF Goes
  <2>3. Within(stack[p][k], stack[p][m])
    BY <1>2, <1>l, <2>1
  <2>4. stack'[p][m].src = stack[p][m].src
    BY <1>1, <1>5, <1>l, <2>1 DEF Goes
  <2> QED
    BY <2>2, <2>3, <2>4 DEF Within
<1>6. ASSUME NEW act \in Activation, GoOn(p, act), act.src = Top(p).src
      PROVE  Within(stack'[p][k], stack'[p][m])
  <2>1. Goes(p, act) /\ Len(stack'[p]) = n0
    BY <1>6, <1>l, StackTurns
  <2> QED
    BY <1>1, <1>3, <1>5, <1>6, <2>1
<1>7. ASSUME NEW act, NEW n, Hands(p, act, n)
      PROVE  Within(stack'[p][k], stack'[p][m])
  <2>1. Enters(p, act, n) /\ act.src = Top(p).src /\ n \in Name
    BY <1>7, Entry
  <2>2. Goes(p, act) /\ Len(stack'[p]) = n0 + 1
    BY <1>l, <2>1, StackTurns
  <2>3. CASE m <= n0
    BY <1>5, <2>1, <2>2, <2>3
  <2>4. CASE m = n0 + 1
    <3> DEFINE s == Top(p).src
    <3>e. PICK e : e = Append(s, n)
      OBVIOUS
    <3>1. stack'[p][m].src = e /\ e \in Path
      BY <1>7, <2>2, <2>4, <3>e, Entry
    <3>2. s \in Path
      <4>1. Typed
        BY Setup
      <4> QED
        BY <4>1, TopPaths
    <3>3. IsPrefix(e, e)
      BY <3>1, PrefixElements DEF Path
    <3>4. CASE k = n0
      <4>1. stack'[p][k] = act
        BY <1>l, <2>2, <3>4 DEF Goes
      <4>2. IsStrictPrefix(s, e) /\ e[Len(s) + 1] = n
        BY <2>1, <3>e, <3>1, <3>2, <3>3, EntryOnWay
      <4>3. n \in act.seen
        BY <1>7 DEF Hands
      <4> QED
        BY <2>1, <3>1, <4>1, <4>2, <4>3 DEF Within
    <3>5. CASE k # n0
      <4> DEFINE above == stack[p][k]
                 j == s[Len(above.src) + 1]
      <4>1. k \in DOMAIN stack[p] /\ n0 \in k + 1..n0
        BY <1>1, <1>3, <1>l, <2>4, <3>5
      <4>2. stack'[p][k] = above
        BY <1>l, <2>2, <3>5, <4>1 DEF Goes
      <4>3. Within(above, Top(p))
        BY <1>1, <1>2, <1>l, <4>1
      <4>4. above.src \in Path
        BY <4>1, LowerIs
      <4>5. IsStrictPrefix(above.src, s) /\ j \in above.seen
        BY <4>3 DEF Within
      <4> HIDE DEF above
      <4>6. j \in Name /\ Append(above.src, j) \in Path /\ IsPrefix(Append(above.src, j), s)
        BY <3>2, <4>4, <4>5, EntryOnWay
      <4> HIDE DEF j
      <4>7. IsPrefix(s, e)
        BY <2>1, <3>e, <3>1, <3>2, <3>3, EntryOnWay
      <4>8. IsPrefix(Append(above.src, j), e)
        BY <3>1, <3>2, <4>6, <4>7, PrefixTransitive DEF Path
      <4>9. IsStrictPrefix(above.src, e) /\ e[Len(above.src) + 1] = j
        BY <3>1, <4>4, <4>6, <4>8, EntryOnWay
      <4> QED
        BY <3>1, <4>2, <4>5, <4>9 DEF Within
    <3> QED
      BY <3>4, <3>5
  <2> QED
    BY <1>1, <1>3, <2>2, <2>3, <2>4
<1>8. Turns(p)
  BY StepTurns
<1> QED
  BY <1>4, <1>6, <1>7, <1>8 DEF Turns

\* What is ahead is still where it was.
LEMMA WaitingKept ==
  ASSUME NEW p \in Proc, Faultless(p), stack[p] # <<>>
  PROVE  Waiting(p)'
<1>1. /\ setting' = setting /\ operand' = operand /\ Typed /\ Orderly /\ Under(p)
  BY Setup DEF main
<1>2. /\ stack[p] \in Seq(Activation) /\ Len(stack[p]) \in Nat \ {0} /\ stack'[p] \in Seq(Activation)
  BY StackTurns
<1>3. \A x, q : Ahead(x, q)' <=> Ahead(x, q)
  <2>1. Home' = Home
    BY <1>1, HomeStays
  <2> QED
    BY <2>1 DEF Ahead
<1>4. ASSUME NEW k \in DOMAIN stack'[p], NEW x, x = stack'[p][k], x.call \notin Late,
             NEW q \in DOMAIN setting.tree, Ahead(x, q)
      PROVE  q \in DOMAIN tree'
  <2>1. ASSUME k \in DOMAIN stack[p], k # Len(stack[p]), x = stack[p][k]
        PROVE  q \in DOMAIN tree'
    BY <1>4, <2>1, LowerAhead
  <2>2. ASSUME Return(p)
        PROVE  q \in DOMAIN tree'
    BY <1>4, <2>1, <2>2, StackTurns DEF Rests
  <2>3. ASSUME NEW act \in Activation, GoOn(p, act), Narrows(p, act)
        PROVE  q \in DOMAIN tree'
    <3>1. Goes(p, act) /\ Len(stack'[p]) = Len(stack[p])
      BY <2>3, StackTurns
    <3>2. k \in DOMAIN stack[p]
      BY <1>2, <3>1
    <3>3. CASE k = Len(stack[p])
      <4>1. x = act
        BY <1>4, <3>1, <3>3 DEF Goes
      <4>2. Ahead(Top(p), q) /\ Top(p).call \notin Late /\ (q \in DOMAIN tree => q \in DOMAIN tree')
        BY <1>4, <2>3, <4>1 DEF Narrows
      <4> QED
        BY <4>2, TopWaits
    <3>4. CASE k # Len(stack[p])
      BY <1>4, <2>1, <3>1, <3>2, <3>4 DEF Goes
    <3> QED
      BY <3>3, <3>4
  <2>4. ASSUME NEW act, NEW n, Hands(p, act, n)
        PROVE  q \in DOMAIN tree'
    <3>1. Enters(p, act, n) /\ tree' = tree /\ Top(p).call = "readdir"
      BY <2>4, Entry
    <3>2. Goes(p, act) /\ Len(stack'[p]) = Len(stack[p]) + 1
      BY <3>1, StackTurns
    <3>3. k \in DOMAIN stack[p] \/ k = Len(stack'[p])
      BY <1>2, <3>2
    <3>4. Ahead(act, q) \/ IsPrefix(Append(Top(p).src, n), q) => q \in DOMAIN tree'
      <4>1. Ahead(act, q) \/ IsPrefix(Append(Top(p).src, n), q) => Ahead(Top(p), q)
        BY <1>4, <2>4 DEF Hands
      <4>2. Top(p).call \notin Late
        BY <3>1 DEF Late
      <4> QED
        BY <3>1, <4>1, <4>2, TopWaits
    <3>5. CASE k = Len(stack[p])
      <4>1. x = act
        BY <1>4, <3>2, <3>5 DEF Goes
      <4> QED
        BY <1>4, <3>4, <4>1
    <3>6. CASE k \in DOMAIN stack[p] /\ k # Len(stack[p])
      BY <1>4, <2>1, <3>2, <3>6 DEF Goes
    <3>7. CASE k = Len(stack'[p])
      <4>1. IsPrefix(Append(Top(p).src, n), q)
        BY <1>4, <2>4, <3>7, Entry
      <4> QED
        BY <3>4, <4>1
    <3> QED
      BY <3>3, <3>5, <3>6, <3>7
  <2>5. Turns(p)
    BY StepTurns
  <2> QED
    BY <2>2, <2>3, <2>4, <2>5 DEF Turns
<1>5. \A k \in DOMAIN stack'[p] : \A q \in DOMAIN setting'.tree :
        Ahead(stack[p][k], q)' /\ stack'[p][k].call \notin Late => q \in DOMAIN tree'
  <2> SUFFICES ASSUME NEW k \in DOMAIN stack'[p], NEW q \in DOMAIN setting'.tree,
                      Ahead(stack[p][k], q)', stack'[p][k].call \notin Late
               PROVE  q \in DOMAIN tree'
    OBVIOUS
  <2>1. PICK x : x = stack'[p][k]
    OBVIOUS
  <2>2. Ahead(x, q)'
    BY <2>1 DEF Ahead
  <2>3. Ahead(x, q) /\ x.call \notin Late /\ q \in DOMAIN setting.tree
    BY <1>1, <1>3, <2>1, <2>2
  <2> QED
    BY <1>4, <2>1, <2>3
<1>6. ASSUME NEW i \in DOMAIN Sources(p), i > operand[p],
             NEW q \in DOMAIN setting.tree, IsPrefix(Sources(p)[i], q)
      PROVE  q \in DOMAIN tree'
  <2>1. q \in DOMAIN tree
    BY <1>6 DEF Faultless, Faring, Waiting
  <2>2. /\ setting \in Settings /\ Copies(p) /\ operand[p] \in DOMAIN Sources(p)
        /\ Top(p).src \in Path /\ IsPrefix(Sources(p)[operand[p]], Top(p).src)
    BY <1>1, TopPlace
  <2>3. Sources(p)[i] \in Path /\ Sources(p)[operand[p]] \in Path
    BY <1>6, <2>2, ArgumentsAre DEF Copies
  <2>4. q \in Path
    BY <2>2, SettingIs DEF Grown
  <2>5. Outside(q)
    BY <1>1, <1>6, <2>2, <2>4, SourceOutside
  <2> SUFFICES ASSUME q \notin DOMAIN tree' PROVE FALSE
    OBVIOUS
  <2>6. IsMv(p) /\ IsPrefix(Top(p).src, q)
    BY <2>1, <2>5, SourceTaken
  <2>7. IsPrefix(Sources(p)[operand[p]], q)
    BY <2>2, <2>3, <2>4, <2>6, PrefixTransitive DEF Path
  <2>8. operand[p] # i
    <3>1. operand[p] \in Nat
      BY <1>1 DEF Typed, ProgressTyped
    <3> QED
      BY <1>6, <3>1
  <2>9. Parted(Sources(p)[operand[p]], Sources(p)[i])
    BY <1>6, <2>2, <2>6, <2>8 DEF Faultless, Calm, Tidy
  <2> QED
    BY <1>6, <2>3, <2>4, <2>7, <2>9, PartedBelow
<1>7. Sources(p)' = Sources(p)
  BY <1>1 DEF Sources, cmd
<1> QED
  BY <1>1, <1>5, <1>6, <1>7 DEF Waiting

\* Where the innermost activation copies to there is no finished file yet.
LEMMA DestAhead ==
  ASSUME NEW p \in Proc, Faultless(p), stack[p] # <<>>,
         NEW i \in DOMAIN Sources(p), NEW q \in DOMAIN setting.tree, IsPrefix(Sources(p)[i], q),
         ImageOf(p, i, q) = Top(p).dest, IsFile(setting.tree, q)
  PROVE  i = operand[p] /\ Ahead(Top(p), q)
<1>1. /\ Typed /\ Orderly /\ Under(p) /\ About(p, Top(p)) /\ Knows(Top(p)) /\ Top(p) \in Activation
  BY Setup
<1>2. /\ setting \in Settings /\ Copies(p) /\ operand[p] \in DOMAIN Sources(p)
      /\ target[p] = "file" => Len(cmd[p].args) = 2
      /\ Top(p).src \in Path /\ IsPrefix(Sources(p)[operand[p]], Top(p).src)
      /\ Top(p).dest = ImageOf(p, operand[p], Top(p).src)
  BY <1>1, TopPlace
<1>3. q \in Path
  BY <1>2, SettingIs DEF Grown
<1>4. i = operand[p] /\ q = Top(p).src
  BY <1>1, <1>2, <1>3, OneImage
<1>5. Outside(q)
  BY <1>1, <1>2, <1>3, SourceOutside
<1>6. q \in Home
  BY <1>5 DEF Home
<1>7. ~IsDir(setting.tree, q)
  BY DEF IsDir, IsFile
<1>8. Top(p).call \notin {"mkdir", "opendir", "readdir", "rmdir"}
  BY <1>1, <1>4, <1>7 DEF About, Knows
<1>9. Top(p).call \in Early \cup Late
  BY <1>1, <1>8 DEF Activation, Calls, Early, Late
<1>10. IsPrefix(q, q)
  BY <1>3, PrefixElements DEF Path
<1> QED
  BY <1>4, <1>6, <1>9, <1>10 DEF Ahead

\* What is complete stays so, unless it is being copied to.
LEMMA ImagedStays ==
  ASSUME NEW p \in Proc, Faultless(p), stack[p] # <<>>,
         NEW i \in DOMAIN Sources(p), NEW q \in DOMAIN setting.tree, IsPrefix(Sources(p)[i], q),
         NEW x, x = ImageOf(p, i, q), Imaged(p, q, x),
         ~(x = Top(p).dest /\ IsFile(setting.tree, q))
  PROVE  Imaged(p, q, x)'
<1>1. /\ Typed /\ Orderly /\ Linkless(tree) /\ Single /\ Under(p) /\ Step(p) /\ setting' = setting
  BY Setup
<1>2. setting \in Settings /\ Copies(p)
  BY <1>1, TopPlace
<1>3. q \in Path
  BY <1>2, SettingIs DEF Grown
<1>4. x \in Path /\ IsPrefix(Dest(p), x)
  BY <1>2, <1>3, ImageOfIs
<1>5. IsDir(setting.tree, q) => IsDir(tree', x)
  BY <1>4, PlaceStays DEF Imaged
<1>6. IsFile(setting.tree, q) =>
        /\ IsFile(tree', x) /\ tree'[x].ino \in DOMAIN file'
        /\ file'[tree'[x].ino].data = HomeData(q)
        /\ Faithful(p) => file'[tree'[x].ino].meta \in Inherited(HomeMeta(q))
  <2> SUFFICES ASSUME IsFile(setting.tree, q)
               PROVE  /\ IsFile(tree', x) /\ tree'[x].ino \in DOMAIN file'
                      /\ file'[tree'[x].ino].data = HomeData(q)
                      /\ Faithful(p) => file'[tree'[x].ino].meta \in Inherited(HomeMeta(q))
    OBVIOUS
  <2>1. /\ IsFile(tree, x) /\ tree[x].ino \in DOMAIN file
        /\ file[tree[x].ino].data = HomeData(q)
        /\ Faithful(p) => file[tree[x].ino].meta \in Inherited(HomeMeta(q))
    BY DEF Imaged, Filled
  <2>2. x \in DOMAIN tree
    BY <2>1 DEF IsFile, Exists
  <2>3. ~IsPrefix(Top(p).src, x)
    BY <1>4, AboveDest
  <2>4. x \in DOMAIN tree' /\ tree'[x] = tree[x]
    BY <1>1, <2>2, <2>3, TreeShrinks
  <2>5. IsFile(tree, Top(p).dest) => tree[Top(p).dest].ino # tree[x].ino
    BY <1>1, <2>1, <2>2 DEF Single, IsFile, Exists
  <2>6. tree[x].ino \in DOMAIN file' /\ file'[tree[x].ino] = file[tree[x].ino]
    BY <2>1, <2>5, InodesStay
  <2> QED
    BY <2>1, <2>4, <2>6 DEF IsFile, Exists
<1>7. Faithful(p)' <=> Faithful(p)
  BY <1>1 DEF Faithful, Preserve, IsMv, cmd, Never
<1>8. HomeData(q)' = HomeData(q) /\ HomeMeta(q)' = HomeMeta(q)
  BY <1>1 DEF HomeData, HomeMeta
<1> QED
  BY <1>1, <1>5, <1>6, <1>7, <1>8 DEF Imaged, Filled

\* What was ahead is ahead or complete.
LEMMA AheadKept ==
  ASSUME NEW p \in Proc, Faultless(p), stack[p] # <<>>,
         NEW q \in DOMAIN setting.tree, NEW k \in DOMAIN stack[p], Ahead(stack[p][k], q)
  PROVE  \/ Imaged(p, q, ImageOf(p, operand[p], q))'
         \/ \E m \in DOMAIN stack'[p] : Ahead(stack'[p][m], q)
<1>1. /\ stack[p] \in Seq(Activation) /\ Len(stack[p]) \in Nat \ {0}
      /\ stack'[p] \in Seq(Activation) /\ Top(p) = stack[p][Len(stack[p])]
  BY StackTurns
<1>2. ASSUME NEW act, Goes(p, act), k # Len(stack[p]) \/ Ahead(act, q)
      PROVE  \E m \in DOMAIN stack'[p] : Ahead(stack'[p][m], q)
  BY <1>2 DEF Goes
<1>3. ASSUME Return(p)
      PROVE  \/ Imaged(p, q, ImageOf(p, operand[p], q))'
             \/ \E m \in DOMAIN stack'[p] : Ahead(stack'[p][m], q)
             \/ Ahead(Top(p), q)
  <2>1. CASE k = Len(stack[p])
    BY <1>1, <2>1
  <2>2. CASE k # Len(stack[p])
    BY <1>3, <2>2, StackTurns DEF Rests
  <2> QED
    BY <2>1, <2>2
<1>4. ASSUME NEW act \in Activation, GoOn(p, act), Narrows(p, act)
      PROVE  \/ Imaged(p, q, ImageOf(p, operand[p], q))'
             \/ \E m \in DOMAIN stack'[p] : Ahead(stack'[p][m], q)
  <2>1. Goes(p, act)
    BY <1>4, StackTurns
  <2>2. CASE k # Len(stack[p]) \/ Ahead(act, q)
    BY <1>2, <2>1, <2>2
  <2>3. CASE k = Len(stack[p]) /\ ~Ahead(act, q)
    BY <1>1, <1>4, <2>3 DEF Narrows
  <2> QED
    BY <2>2, <2>3
<1>5. ASSUME NEW act, NEW n, Hands(p, act, n)
      PROVE  \E m \in DOMAIN stack'[p] : Ahead(stack'[p][m], q)
  <2>1. Enters(p, act, n)
    BY <1>5, Entry
  <2>2. Goes(p, act) /\ Len(stack'[p]) = Len(stack[p]) + 1
    BY <2>1, StackTurns
  <2>3. CASE k # Len(stack[p]) \/ Ahead(act, q)
    BY <1>2, <2>2, <2>3
  <2>4. CASE k = Len(stack[p]) /\ ~Ahead(act, q)
    <3>1. IsPrefix(Append(Top(p).src, n), q)
      BY <1>1, <1>5, <2>4 DEF Hands
    <3>2. Ahead(stack'[p][Len(stack'[p])], q)
      BY <1>5, <3>1, Entry
    <3>3. Len(stack'[p]) \in DOMAIN stack'[p]
      BY <1>1, <2>2
    <3> QED
      BY <3>2, <3>3
  <2> QED
    BY <2>3, <2>4
<1>6. Turns(p)
  BY StepTurns
<1> QED
  BY <1>3, <1>4, <1>5, <1>6 DEF Turns

\* What is not ahead is done.
LEMMA CoveredKept ==
  ASSUME NEW p \in Proc, Faultless(p), stack[p] # <<>>
  PROVE  Covered(p)'
<1>1. /\ setting' = setting /\ operand' = operand /\ target' = target
  BY Setup DEF main
<1>2. Sources(p)' = Sources(p) /\ \A i, q : ImageOf(p, i, q)' = ImageOf(p, i, q)
  BY <1>1, NamesStay
<1>3. \A x, q : Ahead(x, q)' <=> Ahead(x, q)
  <2>1. Home' = Home
    BY <1>1, HomeStays
  <2> QED
    BY <2>1 DEF Ahead
<1>4. ASSUME NEW i \in DOMAIN Sources(p), i <= operand[p],
             NEW q \in DOMAIN setting.tree, IsPrefix(Sources(p)[i], q)
      PROVE  \/ Imaged(p, q, ImageOf(p, i, q))'
             \/ i = operand[p] /\ \E k \in DOMAIN stack'[p] : Ahead(stack'[p][k], q)
  <2>1. PICK x : x = ImageOf(p, i, q)
    OBVIOUS
  <2>2. Imaged(p, q, x) \/ (i = operand[p] /\ \E k \in DOMAIN stack[p] : Ahead(stack[p][k], q))
    BY <1>4, <2>1 DEF Faultless, Faring, Covered
  <2>3. CASE i = operand[p] /\ \E k \in DOMAIN stack[p] : Ahead(stack[p][k], q)
    <3>1. \/ Imaged(p, q, ImageOf(p, operand[p], q))'
          \/ \E m \in DOMAIN stack'[p] : Ahead(stack'[p][m], q)
      BY <2>3, AheadKept
    <3>2. Image(p, i)' = Image(p, operand[p])'
      BY <1>1, <2>3 DEF Image
    <3>3. Imaged(p, q, ImageOf(p, operand[p], q))' => Imaged(p, q, ImageOf(p, i, q))'
      BY <1>1, <2>3, <3>2 DEF Imaged, Filled, ImageOf
    <3> QED
      BY <2>3, <3>1, <3>3
  <2>4. CASE Imaged(p, q, x) /\ ~(i = operand[p] /\ \E k \in DOMAIN stack[p] : Ahead(stack[p][k], q))
    <3>1. ~(x = Top(p).dest /\ IsFile(setting.tree, q))
      BY <1>4, <2>1, <2>4, DestAhead, StackTurns
    <3>2. Imaged(p, q, x)'
      BY <1>4, <2>1, <2>4, <3>1, ImagedStays
    <3>3. ImageOf(p, i, q)' = x
      BY <1>2, <2>1
    <3> QED
      BY <3>2, <3>3 DEF Imaged, Filled
  <2> QED
    BY <2>2, <2>3, <2>4
<1>5. ASSUME NEW q, NEW k \in DOMAIN stack'[p], Ahead(stack'[p][k], q)
      PROVE  Ahead(stack[p][k], q)'
  <2>1. PICK x : x = stack'[p][k]
    OBVIOUS
  <2>2. Ahead(x, q)'
    BY <1>3, <1>5, <2>1
  <2> QED
    BY <2>1, <2>2 DEF Ahead
<1> QED
  BY <1>1, <1>2, <1>4, <1>5 DEF Covered

\* Everything goes well as long as nothing is reported.
LEMMA TurnFares ==
  ASSUME NEW p \in Proc, Faultless(p), stack[p] # <<>>
  PROVE  Faring(p)'
<1>1. /\ UNCHANGED main /\ Typed
  BY Setup
<1>2. setting' = setting /\ at' = at /\ target' = target /\ Dest(p)' = Dest(p)
  BY <1>1, NamesStay DEF main
<1>3. at[p] = "loop"
  BY <1>1 DEF Typed, ProgressTyped
<1>4. MetaUnwritten'
  <2>1. HomeInodes' = HomeInodes
    BY <1>2, HomeStays
  <2>2. \A f \in HomeInodes : file[f].meta = setting.file[f].meta
    BY DEF Faultless, Faring, MetaUnwritten
  <2> QED
    BY <1>2, <2>1, <2>2, HomeFileStays DEF MetaUnwritten
<1>5. Homeland(p)'
  <2>1. Homeland(p)
    BY DEF Faultless, Faring
  <2>2. Dest(p) \in Path /\ IsPrefix(Dest(p), Dest(p))
    BY DestIs, PrefixElements DEF Path
  <2>3. IsDir(tree', Front(Dest(p)))
    BY <2>1, <2>2, PlaceStays DEF Homeland
  <2>4. IsDir(tree, Dest(p)) => IsDir(tree', Dest(p))
    BY <2>2, PlaceStays
  <2> QED
    BY <1>2, <2>1, <2>3, <2>4 DEF Homeland
<1>6. (\A k \in DOMAIN stack[p] : Knows(stack[p][k]) /\ Prepared(stack[p][k]))'
  BY PreparedKept
<1>7. Entered(p)' /\ Waiting(p)' /\ Covered(p)'
  BY EnteredKept, WaitingKept, CoveredKept
<1>8. at'[p] # "exited"
  BY <1>2, <1>3
<1> QED
  BY <1>4, <1>5, <1>6, <1>7, <1>8 DEF Faring

\* What does not depend on the processes.
LEMMA SameDisk ==
  ASSUME UNCHANGED <<tree, file, setting>>, NEW p \in Proc
  PROVE  /\ \A x : (Knows(x)' <=> Knows(x)) /\ (Prepared(x)' <=> Prepared(x))
         /\ \A x, q : (Ahead(x, q)' <=> Ahead(x, q)) /\ (Imaged(p, q, x)' <=> Imaged(p, q, x))
         /\ MetaUnwritten' <=> MetaUnwritten
         /\ Sources(p)' = Sources(p) /\ Dest(p)' = Dest(p) /\ (Copies(p)' <=> Copies(p))
<1>1. Home' = Home /\ HomeInodes' = HomeInodes /\ \A x : HomeData(x)' = HomeData(x)
  BY HomeStays
<1>2. \A q : HomeMeta(q)' = HomeMeta(q)
  BY DEF HomeMeta
<1>3. \A x : Knows(x)' <=> Knows(x)
  BY <1>1, <1>2 DEF Knows
<1>4. \A q, x : Filled(q, x)' <=> Filled(q, x)
  BY <1>1 DEF Filled
<1>5. \A x : Prepared(x)' <=> Prepared(x)
  BY <1>1, <1>4 DEF Prepared
<1>6. \A x, q : Ahead(x, q)' <=> Ahead(x, q)
  BY <1>1 DEF Ahead
<1>7. Faithful(p)' <=> Faithful(p)
  BY DEF Faithful, Preserve, IsMv, cmd, Never
<1>8. \A x, q : Imaged(p, q, x)' <=> Imaged(p, q, x)
  BY <1>2, <1>4, <1>7 DEF Imaged
<1>9. MetaUnwritten' <=> MetaUnwritten
  BY <1>1 DEF MetaUnwritten
<1>10. Sources(p)' = Sources(p) /\ Dest(p)' = Dest(p) /\ (Copies(p)' <=> Copies(p))
  BY DEF Sources, Dest, Copies, cmd
<1> QED
  BY <1>3, <1>5, <1>6, <1>8, <1>9, <1>10

\* Nothing changes but where p is and what it takes DESTINATION to be.
LEMMA QuietFares ==
  ASSUME NEW p \in Proc, Typed, Faring(p),
         UNCHANGED <<tree, file, setting, operand, stack>>,
         target'[p] = target[p] \/ operand[p] = 0, Homeland(p)',
         at'[p] = "exited" => operand[p] = Len(Sources(p)) /\ stack[p] = <<>> /\ Copies(p)
                              /\ (target'[p] = "file" => Len(cmd[p].args) = 2)
  PROVE  Faring(p)'
<1>1. /\ \A x : (Knows(x)' <=> Knows(x)) /\ (Prepared(x)' <=> Prepared(x))
      /\ \A x, q : (Ahead(x, q)' <=> Ahead(x, q)) /\ (Imaged(p, q, x)' <=> Imaged(p, q, x))
      /\ MetaUnwritten' <=> MetaUnwritten
      /\ Sources(p)' = Sources(p) /\ Dest(p)' = Dest(p) /\ (Copies(p)' <=> Copies(p))
  BY SameDisk
<1>2. (\A k \in DOMAIN stack[p] : Knows(stack[p][k]) /\ Prepared(stack[p][k]))'
  <2> SUFFICES ASSUME NEW k \in DOMAIN stack'[p]
               PROVE  (Knows(stack[p][k]) /\ Prepared(stack[p][k]))'
    OBVIOUS
  <2>1. PICK x : x = stack[p][k]
    OBVIOUS
  <2>2. Knows(x)' /\ Prepared(x)'
    BY <1>1, <2>1 DEF Faring
  <2>3. stack'[p][k] = x
    BY <2>1
  <2>4. Knows(stack[p][k])'
    BY <2>2, <2>3 DEF Knows, HomeMeta
  <2>5. Prepared(stack[p][k])'
    BY <2>2, <2>3 DEF Prepared, Filled, HomeData
  <2> QED
    BY <2>4, <2>5
<1>3. Entered(p)'
  BY DEF Faring, Entered
<1>4. \A q, k : Ahead(stack[p][k], q)' <=> Ahead(stack[p][k], q)
  <2> TAKE q, k
  <2>1. PICK x : x = stack[p][k]
    OBVIOUS
  <2>2. stack'[p][k] = x
    BY <2>1
  <2>3. Ahead(stack[p][k], q)' <=> Ahead(x, q)'
    BY <2>2 DEF Ahead
  <2> QED
    BY <1>1, <2>1, <2>3
<1>5. Waiting(p)'
  BY <1>1, <1>4 DEF Faring, Waiting
<1>6. Covered(p)'
  <2> SUFFICES ASSUME NEW i \in DOMAIN Sources(p), i <= operand[p],
                      NEW q \in DOMAIN setting.tree, IsPrefix(Sources(p)[i], q)
               PROVE  \/ Imaged(p, q, ImageOf(p, i, q))'
                      \/ i = operand[p] /\ \E k \in DOMAIN stack[p] : Ahead(stack[p][k], q)
    BY <1>1, <1>4 DEF Covered
  <2>1. operand[p] # 0
    <3>1. Copies(p) /\ Sources(p) \in Seq(Path)
      BY AwayCopies, ArgumentsAre DEF Typed, ProgressTyped, Copies
    <3> QED
      BY <3>1
  <2>2. target'[p] = target[p]
    BY <2>1
  <2>3. PICK x : x = ImageOf(p, i, q)
    OBVIOUS
  <2>4. ImageOf(p, i, q)' = x
    BY <2>2, <2>3, NamesStay
  <2>5. Imaged(p, q, x) \/ (i = operand[p] /\ \E k \in DOMAIN stack[p] : Ahead(stack[p][k], q))
    BY <2>3 DEF Faring, Covered
  <2>6. Imaged(p, q, x) => Imaged(p, q, ImageOf(p, i, q))'
    BY <1>1, <2>4 DEF Imaged, Filled
  <2> QED
    BY <2>5, <2>6
<1>7. MetaUnwritten'
  BY <1>1 DEF Faring
<1>8. Len(cmd[p].args)' = Len(cmd[p].args)
  BY DEF cmd
<1> QED
  BY <1>1, <1>2, <1>3, <1>5, <1>6, <1>7, <1>8 DEF Faring

\* By what cp_main does before and after the sources.
LEMMA MainFares ==
  ASSUME NEW p \in Proc, Faultless(p), stack[p] = <<>>, Guess(p) \/ Check(p) \/ Exit(p)
  PROVE  Faring(p)'
<1>1. /\ Typed /\ Faring(p) /\ Copies(p) /\ Linkless(tree) /\ Under(p) /\ Homeland(p)
  BY DEF Faultless, Inv, Moving, Faring
<1>2. /\ UNCHANGED <<tree, file, setting, operand, stack>> /\ Dest(p)' = Dest(p)
  BY DEF Guess, Check, Exit, Dest, cmd
<1>3. /\ setting \in Settings /\ target \in [Proc -> {"unset", "dir", "file"}]
      /\ at \in [Proc -> {"guess", "check", "loop", "exited"}]
  BY <1>1 DEF Typed, ProgressTyped
<1>4. Dest(p) \in Path
  BY <1>1, <1>3, ArgumentsAre DEF Copies
<1>5. Follow(tree, Dest(p)) = Dest(p)
  BY <1>1, <1>4, FollowStraight DEF Linkless
<1>6. CASE Guess(p)
  <2>1. operand[p] = 0
    BY <1>1, <1>6 DEF Guess, Typed, ProgressTyped
  <2>2. at'[p] = "check" /\ target'[p] \in {"dir", "file"}
    BY <1>3, <1>6 DEF Guess
  <2>3. Homeland(p)'
    BY <1>1, <1>2, <2>2 DEF Homeland
  <2> QED
    BY <1>1, <1>2, <2>1, <2>2, <2>3, QuietFares
<1>7. CASE Check(p)
  <2>1. at'[p] = "loop" /\ target' = target /\ at[p] = "check" /\ Agrees(p)
    BY <1>3, <1>7 DEF Check
  <2>2. target[p] = "dir" => IsDir(tree, Dest(p))
    BY <1>5, <2>1 DEF Agrees
  <2>3. Homeland(p)'
    BY <1>1, <1>2, <2>1, <2>2 DEF Homeland
  <2> QED
    BY <1>1, <1>2, <2>1, <2>3, QuietFares
<1>8. CASE Exit(p)
  <2>1. at'[p] = "exited" /\ target' = target /\ at[p] = "loop" /\ operand[p] = Len(Sources(p))
    BY <1>3, <1>8 DEF Exit
  <2>2. target[p] = "file" => Len(cmd[p].args) = 2
    BY <1>1, <2>1 DEF Under
  <2>3. Homeland(p)'
    BY <1>1, <1>2, <2>1 DEF Homeland
  <2> QED
    BY <1>1, <1>2, <2>1, <2>2, <2>3, QuietFares
<1> QED
  BY <1>6, <1>7, <1>8

\* By the next source.
LEMMA NextFares ==
  ASSUME NEW p \in Proc, Faultless(p), stack[p] = <<>>, NextSource(p)
  PROVE  Faring(p)'
<1>1. /\ Typed /\ Faring(p) /\ Copies(p) /\ Linkless(tree) /\ Under(p) /\ Homeland(p) /\ Waiting(p)
  BY DEF Faultless, Inv, Moving, Faring
<1>2. UNCHANGED <<tree, file, setting, at, target>>
  BY DEF NextSource
<1>3. /\ setting \in Settings /\ operand \in [Proc -> Nat] /\ stack \in [Proc -> Seq(Activation)]
      /\ target[p] \in {"unset", "dir", "file"}
  BY <1>1 DEF Typed, ProgressTyped, StacksTyped
<1>4. /\ Sources(p) \in Seq(Path) /\ Dest(p) \in Path
      /\ \A i \in DOMAIN Sources(p) : Sources(p)[i] \in Path /\ Sources(p)[i] # <<>>
  BY <1>1, <1>3, ArgumentsAre DEF Copies
<1> DEFINE j == operand[p] + 1
<1>5. at[p] = "loop" /\ j \in DOMAIN Sources(p) /\ operand'[p] = j /\ j > operand[p]
  BY <1>3, <1>4 DEF NextSource
<1>6. PICK new : new = Copy(Sources(p)[j], Image(p, j))
  OBVIOUS
<1>7. stack'[p] = <<new>>
  BY <1>3, <1>6 DEF NextSource
<1>8. DOMAIN stack'[p] = {1} /\ stack'[p][1] = new /\ Len(stack'[p]) = 1
  BY <1>7
<1>9. \A k : k \notin DOMAIN stack[p]
  BY <1>3
<1> DEFINE a == Sources(p)[j]
           b == Image(p, j)
<1> HIDE DEF a, b
<1>10. new.call = "stat_src" /\ new.seen = {} /\ new.src = a /\ new.dest = b
  BY <1>6 DEF Copy, a, b
<1>11. /\ \A x : (Knows(x)' <=> Knows(x)) /\ (Prepared(x)' <=> Prepared(x))
       /\ \A x, q : (Ahead(x, q)' <=> Ahead(x, q)) /\ (Imaged(p, q, x)' <=> Imaged(p, q, x))
       /\ MetaUnwritten' <=> MetaUnwritten
       /\ Sources(p)' = Sources(p) /\ Dest(p)' = Dest(p) /\ (Copies(p)' <=> Copies(p))
       /\ \A i, q : ImageOf(p, i, q)' = ImageOf(p, i, q)
  BY <1>2, SameDisk, NamesStay
<1>12. IsDir(tree, Front(b))
  <2>1. target[p] # "unset"
    BY <1>1, <1>5 DEF Homeland
  <2>2. CASE target[p] = "file"
    <3>1. b = Dest(p)
      BY <2>2 DEF b, Image
    <3> QED
      BY <1>1, <3>1 DEF Homeland
  <2>3. CASE target[p] = "dir"
    <3>1. Last(a) \in Name
      BY <1>4, <1>5, FrontAndLast DEF a, Path
    <3>2. b = Append(Dest(p), Last(a))
      BY <2>3 DEF a, b, Image
    <3>3. Front(b) = Dest(p)
      BY <1>4, <3>1, <3>2, FrontOfAppend DEF Path
    <3> QED
      BY <1>1, <1>5, <2>3, <3>3 DEF Homeland
  <2> QED
    BY <1>3, <2>1, <2>2, <2>3
<1>13. Knows(new)' /\ Prepared(new)'
  <2>1. Knows(new)
    BY <1>10 DEF Knows, Late
  <2>2. Prepared(new)
    BY <1>10, <1>12 DEF Prepared, Late
  <2> QED
    BY <1>11, <2>1, <2>2
<1>14. (\A k \in DOMAIN stack[p] : Knows(stack[p][k]) /\ Prepared(stack[p][k]))'
  <2> SUFFICES ASSUME NEW k \in DOMAIN stack'[p]
               PROVE  (Knows(stack[p][k]) /\ Prepared(stack[p][k]))'
    OBVIOUS
  <2>1. stack'[p][k] = new
    BY <1>8
  <2>2. Knows(stack[p][k])'
    BY <1>13, <2>1 DEF Knows, HomeMeta
  <2>3. Prepared(stack[p][k])'
    BY <1>13, <2>1 DEF Prepared, Filled, HomeData
  <2> QED
    BY <2>2, <2>3
<1>15. Entered(p)'
  BY <1>8 DEF Entered
<1>16. \A q : Ahead(new, q) <=> IsPrefix(a, q)
  BY <1>10 DEF Ahead, Early, Late
<1>17. \A q, k : k \in DOMAIN stack'[p] => (Ahead(stack[p][k], q)' <=> IsPrefix(a, q))
  <2> SUFFICES ASSUME NEW q, NEW k \in DOMAIN stack'[p]
               PROVE  Ahead(stack[p][k], q)' <=> IsPrefix(a, q)
    OBVIOUS
  <2>1. stack'[p][k] = new
    BY <1>8
  <2>2. Ahead(stack[p][k], q)' <=> Ahead(new, q)'
    BY <2>1 DEF Ahead
  <2> QED
    BY <1>11, <1>16, <2>2
<1>18. Waiting(p)'
  <2>1. \A i \in DOMAIN Sources(p) : i > operand[p] =>
          \A q \in DOMAIN setting.tree : IsPrefix(Sources(p)[i], q) => q \in DOMAIN tree
    BY <1>1 DEF Waiting
  <2>2. \A q \in DOMAIN setting.tree : IsPrefix(a, q) => q \in DOMAIN tree
    BY <1>5, <2>1 DEF a
  <2>3. \A i \in DOMAIN Sources(p) : i > operand'[p] => i > operand[p]
    BY <1>3, <1>4, <1>5
  <2>4. (\A k \in DOMAIN stack[p] : \A q \in DOMAIN setting.tree :
          Ahead(stack[p][k], q) /\ stack[p][k].call \notin Late => q \in DOMAIN tree)'
    BY <1>2, <1>17, <2>2
  <2>5. (\A i \in DOMAIN Sources(p) : i > operand[p] =>
          \A q \in DOMAIN setting.tree : IsPrefix(Sources(p)[i], q) => q \in DOMAIN tree)'
    BY <1>2, <1>11, <2>1, <2>3
  <2> QED
    BY <2>4, <2>5 DEF Waiting
<1>19. Covered(p)'
  <2> SUFFICES ASSUME NEW i \in DOMAIN Sources(p), i <= j,
                      NEW q \in DOMAIN setting.tree, IsPrefix(Sources(p)[i], q)
               PROVE  \/ Imaged(p, q, ImageOf(p, i, q))'
                      \/ i = j /\ \E k \in DOMAIN stack'[p] : Ahead(stack[p][k], q)'
    BY <1>2, <1>5, <1>11 DEF Covered
  <2>1. CASE i = j
    <3>1. IsPrefix(a, q) /\ 1 \in DOMAIN stack'[p]
      BY <1>8, <2>1 DEF a
    <3>2. Ahead(stack[p][1], q)'
      BY <1>17, <3>1
    <3> QED
      BY <2>1, <3>1, <3>2
  <2>2. CASE i # j
    <3>1. i <= operand[p]
      BY <1>3, <1>4, <2>2
    <3>2. PICK x : x = ImageOf(p, i, q)
      OBVIOUS
    <3>3. Imaged(p, q, x)
      BY <1>1, <1>9, <3>1, <3>2 DEF Faring, Covered
    <3>4. ImageOf(p, i, q)' = x
      BY <1>11, <3>2
    <3>5. Imaged(p, q, x)'
      BY <1>11, <3>3
    <3> QED
      BY <3>4, <3>5 DEF Imaged, Filled
  <2> QED
    BY <2>1, <2>2
<1>20. MetaUnwritten'
  BY <1>1, <1>11 DEF Faring
<1>21. Homeland(p)'
  BY <1>1, <1>2, <1>11 DEF Homeland
<1>22. at'[p] # "exited"
  BY <1>2, <1>5
<1> QED
  BY <1>14, <1>15, <1>18, <1>19, <1>20, <1>21, <1>22 DEF Faring

\* By whatever p does.
LEMMA StepFares ==
  ASSUME NEW p \in Proc, Faultless(p)
  PROVE  Faring(p)'
<1>1. CASE stack[p] # <<>>
  BY <1>1, TurnFares
<1>2. CASE stack[p] = <<>>
  <2>1. Step(p) /\ ret \in [Proc -> {0, 1}] /\ ret'[p] = 0
    BY DEF Faultless
  <2>2. ~Usage(p) /\ ~CheckFails(p)
    BY <2>1, Complaints
  <2>3. \A call : ~Busy(p, call)
    BY <1>2 DEF Busy
  <2>4. ~(\/ StatSrc(p) \/ StatSrcFails(p) \/ StatDestMissing(p) \/ StatDestExists(p)
          \/ StatDestClashes(p) \/ PromptYes(p) \/ PromptNo(p) \/ RenameDone(p)
          \/ RenameFails(p) \/ Mkdir(p) \/ Opendir(p) \/ OpendirFails(p) \/ ReaddirEntry(p)
          \/ ReaddirEnd(p))
    BY <2>3 DEF StatSrc, StatSrcFails, StatDestMissing, StatDestExists, StatDestClashes,
         PromptYes, PromptNo, RenameDone, RenameFails, Mkdir, Opendir, OpendirFails,
         ReaddirEntry, ReaddirEnd
  <2>5. ~(\/ RmdirSrc(p) \/ OpenDest(p) \/ OpenDestForced(p) \/ OpenDestFails(p) \/ UnlinkDest(p)
          \/ OpenSrc(p) \/ OpenSrcFails(p) \/ Read(p) \/ ReadEof(p) \/ ReadFails(p)
          \/ Write(p) \/ WriteFails(p) \/ UnlinkSrc(p) \/ PreserveMeta(p))
    BY <2>3 DEF RmdirSrc, OpenDest, OpenDestForced, OpenDestFails, UnlinkDest, OpenSrc,
         OpenSrcFails, Read, ReadEof, ReadFails, Write, WriteFails, UnlinkSrc, PreserveMeta
  <2>6. Guess(p) \/ Check(p) \/ Exit(p) \/ NextSource(p)
    BY <2>1, <2>2, <2>4, <2>5 DEF Step
  <2> QED
    BY <1>2, <2>6, MainFares, NextFares
<1> QED
  BY <1>1, <1>2

\* By a step at which nothing of p and nothing of the disk changes.
LEMMA IdleFares ==
  ASSUME NEW p \in Proc, Typed, Faring(p),
         UNCHANGED <<tree, file, setting, target, operand, stack>>, at'[p] = at[p]
  PROVE  Faring(p)'
<1>1. Homeland(p)'
  BY DEF Faring, Homeland, Dest, cmd
<1>2. at'[p] = "exited" => operand[p] = Len(Sources(p)) /\ stack[p] = <<>> /\ Copies(p)
                           /\ (target'[p] = "file" => Len(cmd[p].args) = 2)
  BY DEF Faring
<1> QED
  BY <1>1, <1>2, QuietFares

\* At the beginning.
LEMMA FaringBegins ==
  ASSUME Init, NEW p \in Proc, Copies(p), Calm(p)
  PROVE  Faring(p)
<1>1. /\ tree = setting.tree /\ file = setting.file /\ setting \in Settings
      /\ at[p] = "guess" /\ operand[p] = 0 /\ stack[p] = <<>>
  BY DEF Init
<1>2. \A k : k \notin DOMAIN stack[p]
  BY <1>1
<1>3. Sources(p) \in Seq(Path)
  BY <1>1, ArgumentsAre DEF Copies
<1>4. Entered(p) /\ Waiting(p)
  BY <1>1, <1>2 DEF Entered, Waiting
<1>5. Covered(p)
  BY <1>1, <1>3 DEF Covered
<1>6. MetaUnwritten /\ Homeland(p)
  BY <1>1 DEF MetaUnwritten, Homeland, Calm, Tidy
<1> QED
  BY <1>1, <1>2, <1>4, <1>5, <1>6 DEF Faring

\* A lone program that has not complained.
Unworried(p) == Copies(p) /\ Calm(p) /\ ret[p] = 0

LoneInv == /\ Inv /\ ret \in [Proc -> {0, 1}]
           /\ \A p \in Proc : Unworried(p) => Moving /\ Faring(p)

\* The others are idle and p does not complain of what it reads and writes.
LEMMA AllSmooth ==
  ASSUME LoneInv, NEW p \in Proc, Calm(p), Step(p) => ret'[p] = 0,
         NEW s \in Proc, Step(s)
  PROVE  Smooth(s)
<1>1. Never({"short"}) /\ ret \in [Proc -> {0, 1}]
  BY DEF Calm, Never, LoneInv
<1>2. CASE s = p
  BY <1>1, <1>2, Complaints DEF Smooth
<1>3. CASE s # p
  <2>1. cmd[s].args = <<>>
    BY <1>3 DEF Calm, Alone
  <2>2. stack[s] = <<>>
    BY <2>1 DEF LoneInv, Inv, Typed, ProgressTyped
  <2> QED
    BY <1>1, <2>2 DEF Smooth, WriteFails, ReadFails, Busy
<1> QED
  BY <1>2, <1>3

\* Whoever makes a step.
LEMMA AnyStepFares ==
  ASSUME LoneInv, Inv', NEW p \in Proc, Unworried(p), NEW r \in Proc, Step(r), ret'[p] = 0
  PROVE  Moving' /\ Faring(p)'
<1>1. /\ Typed /\ Typed' /\ Orderly /\ Moving /\ Faring(p) /\ [Next]_vars /\ Calm(p)
      /\ ret \in [Proc -> {0, 1}]
  BY DEF LoneInv, Inv, Unworried, Calm, Tidy, Next
<1>2. \A s \in Proc : Step(s) => Smooth(s)
  BY <1>1, AllSmooth
<1>3. Moving'
  BY <1>1, <1>2, MovingKept
<1>4. CASE r = p
  <2>1. Faultless(p)
    BY <1>1, <1>4 DEF LoneInv, Unworried, Faultless
  <2> QED
    BY <1>3, <2>1, StepFares
<1>5. CASE r # p
  <2>1. cmd[r].args = <<>>
    BY <1>1, <1>5 DEF Calm, Alone
  <2>2. at[r] \in {"guess", "exited"}
    BY <2>1 DEF LoneInv, Inv
  <2>3. /\ UNCHANGED <<tree, file, setting, target, operand, stack>>
        /\ at' = [at EXCEPT ![r] = "exited"]
    BY <1>1, <2>1, <2>2, IdleStep
  <2>4. at'[p] = at[p]
    BY <1>1, <1>5, <2>3 DEF Typed, ProgressTyped
  <2> QED
    BY <1>1, <1>3, <2>3, <2>4, IdleFares
<1> QED
  BY <1>4, <1>5

\* Every step keeps the invariant.
LEMMA LoneInvKept ==
  ASSUME LoneInv, [Next]_vars
  PROVE  LoneInv'
<1>1. Inv' /\ Typed
  BY InvKept DEF LoneInv, Inv
<1>2. CASE UNCHANGED vars
  <2>1. UNCHANGED <<tree, file, setting, target, operand, stack>> /\ at' = at /\ ret' = ret
    BY <1>2 DEF vars
  <2>2. ASSUME NEW p \in Proc, Unworried(p)'
        PROVE  Moving' /\ Faring(p)'
    <3>1. Unworried(p)
      BY <2>1, <2>2 DEF Unworried, Copies, Calm, Tidy, Orderly, Alone, Never, IsMv, Dest, Sources, cmd
    <3>2. Moving /\ Faring(p)
      BY <3>1 DEF LoneInv
    <3>3. Moving'
      BY <1>2, <3>2, StutterKeeps
    <3> QED
      BY <1>1, <2>1, <3>2, <3>3, IdleFares
  <2> QED
    BY <1>1, <2>1, <2>2 DEF LoneInv
<1>3. ASSUME NEW r \in Proc, Step(r) PROVE LoneInv'
  <2>1. ret' \in [Proc -> {0, 1}] /\ \A p \in Proc : ret[p] # 0 => ret'[p] # 0
    BY <1>3, StatusKept DEF LoneInv
  <2>2. setting' = setting
    BY <1>1, <1>3, AtOthers
  <2>3. ASSUME NEW p \in Proc, Unworried(p)'
        PROVE  Moving' /\ Faring(p)'
    <3>1. Copies(p) /\ Calm(p) /\ ret'[p] = 0
      BY <2>2, <2>3 DEF Unworried, Copies, Calm, Tidy, Orderly, Alone, Never, IsMv, Dest, Sources, cmd
    <3>2. Unworried(p)
      BY <2>1, <3>1 DEF Unworried
    <3> QED
      BY <1>1, <1>3, <3>1, <3>2, AnyStepFares
  <2> QED
    BY <1>1, <2>1, <2>3 DEF LoneInv
<1> QED
  BY <1>2, <1>3 DEF Next, Done

\* It holds at the beginning.
LEMMA LoneInvBegins ==
  ASSUME Init
  PROVE  LoneInv
<1>1. Inv /\ ret \in [Proc -> {0, 1}]
  BY InvBegins DEF Init
<1>2. \A p \in Proc : Unworried(p) => Moving /\ Faring(p)
  BY MovingBegins, FaringBegins DEF Unworried, Calm, Tidy
<1> QED
  BY <1>1, <1>2 DEF LoneInv

\* What has exited with status 0 has an image of all it was to copy, and every
\* path of the two leads straight to its end.
LEMMA ExitedCopied ==
  ASSUME LoneInv, NEW p \in Proc, Alone(p), Never({"mkdir", "short"}), Exited(p), ret[p] = 0,
         \A r \in Proc : Copies(r) => Tidy(r),
         NEW i \in DOMAIN Sources(p), NEW q \in Below(setting, Sources(p)[i]),
         NEW x, x = ImageOf(p, i, q)
  PROVE  /\ Imaged(p, q, x) /\ q \in Path /\ q \in DOMAIN setting.tree
         /\ Follow(tree, x) = x /\ Follow(setting.tree, q) = q
         /\ IsFile(setting.tree, q) => q \in Home
<1>1. /\ Typed /\ setting \in Settings
  BY DEF LoneInv, Inv, Typed, ProgressTyped
<1>2. Copies(p)
  BY <1>1, AwayCopies
<1>3. Calm(p) /\ Orderly
  BY <1>2 DEF Calm, Tidy
<1>4. Moving /\ Faring(p)
  BY <1>2, <1>3 DEF LoneInv, Unworried
<1>5. operand[p] = Len(Sources(p)) /\ stack[p] = <<>> /\ Covered(p)
  BY <1>4 DEF Exited, Faring
<1>6. q \in DOMAIN setting.tree /\ IsPrefix(Sources(p)[i], q) /\ Grown(setting.tree)
  BY <1>1, SettingIs DEF Below
<1>7. q \in Path
  BY <1>6 DEF Grown
<1>8. i <= operand[p]
  <2>1. Sources(p) \in Seq(Path)
    BY <1>1, <1>2, ArgumentsAre DEF Copies
  <2> QED
    BY <1>5, <2>1
<1>9. Imaged(p, q, x)
  <2>1. \A k : k \notin DOMAIN stack[p]
    BY <1>5
  <2> QED
    BY <1>5, <1>6, <1>8, <2>1 DEF Covered
<1>10. x \in Path
  BY <1>1, <1>2, <1>6, <1>7, ImageOfIs
<1>11. Follow(tree, x) = x
  BY <1>4, <1>10, FollowStraight DEF Moving, Linkless
<1>12. Follow(setting.tree, q) = q
  BY <1>3, <1>7, FollowStraight DEF Orderly, Linkless
<1>13. Outside(q)
  BY <1>1, <1>2, <1>3, <1>6, <1>7, SourceOutside
<1> QED
  BY <1>6, <1>7, <1>9, <1>11, <1>12, <1>13 DEF Home

\* The invariant, for every file tree, command line and number of processes.
THEOREM LoneInvariance == Spec => []LoneInv
<1>1. Init => LoneInv
  BY LoneInvBegins
<1>2. LoneInv /\ [Next]_vars => LoneInv'
  BY LoneInvKept
<1> QED
  BY <1>1, <1>2, PTL DEF Spec

\* An exit status of 0 means that every directory below a source is a directory
\* below its image and every file a file with the same content, whatever calls
\* failed on the way: none of the results copy() ignores (mkdir, rmdir, unlink,
\* its own) hides that something was left out, as long as DESTINATION has a
\* directory to be in and what a mv is to move lies apart.
THEOREM ExitMeansCopied ==
  Spec => []((\A p \in Proc : Copies(p) => Tidy(p)) => SuccessMeansCopied)
<1>1. LoneInv => ((\A p \in Proc : Copies(p) => Tidy(p)) => SuccessMeansCopied)
  <2> SUFFICES ASSUME LoneInv, \A r \in Proc : Copies(r) => Tidy(r),
                      NEW p \in Proc, Alone(p), Never({"mkdir", "short"}), Exited(p), ret[p] = 0,
                      NEW i \in DOMAIN Sources(p), NEW q \in Below(setting, Sources(p)[i])
               PROVE  /\ DirAt(setting, q) => DirAt(Now, ImageOf(p, i, q))
                      /\ FileAt(setting, q) => /\ FileAt(Now, ImageOf(p, i, q))
                                               /\ Data(Now, ImageOf(p, i, q)) = Data(setting, q)
    BY DEF SuccessMeansCopied
  <2>1. PICK x : x = ImageOf(p, i, q)
    OBVIOUS
  <2>2. /\ Imaged(p, q, x) /\ Follow(tree, x) = x /\ Follow(setting.tree, q) = q
    BY <2>1, ExitedCopied
  <2>3. Now.tree = tree /\ Now.file = file
    BY DEF Now
  <2>4. DirAt(setting, q) => DirAt(Now, x)
    BY <2>2, <2>3 DEF DirAt, Imaged
  <2>5. FileAt(setting, q) => FileAt(Now, x) /\ Data(Now, x) = Data(setting, q)
    BY <2>2, <2>3 DEF FileAt, Data, Imaged, Filled, HomeData
  <2> QED
    BY <2>1, <2>4, <2>5
<1> QED
  BY <1>1, LoneInvariance, PTL

\* Meta data are kept: what a mv or a cp with -p has copied has the owner, the times
\* and the permissions of its source, and of its mode at most the set-user-ID bit is
\* gone, whatever modes and owners there are.
THEOREM MetaIsKept ==
  Spec => []((\A p \in Proc : Copies(p) => Tidy(p)) /\ Never({"mkdir", "short"}) => MetaKept)
<1>1. LoneInv =>
        ((\A p \in Proc : Copies(p) => Tidy(p)) /\ Never({"mkdir", "short"}) => MetaKept)
  <2> SUFFICES ASSUME LoneInv, \A r \in Proc : Copies(r) => Tidy(r), Never({"mkdir", "short"}),
                      NEW p \in Proc, Alone(p), Exited(p), ret[p] = 0,
                      Preserve(p), Never({"chmod", "chown", "utime"}),
                      NEW i \in DOMAIN Sources(p), NEW q \in Below(setting, Sources(p)[i]),
                      FileAt(setting, q)
               PROVE  MetaAt(Now, ImageOf(p, i, q)) \in Inherited(MetaAt(setting, q))
    BY DEF MetaKept
  <2>1. PICK x : x = ImageOf(p, i, q)
    OBVIOUS
  <2>2. /\ Imaged(p, q, x) /\ Follow(tree, x) = x /\ Follow(setting.tree, q) = q
    BY <2>1, ExitedCopied
  <2>3. Now.tree = tree /\ Now.file = file
    BY DEF Now
  <2>4. Faithful(p)
    BY DEF Faithful
  <2>5. file[tree[x].ino].meta \in Inherited(HomeMeta(q))
    BY <2>2, <2>4 DEF FileAt, Imaged
  <2> QED
    BY <2>1, <2>2, <2>3, <2>5 DEF MetaAt, HomeMeta
<1> QED
  BY <1>1, LoneInvariance, PTL
===============================================================================
