---------------------------------- MODULE Cp ----------------------------------
(***************************************************************************)
(* src/cp.c: `cp`, `mv` and `install`, which share cp_main() and copy(),   *)
(* run by several processes at once on one file tree.  One action is one   *)
(* system call (or one stat, or the three calls that preserve the meta     *)
(* data) with the code that follows it up to the next call.                *)
(***************************************************************************)
EXTENDS Integers, FileSystem

CONSTANTS Proc,      \* the processes
          Settings   \* what they may meet, see below

(***************************************************************************)
(* A command line.  to is which of -t and -T are given, slash whether the  *)
(* last argument ends in '/'.                                              *)
(***************************************************************************)
Command == [prog : {"cp", "mv", "install"}, args : Seq(Path \ {<<>>}), slash : BOOLEAN,
            to : SUBSET {"dir", "file"}, force : BOOLEAN, interactive : BOOLEAN,
            recursive : BOOLEAN, preserve : BOOLEAN]

(***************************************************************************)
(* The content of a file is a sequence of buffers of the copying loop.     *)
(* Hole is what a write that stored less than a buffer leaves behind.      *)
(***************************************************************************)
Hole == 0
Mode == [bits : {"open", "private"}, setuid : BOOLEAN]
Meta == [mode : Mode, owner : {"me", "other"}, time : {"old", "now"}]
Inode == [data : Seq(Nat), meta : Meta]
Fresh == [data |-> <<>>, meta |-> [mode  |-> [bits |-> "open", setuid |-> FALSE],
                                   owner |-> "me", time |-> "now"]]

(***************************************************************************)
(* A setting: the file system at the start, the command line of every      *)
(* process, what the user may type at a prompt ("line y" and "line n" with *)
(* a newline, "bare y" without one, "nothing" at the end of the input) and *)
(* the calls that may be refused or, for "short", write less than asked.   *)
(***************************************************************************)
Setting(s) ==
  /\ IsTree(s.tree) /\ s.file \in Seq(Inode)
  /\ \A q \in DOMAIN s.tree : IsFile(s.tree, q) => s.tree[q].ino \in DOMAIN s.file
  /\ s.cmd \in [Proc -> Command]
  /\ s.answers \subseteq {"line y", "line n", "bare y", "nothing"}

ASSUME SettingsAssumption == \A s \in Settings : Setting(s)

VARIABLES tree,     \* the shared file tree
          file,     \* file[i]: the inode i
          setting,  \* the setting of this run
          at,       \* at[p]: where p is in cp_main
          target,   \* target[p]: what cp_main takes DESTINATION to be
          operand,  \* operand[p]: the index of the source p works on
          stack,    \* stack[p]: the activations of copy(), the innermost last
          ret       \* ret[p]: the static int ret, the exit status to be

vars == <<tree, file, setting, at, target, operand, stack, ret>>
main == <<setting, at, target, operand>>
disk == <<tree, file>>

cmd == setting.cmd   \* cmd[p]: what p was started with

(***************************************************************************)
(* An activation of copy(src, dest): the call it makes next, what stat     *)
(* said of src (is it a directory, which file is it, its meta data),       *)
(* whether the user agreed to overwrite, the directory stream, the inodes  *)
(* open as src_fd and dest_fd, the number of buffers copied, the buffer.   *)
(***************************************************************************)
Calls == {"stat_src", "stat_dest", "prompt", "rename", "mkdir", "opendir", "readdir",
          "rmdir", "open_dest", "unlink_dest", "reopen_dest", "open_src", "read",
          "write", "unlink_src", "preserve"}

Activation == [call : Calls, src : Path, dest : Path,
               dir : BOOLEAN, id : [ino : Nat, path : Path], meta : Meta,
               consent : BOOLEAN, snap : SUBSET (Name \cup Dots), seen : SUBSET (Name \cup Dots),
               in : Nat, out : Nat, pos : Nat, buf : Nat]

NoMeta == Fresh.meta
Copy(src, dest) ==
  [call |-> "stat_src", src |-> src, dest |-> dest,
   dir |-> FALSE, id |-> [ino |-> 0, path |-> <<>>], meta |-> NoMeta,
   consent |-> FALSE, snap |-> {}, seen |-> {}, in |-> 0, out |-> 0, pos |-> 0, buf |-> 0]

-------------------------------------------------------------------------------
Init ==
  /\ setting \in Settings
  /\ tree = setting.tree /\ file = setting.file
  /\ at = [p \in Proc |-> "guess"]
  /\ target = [p \in Proc |-> "unset"]
  /\ operand = [p \in Proc |-> 0]
  /\ stack = [p \in Proc |-> <<>>]
  /\ ret = [p \in Proc |-> 0]

IsMv(p)      == cmd[p].prog = "mv"
Recursive(p) == cmd[p].recursive \/ IsMv(p)
Preserve(p)  == cmd[p].preserve \/ IsMv(p)

Sources(p) == Front(cmd[p].args)
Dest(p)    == Last(cmd[p].args)

Refused(call) == call \in setting.faults

(***************************************************************************)
(* cp_main: the arguments, DESTINATION and the loop over the sources.      *)
(***************************************************************************)
Quit(p) == /\ ret' = [ret EXCEPT ![p] = 1]
           /\ at' = [at EXCEPT ![p] = "exited"]
           /\ UNCHANGED <<tree, file, setting, target, operand, stack>>

\* "missing argument", or both -t and -T.
Usage(p) ==
  /\ at[p] = "guess" /\ (Len(cmd[p].args) < 2 \/ cmd[p].to = {"dir", "file"})
  /\ Quit(p)

\* Without -t and -T, DESTINATION is a directory if it has to be or is one.
Guess(p) ==
  /\ at[p] = "guess" /\ Len(cmd[p].args) >= 2 /\ cmd[p].to # {"dir", "file"}
  /\ at' = [at EXCEPT ![p] = "check"]
  /\ target' = [target EXCEPT ![p] =
       IF \/ "dir" \in cmd[p].to
          \/ /\ cmd[p].to = {}
             /\ \/ Len(cmd[p].args) > 2 \/ cmd[p].slash
                \/ IsDir(tree, Follow(tree, Dest(p)))
       THEN "dir" ELSE "file"]
  /\ UNCHANGED <<tree, file, setting, operand, stack, ret>>

\* A second stat() has to agree, and -T takes one source.
Agrees(p) ==
  LET isdir == IsDir(tree, Follow(tree, Dest(p)))
  IN  IF target[p] = "dir" THEN isdir ELSE ~isdir /\ Len(cmd[p].args) = 2

Check(p) ==
  /\ at[p] = "check" /\ Agrees(p)
  /\ at' = [at EXCEPT ![p] = "loop"]
  /\ UNCHANGED <<tree, file, setting, target, operand, stack, ret>>

CheckFails(p) == at[p] = "check" /\ ~Agrees(p) /\ Quit(p)

\* Where source i goes: DESTINATION, or its basename in DESTINATION.
Image(p, i) ==
  IF target[p] = "file" THEN Dest(p) ELSE Append(Dest(p), Last(Sources(p)[i]))

NextSource(p) ==
  /\ at[p] = "loop" /\ stack[p] = <<>> /\ operand[p] < Len(Sources(p))
  /\ operand' = [operand EXCEPT ![p] = @ + 1]
  /\ stack' = [stack EXCEPT ![p] =
       <<Copy(Sources(p)[operand[p] + 1], Image(p, operand[p] + 1))>>]
  /\ UNCHANGED <<tree, file, setting, at, target, ret>>

Exit(p) ==
  /\ at[p] = "loop" /\ stack[p] = <<>> /\ operand[p] = Len(Sources(p))
  /\ at' = [at EXCEPT ![p] = "exited"]
  /\ UNCHANGED <<tree, file, setting, target, operand, stack, ret>>

(***************************************************************************)
(* copy(): its calls in their order.                                       *)
(***************************************************************************)
Busy(p, call) == stack[p] # <<>> /\ Last(stack[p]).call = call
Top(p) == Last(stack[p])

GoOn(p, act) == stack' = [stack EXCEPT ![p] = Append(Front(stack[p]), act)]
To(p, call)  == GoOn(p, [Top(p) EXCEPT !.call = call])
Return(p)    == stack' = [stack EXCEPT ![p] = Front(stack[p])]

\* `ret = 1; return -1;`
Fail(p) == Return(p) /\ ret' = [ret EXCEPT ![p] = 1]

\* st_dev and st_ino.
Identity(t, q) == [ino  |-> IF IsFile(t, q) THEN t[q].ino ELSE 0,
                   path |-> IF IsFile(t, q) THEN <<>> ELSE q]

\* stat(src), or lstat(src) for a link to nowhere.
Found(t, path) ==
  IF Exists(t, Follow(t, path)) THEN Follow(t, path) ELSE NoFollow(t, path)

StatSrc(p) ==
  LET q == Found(tree, Top(p).src)
  IN  /\ Busy(p, "stat_src") /\ Exists(tree, q)
      /\ IsDir(tree, q) => Recursive(p)
      /\ GoOn(p, [Top(p) EXCEPT !.call = "stat_dest",
                                !.dir = IsDir(tree, q), !.id = Identity(tree, q),
                                !.meta = IF IsFile(tree, q) THEN file[tree[q].ino].meta
                                                            ELSE NoMeta])
      /\ UNCHANGED <<disk, main, ret>>

StatSrcFails(p) ==
  LET q == Found(tree, Top(p).src)
  IN  /\ Busy(p, "stat_src")
      /\ ~Exists(tree, q) \/ (IsDir(tree, q) /\ ~Recursive(p))
      /\ Fail(p) /\ UNCHANGED <<disk, main>>

\* What follows the checks: mv tries to rename, the others go on to copy.
FirstWay(p) ==
  IF IsMv(p) THEN "rename" ELSE IF Top(p).dir THEN "mkdir" ELSE "open_dest"

StatDestMissing(p) ==
  /\ Busy(p, "stat_dest") /\ ~Exists(tree, Follow(tree, Top(p).dest))
  /\ To(p, FirstWay(p))
  /\ UNCHANGED <<disk, main, ret>>

ClashIgnoringSame(p) ==
  IsDir(tree, Follow(tree, Top(p).dest)) # Top(p).dir

\* One is a directory and the other is not, or they are the same file.
Clash(p) ==
  LET d == Follow(tree, Top(p).dest)
  IN  IsDir(tree, d) # Top(p).dir \/ Identity(tree, d) = Top(p).id

StatDestPromptsCpOnly(p) ==
  /\ Busy(p, "stat_dest") /\ Exists(tree, Follow(tree, Top(p).dest)) /\ ~Clash(p)
  /\ IF cmd[p].interactive /\ ~Top(p).dir /\ ~IsMv(p)
     THEN To(p, "prompt") ELSE To(p, FirstWay(p))
  /\ UNCHANGED <<disk, main, ret>>

StatDestExists(p) ==
  /\ Busy(p, "stat_dest") /\ Exists(tree, Follow(tree, Top(p).dest)) /\ ~Clash(p)
  /\ IF cmd[p].interactive /\ ~Top(p).dir THEN To(p, "prompt") ELSE To(p, FirstWay(p))
  /\ UNCHANGED <<disk, main, ret>>

StatDestClashes(p) ==
  /\ Busy(p, "stat_dest") /\ Exists(tree, Follow(tree, Top(p).dest)) /\ Clash(p)
  /\ Fail(p) /\ UNCHANGED <<disk, main>>

(***************************************************************************)
(* fgets() keeps the newline of a line that has one, and strcasecmp()      *)
(* compares with it; at the end of the input it leaves the buffer as it    *)
(* was, which is uninitialised: it may pass for a yes that nobody gave.     *)
(***************************************************************************)
Accepted == {"bare y"}

PromptYes(p) ==
  /\ Busy(p, "prompt")
  /\ \E a \in setting.answers \cap (Accepted \cup {"nothing"}) :
       GoOn(p, [Top(p) EXCEPT !.call = FirstWay(p), !.consent = a \in Accepted])
  /\ UNCHANGED <<disk, main, ret>>

PromptNo(p) ==
  /\ Busy(p, "prompt") /\ \E a \in setting.answers : a \notin Accepted
  /\ Fail(p) /\ UNCHANGED <<disk, main>>

\* mv: rename(), and the copy when it fails for whatever reason.
RenameDone(p) ==
  LET s == NoFollow(tree, Top(p).src)
      d == NoFollow(tree, Top(p).dest)
  IN  /\ Busy(p, "rename") /\ CanRename(tree, s, d)
      /\ tree' = Renamed(tree, s, d)
      /\ Return(p) /\ UNCHANGED <<file, main, ret>>

RenameFails(p) ==
  /\ Busy(p, "rename")
  /\ \/ ~CanRename(tree, NoFollow(tree, Top(p).src), NoFollow(tree, Top(p).dest))
     \/ Refused("rename")
  /\ To(p, IF Top(p).dir THEN "mkdir" ELSE "open_dest")
  /\ UNCHANGED <<disk, main, ret>>

(***************************************************************************)
(* A directory: mkdir(), whose result is ignored, the entries, rmdir().    *)
(***************************************************************************)
Mkdir(p) ==
  LET d == NoFollow(tree, Top(p).dest)
  IN  /\ Busy(p, "mkdir")
      /\ \/ CanMake(tree, d) /\ tree' = With(tree, d, Dir)
         \/ (~CanMake(tree, d) \/ Refused("mkdir")) /\ tree' = tree
      /\ To(p, "opendir") /\ UNCHANGED <<file, main, ret>>

Opendir(p) ==
  LET s == Follow(tree, Top(p).src)
  IN  /\ Busy(p, "opendir") /\ IsDir(tree, s)
      /\ GoOn(p, [Top(p) EXCEPT !.call = "readdir", !.snap = Entries(tree, s) \cup Dots])
      /\ UNCHANGED <<disk, main, ret>>

OpendirFails(p) ==
  /\ Busy(p, "opendir")
  /\ ~IsDir(tree, Follow(tree, Top(p).src)) \/ Refused("opendir")
  /\ Fail(p) /\ UNCHANGED <<disk, main>>

\* copy() calls itself on every entry but the dots, and ignores the result.
ReaddirEntry(p) ==
  /\ Busy(p, "readdir")
  /\ \E n \in Readable(tree, Follow(tree, Top(p).src), Top(p)) :
       LET read == Append(Front(stack[p]), [Top(p) EXCEPT !.seen = @ \cup {n}])
       IN  stack' = [stack EXCEPT ![p] =
             IF n \in Dots THEN read
             ELSE Append(read, Copy(Append(Top(p).src, n), Append(Top(p).dest, n)))]
  /\ UNCHANGED <<disk, main, ret>>

\* The meta data come last, and only with -p.
Finish(p) == IF Preserve(p) THEN To(p, "preserve") ELSE Return(p)

ReaddirEnd(p) ==
  /\ Busy(p, "readdir") /\ Pending(tree, Follow(tree, Top(p).src), Top(p)) = {}
  /\ IF IsMv(p) THEN To(p, "rmdir") ELSE Finish(p)
  /\ UNCHANGED <<disk, main, ret>>

RmdirSrc(p) ==
  LET s == NoFollow(tree, Top(p).src)
  IN  /\ Busy(p, "rmdir")
      /\ \/ CanRmdir(tree, s) /\ tree' = Without(tree, s)
         \/ (~CanRmdir(tree, s) \/ Refused("rmdir")) /\ tree' = tree
      /\ Finish(p) /\ UNCHANGED <<file, main, ret>>

(***************************************************************************)
(* Anything else: open dest (with -f once more after an unlink), open src, *)
(* the copying loop, unlink().                                             *)
(***************************************************************************)
CanOpen(t, q) == IsFile(t, q) \/ CanMake(t, q)

Touched(f, i, data) == [f EXCEPT ![i].data = data, ![i].meta.time = "now"]

OpenDest(p) ==
  LET d == Follow(tree, Top(p).dest)
      i == IF IsFile(tree, d) THEN tree[d].ino ELSE Len(file) + 1
  IN  /\ Busy(p, "open_dest") \/ Busy(p, "reopen_dest")
      /\ CanOpen(tree, d)
      /\ IF IsFile(tree, d) THEN tree' = tree /\ file' = Touched(file, i, <<>>)
                            ELSE tree' = With(tree, d, File(i)) /\ file' = Append(file, Fresh)
      /\ GoOn(p, [Top(p) EXCEPT !.call = "open_src", !.out = i])
      /\ UNCHANGED <<main, ret>>

Unopenable(p) == ~CanOpen(tree, Follow(tree, Top(p).dest)) \/ Refused("open_dest")

OpenDestForced(p) ==
  /\ Busy(p, "open_dest") /\ Unopenable(p) /\ cmd[p].force
  /\ To(p, "unlink_dest") /\ UNCHANGED <<disk, main, ret>>

OpenDestFails(p) ==
  /\ (Busy(p, "open_dest") /\ ~cmd[p].force) \/ Busy(p, "reopen_dest")
  /\ Unopenable(p)
  /\ Fail(p) /\ UNCHANGED <<disk, main>>

UnlinkDest(p) ==
  LET d == NoFollow(tree, Top(p).dest)
  IN  /\ Busy(p, "unlink_dest")
      /\ \/ CanUnlink(tree, d) /\ tree' = Without(tree, d)
         \/ (~CanUnlink(tree, d) \/ Refused("unlink")) /\ tree' = tree
      /\ To(p, "reopen_dest") /\ UNCHANGED <<file, main, ret>>

\* A directory can be opened for reading too: its descriptor is 0 here.
OpenSrc(p) ==
  LET s == Follow(tree, Top(p).src)
  IN  /\ Busy(p, "open_src") /\ Exists(tree, s)
      /\ GoOn(p, [Top(p) EXCEPT !.call = "read", !.in = Identity(tree, s).ino])
      /\ UNCHANGED <<disk, main, ret>>

OpenSrcFailsGoesOn(p) ==
  /\ Busy(p, "open_src")
  /\ ~Exists(tree, Follow(tree, Top(p).src)) \/ Refused("open_src")
  /\ ret' = [ret EXCEPT ![p] = 1]
  /\ IF IsMv(p) THEN To(p, "unlink_src") ELSE Return(p)
  /\ UNCHANGED <<disk, main>>

OpenSrcFails(p) ==
  /\ Busy(p, "open_src")
  /\ ~Exists(tree, Follow(tree, Top(p).src)) \/ Refused("open_src")
  /\ Fail(p) /\ UNCHANGED <<disk, main>>

Read(p) ==
  /\ Busy(p, "read") /\ Top(p).in # 0
  /\ Top(p).pos < Len(file[Top(p).in].data)
  /\ GoOn(p, [Top(p) EXCEPT !.call = "write", !.pos = @ + 1,
                            !.buf = file[Top(p).in].data[Top(p).pos + 1]])
  /\ UNCHANGED <<disk, main, ret>>

\* After the loop, however it ended: close, and mv unlinks the source.
Close(p) == IF IsMv(p) THEN To(p, "unlink_src") ELSE Finish(p)

ReadEof(p) ==
  /\ Busy(p, "read") /\ Top(p).in # 0 /\ Top(p).pos >= Len(file[Top(p).in].data)
  /\ Close(p) /\ UNCHANGED <<disk, main, ret>>

ReadFails(p) ==
  /\ Busy(p, "read") /\ (Top(p).in = 0 \/ Refused("read"))
  /\ ret' = [ret EXCEPT ![p] = 1]
  /\ Close(p) /\ UNCHANGED <<disk, main>>

\* write() at the offset of dest_fd; past the end it leaves a hole.
Stored(data, k, b) ==
  [i \in 1..(IF k > Len(data) THEN k ELSE Len(data)) |->
     IF i = k THEN b ELSE IF i \in DOMAIN data THEN data[i] ELSE Hole]

Written(p, b) == Touched(file, Top(p).out, Stored(file[Top(p).out].data, Top(p).pos, b))

\* Only w < 0 is an error: a short write goes unnoticed.
Write(p) ==
  /\ Busy(p, "write")
  /\ \E b \in {Top(p).buf} \cup (IF Refused("short") THEN {Hole} ELSE {}) :
       file' = Written(p, b)
  /\ To(p, "read") /\ UNCHANGED <<tree, main, ret>>

WriteFailsQuietly(p) ==
  /\ Busy(p, "write") /\ Refused("write")
  /\ Close(p) /\ UNCHANGED <<disk, main, ret>>

WriteFails(p) ==
  /\ Busy(p, "write") /\ Refused("write")
  /\ ret' = [ret EXCEPT ![p] = 1]
  /\ Close(p) /\ UNCHANGED <<disk, main>>

UnlinkSrc(p) ==
  LET s == NoFollow(tree, Top(p).src)
  IN  /\ Busy(p, "unlink_src")
      /\ \/ CanUnlink(tree, s) /\ tree' = Without(tree, s)
         \/ (~CanUnlink(tree, s) \/ Refused("unlink")) /\ tree' = tree
      /\ Finish(p) /\ UNCHANGED <<file, main, ret>>

PreservedNoMode(old, new, refused) ==
  [mode |-> [bits |-> old.mode.bits, setuid |-> FALSE], owner |-> new.owner, time |-> new.time]

(***************************************************************************)
(* chmod, chown, utime, each of which may be refused unnoticed.  A chown   *)
(* takes the set-user-ID bit of a regular file away.                       *)
(***************************************************************************)
Preserved(old, new, refused) ==
  LET mode == IF "chmod" \in refused THEN old.mode ELSE new.mode
  IN  [mode  |-> IF "chown" \in refused THEN mode ELSE [mode EXCEPT !.setuid = FALSE],
       owner |-> IF "chown" \in refused THEN old.owner ELSE new.owner,
       time  |-> IF "utime" \in refused THEN old.time ELSE new.time]

PreserveMeta(p) ==
  LET d == Follow(tree, Top(p).dest)
  IN  /\ Busy(p, "preserve")
      /\ IF IsFile(tree, d)
         THEN \E refused \in SUBSET ({"chmod", "chown", "utime"} \cap setting.faults) :
                file' = [file EXCEPT ![tree[d].ino].meta = Preserved(@, Top(p).meta, refused)]
         ELSE file' = file
      /\ Return(p) /\ UNCHANGED <<tree, main, ret>>

-------------------------------------------------------------------------------
Step(p) ==
  \/ Usage(p) \/ Guess(p) \/ Check(p) \/ CheckFails(p) \/ NextSource(p) \/ Exit(p)
  \/ StatSrc(p) \/ StatSrcFails(p)
  \/ StatDestMissing(p) \/ StatDestExists(p) \/ StatDestClashes(p)
  \/ PromptYes(p) \/ PromptNo(p) \/ RenameDone(p) \/ RenameFails(p)
  \/ Mkdir(p) \/ Opendir(p) \/ OpendirFails(p)
  \/ ReaddirEntry(p) \/ ReaddirEnd(p) \/ RmdirSrc(p)
  \/ OpenDest(p) \/ OpenDestForced(p) \/ OpenDestFails(p) \/ UnlinkDest(p)
  \/ OpenSrc(p) \/ OpenSrcFails(p) \/ Read(p) \/ ReadEof(p) \/ ReadFails(p)
  \/ Write(p) \/ WriteFails(p) \/ UnlinkSrc(p) \/ PreserveMeta(p)

Done == (\A p \in Proc : at[p] = "exited") /\ UNCHANGED vars

Next == (\E p \in Proc : Step(p)) \/ Done

\* The kernel runs every process again and again.
Spec == Init /\ [][Next]_vars /\ \A p \in Proc : WF_vars(Step(p))

-------------------------------------------------------------------------------
(***************************************************************************)
(* What cp and mv promise.                                                 *)
(***************************************************************************)
Exited(p) == at[p] = "exited"
Never(calls) == setting.faults \cap calls = {}
Alone(p) == \A q \in Proc \ {p} : cmd[q].args = <<>>

FileAt(d, q) == IsFile(d.tree, Follow(d.tree, q))
DirAt(d, q)  == IsDir(d.tree, Follow(d.tree, q))
Data(d, q)   == d.file[d.tree[Follow(d.tree, q)].ino].data
MetaAt(d, q) == d.file[d.tree[Follow(d.tree, q)].ino].meta
Now == [tree |-> tree, file |-> file]

\* Where a path q below source i ends up.
ImageOf(p, i, q) == Image(p, i) \o SubSeq(q, Len(Sources(p)[i]) + 1, Len(q))
Below(d, q) == {r \in DOMAIN d.tree : IsPrefix(q, r)}

\* An exit status of 0 means that every source is there under its new name,
\* every directory, every file and its whole content, when the sources go to
\* different places that are no sources: no refused rename, open, read, write
\* or unlink leaves out anything unreported (`ret = 1` in copy(), and the
\* ignored results of copy(), rmdir() and unlink() it does not need).
SuccessMeansCopied ==
  \A p \in Proc : Alone(p) /\ Never({"mkdir", "short"}) /\ Exited(p) /\ ret[p] = 0 =>
    \A i \in DOMAIN Sources(p) : \A q \in Below(setting, Sources(p)[i]) :
      LET r == ImageOf(p, i, q)
      IN  /\ DirAt(setting, q) => DirAt(Now, r)
          /\ FileAt(setting, q) => FileAt(Now, r) /\ Data(Now, r) = Data(setting, q)

\* No two programs copy to one place, or one to a place in the other's: the O_TRUNC
\* of the later one (line 122) would empty what the earlier one has moved there.
Separate ==
  \A p \in Proc : \A r \in Proc \ {p} :
    cmd[p].args # <<>> /\ cmd[r].args # <<>> => ~IsPrefix(Dest(p), Dest(r))

\* At every moment, so also when mv is killed there, what was in a file that is
\* being moved can be found somewhere, in whole: it is unlinked only behind a
\* finished copy (line 194), whether or not the rename works (line 114), and
\* however several mv of one file interleave that move it to different places.
NothingLost ==
  \A p \in Proc : IsMv(p) /\ Separate /\ Never({"read", "write", "short"}) =>
    \A i \in DOMAIN Sources(p) : \A q \in Below(setting, Sources(p)[i]) :
      IsFile(setting.tree, q) =>
        \E r \in DOMAIN tree : /\ IsFile(tree, r)
                               /\ file[tree[r].ino].data = setting.file[setting.tree[q].ino].data

\* As long as no other process is at work, cp and mv never write into a file they
\* read from, be it reached through another name, a hard link or a symbolic link
\* (the comparison of st_ino in line 90 guards the O_TRUNC of lines 122 and 125);
\* what is read from itself is only the empty file made at the place to which a
\* link to nowhere, which is being copied, points.
NeverOntoItself ==
  \A p \in Proc : Alone(p) => \A k \in DOMAIN stack[p] :
    LET act == stack[p][k]
    IN  act.call \in {"read", "write"} /\ act.in = act.out =>
          act.in \notin DOMAIN setting.file /\ act.call = "read" /\ file[act.in].data = <<>>

\* What mv takes away lies at its sources: no path leads through a link, and
\* DESTINATION is not at or below a source.
Straight(p) == /\ \A q \in DOMAIN setting.tree : ~IsLink(setting.tree, q)
               /\ \A i \in DOMAIN Sources(p) : ~IsPrefix(Sources(p)[i], Dest(p))

\* p has to ask, and whenever it does there is a line to read.
MustAsk(p) == cmd[p].interactive /\ "nothing" \notin setting.answers

\* With -i no file of the beginning that a source goes to is replaced, emptied or
\* written to, under this or any other name, unless the user was asked about it and
\* typed a yes (lines 98-107), not by the rename of mv either.  At the end of the
\* input the code decides by an uninitialised buffer (line 103) and nothing holds.
InteractiveAsks ==
  [][\A p \in Proc :
       /\ MustAsk(p) /\ stack[p] # <<>> /\ Alone(p)
       /\ IsMv(p) => Straight(p)
       => \A q \in DOMAIN setting.tree :
            /\ IsFile(tree, q) /\ tree[q] = setting.tree[q] /\ ~Top(p).consent
            /\ \E i \in DOMAIN Sources(p) : Image(p, i) = q
            => /\ IsFile(tree', q) /\ tree'[q] = tree[q]
               /\ file'[tree[q].ino].data = file[tree[q].ino].data]_vars

\* What may become of the meta data of a source.
Inherited(old) == {old, [old EXCEPT !.mode.setuid = FALSE]}

\* What cp -p copies or mv moves has the owner, the times and the permissions of
\* the source ("preserve timestamps owner and mode", line 30); of its mode only a
\* set-user-ID bit may be gone, which the chown behind the chmod takes away (lines
\* 204-206) and a rename leaves.
MetaKept ==
  \A p \in Proc :
    Alone(p) /\ Exited(p) /\ ret[p] = 0 /\ Preserve(p) /\ Never({"chmod", "chown", "utime"}) =>
    \A i \in DOMAIN Sources(p) : \A q \in Below(setting, Sources(p)[i]) :
      FileAt(setting, q) => MetaAt(Now, ImageOf(p, i, q)) \in Inherited(MetaAt(setting, q))

\* "we unlink only when we are sure the content have been copied" (line 193).
UnlinkOnlyCopied ==
  [][\A p \in Proc : UnlinkSrc(p) /\ tree' # tree =>
       file[Top(p).out].data = file[Top(p).in].data]_vars

===============================================================================
