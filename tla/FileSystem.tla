------------------------------ MODULE FileSystem ------------------------------
(***************************************************************************)
(* The file tree the utilities work on, seen through the system calls they *)
(* make.  Nothing here is code of the repository: every operator is the    *)
(* part of POSIX that src/rm.c, src/cp.c and their siblings rely on.       *)
(*                                                                         *)
(* A tree is a function from the paths that exist to nodes.  A path is the *)
(* sequence of names from the working directory, which is <<>> and always  *)
(* exists.  A regular file names an inode, so that two paths can be hard   *)
(* links to one file; a symbolic link holds the path it points to.         *)
(***************************************************************************)
EXTENDS Naturals, FiniteSets, SequencesExt

CONSTANT Name      \* the names an entry of a directory can have

ASSUME NameAssumption == {".", ".."} \cap Name = {}

Path == Seq(Name)

Dir == [kind |-> "dir"]
File(i) == [kind |-> "file", ino |-> i]
Link(p) == [kind |-> "link", to |-> p]

(***************************************************************************)
(* What lstat(2) tells of a path whose directories hold no links.          *)
(***************************************************************************)
Exists(t, p) == p \in DOMAIN t
IsDir(t, p)  == Exists(t, p) /\ t[p].kind = "dir"
IsLink(t, p) == Exists(t, p) /\ t[p].kind = "link"
IsFile(t, p) == Exists(t, p) /\ t[p].kind = "file"

\* ENOTDIR: a directory of the path is something else.
ThroughFile(t, p) ==
  \E i \in 1..(Len(p) - 1) : LET q == SubSeq(p, 1, i) IN Exists(t, q) /\ ~IsDir(t, q)

\* A directory of the path is a link.
ThroughLink(t, p) == \E i \in 1..(Len(p) - 1) : IsLink(t, SubSeq(p, 1, i))

Entries(t, p) == {n \in Name : Exists(t, Append(p, n))}

\* A tree is a function, every entry lies in a directory, and no link points to
\* another link.
IsTree(t) ==
  /\ t = [p \in DOMAIN t |-> t[p]]
  /\ IsDir(t, <<>>)
  /\ \A p \in DOMAIN t : /\ p \in Path
                         /\ p # <<>> => IsDir(t, Front(p))
                         /\ IsLink(t, p) => t[p].to \in Path /\ ~IsLink(t, t[p].to)

(***************************************************************************)
(* The effects of the calls that make, remove and move entries.            *)
(***************************************************************************)
With(t, p, node) == [q \in DOMAIN t \cup {p} |-> IF q = p THEN node ELSE t[q]]
Without(t, p)    == [q \in DOMAIN t \ {p} |-> t[q]]

CanMake(t, p)   == ~Exists(t, p) /\ p # <<>> /\ IsDir(t, Front(p))
CanUnlink(t, p) == Exists(t, p) /\ ~IsDir(t, p)
CanRmdir(t, p)  == IsDir(t, p) /\ Entries(t, p) = {} /\ p # <<>>

CanRename(t, s, d) ==
  /\ Exists(t, s) /\ d # <<>> /\ IsDir(t, Front(d))
  /\ ~IsStrictPrefix(s, d)
  /\ \/ ~Exists(t, d)
     \/ s = d
     \/ ~IsDir(t, s) /\ ~IsDir(t, d)
     \/ IsDir(t, s) /\ CanRmdir(t, d)

Renamed(t, s, d) ==
  LET below(p)    == {q \in DOMAIN t : IsPrefix(p, q)}
      swap(q,p,r) == r \o SubSeq(q, Len(p) + 1, Len(q))
      rest        == DOMAIN t \ (below(s) \cup {d})
  IN  [q \in rest \cup {swap(q, s, d) : q \in below(s)} |->
         IF IsPrefix(d, q) THEN t[swap(q, d, s)] ELSE t[q]]

(***************************************************************************)
(* A directory stream d on the directory p: d.snap are the entries it had  *)
(* when it was opened, d.seen those readdir(3) has returned.  readdir      *)
(* returns every entry that was there at first and still is; of an entry   *)
(* made or removed since, POSIX lets it go either way.  No entry is        *)
(* returned twice.                                                         *)
(***************************************************************************)
Dots == {".", ".."}

Readable(t, p, d) == (d.snap \cup Entries(t, p)) \ d.seen
Pending(t, p, d)  == Readable(t, p, d) \cap d.snap \cap (Entries(t, p) \cup Dots)

(***************************************************************************)
(* Path resolution: links in the directories of a path are always          *)
(* followed, a link in its last place by stat and open but not by lstat,   *)
(* unlink, rename, mkdir and rmdir.                                        *)
(***************************************************************************)
\* From the directory d on by the name n.
Onward(t, d, n) == LET q == Append(d, n) IN IF IsLink(t, q) THEN t[q].to ELSE q

\* Where the first names of p lead.
Reached(t, p) ==
  LET end[i \in 0..Len(p)] == IF i = 0 THEN <<>> ELSE Onward(t, end[i - 1], p[i])
  IN  end

Follow(t, p) == Reached(t, p)[Len(p)]

NoFollow(t, p) == IF p = <<>> THEN p ELSE Append(Follow(t, Front(p)), Last(p))

\* ENOTDIR, with links: what a directory of the path leads to is something else.
Obstructed(t, p) ==
  \E i \in 1..(Len(p) - 1) : LET q == Reached(t, p)[i] IN Exists(t, q) /\ ~IsDir(t, q)
===============================================================================
