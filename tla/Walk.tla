--------------------------------- MODULE Walk ---------------------------------
(***************************************************************************)
(* src/ls.c, src/chmod.c, src/chown.c and src/test.c: the commands that    *)
(* look at what is in a tree, or change its attributes, run by several     *)
(* processes at once while other programs make and remove entries.  One    *)
(* action is one system call with the code up to the next call.            *)
(***************************************************************************)
EXTENDS FileSystem, Modes, Grid, Test

CONSTANTS Users,      \* the uid of each user name
          Spelling,   \* the characters of each name
          Leads,      \* the paths that words of a test are
          Settings    \* command lines and what they may meet, see below

(***************************************************************************)
(* A command line.  mode is chmod's operand, and means, when it is not     *)
(* empty, what that is to say: clauses of Modes; owner and group are       *)
(* chown's, and words are those of test and [.                             *)
(***************************************************************************)
LsFlags == {"all", "almost", "no_sort", "list", "reverse", "size", "time", "ctime", "atime", "human"}

Text == [number : Nat \cup {-1}, name : STRING]   \* number = -1: not a number

Command(c) ==
  /\ c.name \in {"ls", "chmod", "chown", "test", "["} /\ c.args \in Seq(Path)
  /\ c.words \in Seq(STRING) /\ c.mode \in Seq(STRING)
  /\ c.flags \subseteq (CASE c.name = "ls" -> LsFlags [] c.name = "chmod" -> {"recursive"}
                     [] c.name = "chown" -> {"recursive", "chgrp"} [] OTHER -> {})
  /\ c.name = "chmod" => /\ InBounds(c.mode)
                         /\ c.means \in Seq(ToSet(c.means)) /\ \A m \in ToSet(c.means) : IsClause(m)
                         /\ c.means # <<>> => c.mode = Written(c.means)
  /\ c.owner \in Text /\ c.group \in Text

(***************************************************************************)
(* A setting: the tree at the start and its attributes, the commands, what *)
(* other programs may make (fresh) and remove (gone), the calls that may   *)
(* be refused, and the width of the terminal, or 0 when there is none.     *)
(* No file has two names, there are finitely many, and what is made again  *)
(* at a path is what was there before.                                     *)
(***************************************************************************)
Attribute == [mode : SUBSET Bits, uid : Nat, gid : Nat, size : Nat, mtime : Nat, ctime : Nat, atime : Nat]

Universe(s) == [q \in DOMAIN s.tree \cup DOMAIN s.fresh |-> IF q \in DOMAIN s.tree THEN s.tree[q] ELSE s.fresh[q]]

Setting(s) ==
  /\ IsTree(s.tree) /\ IsTree(Universe(s)) /\ IsFiniteSet(DOMAIN Universe(s))
  /\ \A q \in DOMAIN s.tree \cap DOMAIN s.fresh : s.fresh[q] = s.tree[q]
  /\ s.gone \subseteq DOMAIN Universe(s) \ {<<>>}
  /\ s.attr \in [DOMAIN Universe(s) -> Attribute]
  /\ \A i \in DOMAIN s.cmds : Command(s.cmds[i])
  /\ s.faults \subseteq {"stat", "set", "opendir", "lstat"} /\ s.screen \in Nat
  /\ \A q, r \in DOMAIN s.attr : IsFile(Universe(s), q) /\ Universe(s)[q] = Universe(s)[r] => q = r

ASSUME WalkAssumption ==
  /\ Spelling \in [Name \cup Dots -> Seq(Nat)] /\ \A n \in DOMAIN Users : Users[n] \in Nat
  /\ \A w \in DOMAIN Leads : Leads[w] \in Path
  /\ \A s \in Settings : Setting(s)

VARIABLES setting, tree,
          attr,    \* attr[q]: the attributes of what is at the path q
          proc     \* proc[p]: what p knows

vars == <<setting, tree, attr, proc>>

Proc == DOMAIN setting.cmds
Cmd(p) == setting.cmds[p]

(***************************************************************************)
(* An activation of ch() or ls(): the call it makes next, the path, what   *)
(* stat told of it (with the bits and the group that are to be set), the   *)
(* directory stream and its directory, and the name ls looks at.           *)
(***************************************************************************)
Call(at, path) == [at |-> at, path |-> path, st_mode |-> {}, group |-> 0, dir |-> path, snap |-> {}, seen |-> {}, name |-> "."]

\* entries and out are of ls: what ls() has read, and for each operand its rows.
Idle == [at |-> "main", operand |-> 0, stack |-> <<>>, ret |-> 0, entries |-> <<>>, out |-> <<>>]

Busy(p, call) == proc[p].stack # <<>> /\ Last(proc[p].stack).at = call
Top(p)        == Last(proc[p].stack)
Refused(call) == call \in setting.faults

Set(p, s)    == proc' = [proc EXCEPT ![p] = s]
GoOn(p, act) == Set(p, [proc[p] EXCEPT !.stack = Append(Front(@), act)])
NoCall       == UNCHANGED <<setting, tree, attr>>

\* ls() returns to ls_main, and ch() to chmod_main, or to a loop over a directory that
\* goes on only if there has been an error (`if (!ret) break;`).
Below(stack, ret) == IF ret = 0 THEN <<>> ELSE Front(stack)
Back(p, ret) == Set(p, [proc[p] EXCEPT !.ret = ret, !.stack = Below(@, ret)])

Return(p) == Back(p, proc[p].ret)
Fail(p)   == Back(p, 1)

\* sprintf(full_path, "%s/%s", path, name), and where that leads.
FullPath(path, n) ==
  CASE n = "."  -> path
    [] n = ".." -> IF path = <<>> THEN path ELSE Front(path)
    [] OTHER    -> Append(path, n)

-------------------------------------------------------------------------------
(***************************************************************************)
(* The main functions.                                                     *)
(***************************************************************************)
Is(p, name)   == Cmd(p).name = name
Operands(p)   == IF Is(p, "ls") /\ Cmd(p).args = <<>> THEN <<<<>>>> ELSE Cmd(p).args
Given(p, f)   == f \in Cmd(p).flags

\* ls_main: without -l, -c and -u sort; opts: -a also is -A.
Flag(p, f) ==
  \/ Given(p, f)
  \/ f = "time" /\ (Given(p, "ctime") \/ Given(p, "atime")) /\ ~Given(p, "list")
  \/ f = "almost" /\ Given(p, "all")

Evaluates(p) == Cmd(p).name \in {"test", "["}

NextOperand(p) ==
  /\ ~Evaluates(p)
  /\ proc[p].at = "main" /\ proc[p].stack = <<>> /\ proc[p].operand < Len(Operands(p))
  /\ LET path == Operands(p)[proc[p].operand + 1]
     IN  Set(p, [proc[p] EXCEPT !.operand = @ + 1,
                                !.stack = <<Call(IF Is(p, "ls") THEN "opendir" ELSE "stat", path)>>,
                                !.out = Append(@, [path |-> path, header |-> Len(Operands(p)) > 1,
                                                   entries |-> <<>>, rows |-> <<>>])])
  /\ NoCall

Exit(p) ==
  /\ ~Evaluates(p)
  /\ proc[p].at = "main" /\ proc[p].stack = <<>> /\ proc[p].operand = Len(Operands(p))
  /\ Set(p, [proc[p] EXCEPT !.at = "exit", !.ret = IF Operands(p) = <<>> THEN 1 ELSE @])
  /\ NoCall

-------------------------------------------------------------------------------
(***************************************************************************)
(* ch() of chmod and of chown.                                             *)
(***************************************************************************)
\* str2uid; it is asked for the group, too.  The result -1 leaves an id as it is.
str2uid(str) ==
  CASE str.number >= 0 -> str.number
    [] str.number < 0 /\ str.name \in DOMAIN Users -> Users[str.name]
    [] OTHER -> -1

\* chmod asks stat(), which follows a link, and chown lstat(), which does not.
Looked(p) == IF Is(p, "chmod") THEN Follow(tree, Top(p).path) ELSE NoFollow(tree, Top(p).path)

StModeOf(q) == attr[q].mode \cup (IF IsDir(tree, q) THEN {S_IFDIR} ELSE {})

StatFails(p) ==
  /\ Busy(p, "stat") /\ (~Exists(tree, Looked(p)) \/ Refused("stat"))
  /\ Fail(p) /\ NoCall

\* chmod then reads its operand (see Modes), and may never come to its end.
StatDone(p) ==
  /\ Busy(p, "stat") /\ Exists(tree, Looked(p))
  /\ IF Is(p, "chmod") /\ Spins(Cmd(p).mode)
     THEN Set(p, [proc[p] EXCEPT !.at = "spins", !.stack = <<>>])
     ELSE GoOn(p, [Top(p) EXCEPT
            !.at = "set",
            !.st_mode = IF Is(p, "chmod") THEN NewMode(Cmd(p).mode, StModeOf(Looked(p))) ELSE StModeOf(Looked(p)),
            !.group = IF Given(p, "chgrp") THEN str2uid(Cmd(p).group) ELSE attr[Looked(p)].gid])
  /\ NoCall

SetFails(p) ==
  /\ Busy(p, "set") /\ (~Exists(tree, Follow(tree, Top(p).path)) \/ Refused("set"))
  /\ Fail(p) /\ NoCall

\* chown(2) takes from what is no directory the set-user-ID bit and, where the group
\* may execute it, the set-group-ID bit.
SetUserId   == <<"u", "s">>
SetGroupId  == <<"g", "s">>
GroupRuns   == <<"g", "x">>
Lost(mode)  == {SetUserId} \cup (IF GroupRuns \in mode THEN {SetGroupId} ELSE {})

\* chmod(2) and chown(2) follow links; a are the attributes of q.
Changed(p, q, a) ==
  LET id(new, old) == IF new = -1 THEN old ELSE new
  IN  IF Is(p, "chmod") THEN [a EXCEPT !.mode = Top(p).st_mode \cap Bits]
      ELSE [a EXCEPT !.mode = IF IsDir(tree, q) THEN @ ELSE @ \ Lost(@),
                     !.uid = id(str2uid(Cmd(p).owner), @), !.gid = id(Top(p).group, @)]

SetDone(p) ==
  LET q == Follow(tree, Top(p).path)
  IN  /\ Busy(p, "set") /\ Exists(tree, q)
      /\ attr' = [attr EXCEPT ![q] = Changed(p, q, @)]
      /\ IF S_IFDIR \in Top(p).st_mode /\ Given(p, "recursive")
         THEN GoOn(p, [Top(p) EXCEPT !.at = "opendir"])
         ELSE Return(p)
      /\ UNCHANGED <<setting, tree>>

-------------------------------------------------------------------------------
(***************************************************************************)
(* test and [ make at most one call.                                       *)
(***************************************************************************)
StatOf(word) ==
  LET q == Follow(tree, Leads[word])
  IN  IF word \in DOMAIN Leads /\ Exists(tree, q) THEN attr[q] @@ [kind |-> tree[q].kind] ELSE NoFile

Evaluate(p) ==
  /\ Evaluates(p) /\ proc[p].at = "main"
  /\ \E refused \in {FALSE, Refused("stat")} :
       Set(p, [proc[p] EXCEPT !.at = "exit",
                              !.ret = test_main(Cmd(p).name, Cmd(p).words, LAMBDA w : IF refused THEN NoFile ELSE StatOf(w))])
  /\ NoCall

-------------------------------------------------------------------------------
(***************************************************************************)
(* The loops over a directory.                                             *)
(***************************************************************************)
OpendirFails(p) ==
  /\ Busy(p, "opendir") /\ (~IsDir(tree, Follow(tree, Top(p).path)) \/ Refused("opendir"))
  /\ Fail(p) /\ NoCall

OpendirDone(p) ==
  LET q == Follow(tree, Top(p).path)
  IN  /\ Busy(p, "opendir") /\ IsDir(tree, q)
      /\ GoOn(p, [Top(p) EXCEPT !.at = "readdir", !.dir = q, !.snap = Entries(tree, q) \cup Dots])
      /\ NoCall

IgnoredOnlyDot == {"."}

\* What the loop of ch() passes over, and what that of ls() does.
Ignored == Dots
Hidden(p, n) ==
  \/ ~Flag(p, "almost") /\ Spelling[n][1] = 46
  \/ ~Flag(p, "all") /\ n \in Dots

Readdir(p) ==
  /\ Busy(p, "readdir")
  /\ \E n \in Readable(tree, Top(p).dir, Top(p)) :
       LET read == [Top(p) EXCEPT !.seen = @ \cup {n}]
       IN  CASE (IF Is(p, "ls") THEN Hidden(p, n) ELSE n \in Ignored) -> GoOn(p, read)
             [] Is(p, "ls") /\ ~Hidden(p, n) -> GoOn(p, [read EXCEPT !.at = "lstat", !.name = n])
             [] OTHER -> Set(p, [proc[p] EXCEPT !.stack = Append(Append(Front(@), read),
                                                                 Call("stat", FullPath(Top(p).path, n)))])
  /\ NoCall

AtEnd(p) == Busy(p, "readdir") /\ Pending(tree, Top(p).dir, Top(p)) = {}

\* ch() does not look whether readdir() returned NULL.
ReaddirEndOfCh(p) ==
  /\ ~Is(p, "ls") /\ AtEnd(p)
  /\ Set(p, [proc[p] EXCEPT !.at = "killed", !.stack = <<>>])
  /\ NoCall

-------------------------------------------------------------------------------
(***************************************************************************)
(* ls().                                                                   *)
(***************************************************************************)
\* mkent: what lstat() tells, or nothing.
Unknown(n)  == [name |-> n, unknow |-> TRUE, kind |-> "?", mode |-> {}, uid |-> -1, size |-> 0, time |-> 0]
Known(p, n, q) ==
  [name |-> n, unknow |-> FALSE, kind |-> tree[q].kind, mode |-> attr[q].mode, uid |-> attr[q].uid, size |-> attr[q].size,
   time |-> CASE Flag(p, "ctime") -> attr[q].ctime
              [] ~Flag(p, "ctime") /\ Flag(p, "atime") -> attr[q].atime
              [] OTHER -> attr[q].mtime]

mkent(p) ==
  LET n == Top(p).name
      q == NoFollow(tree, FullPath(Top(p).path, n))
      listed(e) == Set(p, [proc[p] EXCEPT !.entries = Append(@, e),
                                          !.stack = <<[Top(p) EXCEPT !.at = "readdir"]>>])
  IN  /\ Busy(p, "lstat")
      /\ \/ Exists(tree, q) /\ listed(Known(p, n, q))
         \/ (~Exists(tree, q) \/ Refused("lstat")) /\ listed(Unknown(n))
      /\ NoCall

\* strcmp.
Precedes(a, b) ==
  \E k \in 1..Len(b) : k <= Len(a) + 1 /\ SubSeq(a, 1, k - 1) = SubSeq(b, 1, k - 1) /\ (k > Len(a) \/ a[k] < b[k])

Before(p, a, b) ==
  CASE Flag(p, "size") -> a.size > b.size
    [] ~Flag(p, "size") /\ Flag(p, "time") -> a.time > b.time
    [] OTHER -> Precedes(Spelling[a.name], Spelling[b.name])

\* Whether e1 is to stand in front of e2.
EntSortForgetsReverse(p, e1, e2) == Before(p, e1, e2)
ent_sort(p, e1, e2) == IF Flag(p, "reverse") THEN Before(p, e2, e1) ELSE Before(p, e1, e2)

\* qsort leaves entries that compare equal in any order.
Sortings(p, entries) ==
  IF Flag(p, "no_sort") THEN {entries}
  ELSE {s \in SetToSeqs(ToSet(entries)) : \A i, j \in DOMAIN s : i < j => ~ent_sort(p, s[j], s[i])}

\* print_entry, with -l: ten characters for the type and the mode, the owner, the size.
ModeText(e) ==
  LET letter(b) ==
        CASE b[2] = "x" /\ <<b[1], "s">> \in e.mode -> IF b \in e.mode THEN "s" ELSE "S"
          [] b \in e.mode /\ (b[2] # "x" \/ <<b[1], "s">> \notin e.mode) -> b[2]
          [] OTHER -> "-"
      order == <<<<"u", "r">>, <<"u", "w">>, <<"u", "x">>, <<"g", "r">>, <<"g", "w">>, <<"g", "x">>,
                 <<"o", "r">>, <<"o", "w">>, <<"o", "x">>>>
  IN  [i \in 1..10 |-> CASE e.unknow -> "?"
                         [] ~e.unknow /\ i = 1 -> e.kind
                         [] OTHER -> letter(order[i - 1])]

\* The size: as it is, or as often divided by 1024 as it can be, with a tenth.
SizeText(p, size) ==
  LET shown[n \in Nat, u \in 0..4, frac \in Nat] ==
        IF u < 4 /\ n >= 1024 THEN shown[n \div 1024, u + 1, ((n * 10 + 512) \div 1024) % 10]
        ELSE [whole |-> n, frac |-> frac, unit |-> u]
  IN  IF Flag(p, "human") THEN shown[size, 0, 0] ELSE [whole |-> size, frac |-> 0, unit |-> 0]

Cells(p, e) ==
  IF Flag(p, "list") THEN <<ModeText(e), e.uid, SizeText(p, e.size), e.name>> ELSE <<e.name>>

\* print_entries: on a terminal as many columns as there is room for.
Rows(p, entries) ==
  CASE Flag(p, "list") -> [i \in DOMAIN entries |-> Cells(p, entries[i])]
    [] ~Flag(p, "list") /\ setting.screen > 0 ->
         LET rows == grid_print_auto([i \in DOMAIN entries |-> Len(Spelling[entries[i].name])], setting.screen)
         IN  [r \in DOMAIN rows |-> [i \in DOMAIN rows[r] |-> entries[rows[r][i]].name]]
    [] OTHER -> [i \in DOMAIN entries |-> <<entries[i].name>>]

ReaddirEndOfLs(p) ==
  /\ Is(p, "ls") /\ AtEnd(p)
  /\ \E entries \in Sortings(p, proc[p].entries) :
       Set(p, [proc[p] EXCEPT !.stack = <<>>, !.entries = <<>>,
                              !.out = Append(Front(@), [Last(@) EXCEPT !.entries = entries, !.rows = Rows(p, entries)])])
  /\ NoCall

-------------------------------------------------------------------------------
(***************************************************************************)
(* Other programs.                                                         *)
(***************************************************************************)
Appear ==
  /\ \E q \in DOMAIN setting.fresh :
       /\ CanMake(tree, q)
       /\ tree' = With(tree, q, setting.fresh[q])
       /\ attr' = [attr EXCEPT ![q] = setting.attr[q]]
  /\ UNCHANGED <<setting, proc>>

Vanish ==
  /\ \E q \in setting.gone : (CanUnlink(tree, q) \/ CanRmdir(tree, q)) /\ tree' = Without(tree, q)
  /\ UNCHANGED <<setting, attr, proc>>

-------------------------------------------------------------------------------
Init ==
  /\ setting \in Settings
  /\ tree = setting.tree /\ attr = setting.attr
  /\ proc = [p \in DOMAIN setting.cmds |-> Idle]

Step(p) ==
  \/ NextOperand(p) \/ Exit(p) \/ Evaluate(p)
  \/ StatFails(p) \/ StatDone(p) \/ SetFails(p) \/ SetDone(p)
  \/ OpendirFails(p) \/ OpendirDone(p) \/ Readdir(p) \/ ReaddirEndOfCh(p) \/ mkent(p) \/ ReaddirEndOfLs(p)

Ended(p) == proc[p].at # "main"
Done == (\A p \in Proc : Ended(p)) /\ UNCHANGED vars

Next == (\E p \in Proc : Step(p)) \/ Appear \/ Vanish \/ Done

Spec == Init /\ [][Next]_vars

-------------------------------------------------------------------------------
(***************************************************************************)
(* chmod and chown.                                                        *)
(***************************************************************************)
World == Universe(setting)

\* What the command of p may come to, wherever entries come and go: below a directory
\* everything, for chmod also behind the links, for chown what the links lead to.
Under(S) == {q \in DOMAIN World : \E d \in S : IsPrefix(d, q)}
Reach(p) ==
  LET args    == ToSet(Cmd(p).args)
      ends(S) == {Follow(World, q) : q \in S}
      more(S) == Under(S) \cup ends(Under(S))
      deep[k \in Nat] == IF k = 0 THEN ends(args) ELSE more(deep[k - 1])
  IN  CASE ~Given(p, "recursive") -> ends(args)
        [] Given(p, "recursive") /\ Is(p, "chmod") -> deep[1 + Cardinality({q \in DOMAIN World : IsLink(World, q)})]
        [] OTHER -> ends(args) \cup ends(Under({NoFollow(World, a) : a \in args}))

Reaching(name, q) == {p \in Proc : Is(p, name) /\ q \in Reach(p)}
Links(q)          == {l \in DOMAIN World : IsLink(World, l) /\ World[l].to = q}

\* Attributes are changed only of what the operands lead to, and only as they say: a
\* bit comes or goes only when a chmod that reaches the file has a clause for it (or
\* goes because a chown that reaches the file takes set-ID bits away), and an owner or
\* a group only to one that was given (or, without a group, back to the one that chown
\* found, at a link that leads there, too), however many of them run at once, each
\* between the stat and the chmod of another.
OnlyReached ==
  \A q \in {q \in DOMAIN World : attr[q] # setting.attr[q]} :
    LET old == setting.attr[q]
        new == attr[q]
        clauses == UNION {ToSet(Cmd(p).means) : p \in Reaching("chmod", q)}
        free    == \E p \in Reaching("chmod", q) : Cmd(p).means = <<>>
        sets(b) == free \/ \E c \in clauses : c.op # "-" /\ b \in c.bits
        lost(b) == /\ Reaching("chown", q) # {} /\ ~IsDir(World, q)
                   /\ \/ b = SetUserId
                      \/ b = SetGroupId /\ (GroupRuns \in old.mode \/ sets(GroupRuns))
        owners  == {str2uid(Cmd(p).owner) : p \in Reaching("chown", q)}
        groups  == {str2uid(Cmd(p).group) : p \in {r \in Reaching("chown", q) : Given(r, "chgrp")}}
    IN  /\ \A b \in new.mode \ old.mode : sets(b)
        /\ \A b \in old.mode \ new.mode : free \/ lost(b) \/ \E c \in clauses : (c.op = "-" /\ b \in c.bits) \/ (c.op = "=" /\ b \notin c.bits)
        /\ new.uid \in owners \cup {old.uid}
        /\ new.gid \in groups \cup {old.gid} \cup
             (IF Reaching("chown", q) = {} THEN {} ELSE {setting.attr[l].gid : l \in Links(q)})
        /\ [new EXCEPT !.mode = {}, !.uid = 0, !.gid = 0] = [old EXCEPT !.mode = {}, !.uid = 0, !.gid = 0]

Alone(p) == Len(setting.cmds) = 1 /\ DOMAIN setting.fresh = {} /\ setting.gone = {} /\ setting.faults = {}

\* The mode, the user and the group are written so that they have a meaning (a group
\* is looked up among the users, so it has to be a number), and no link has another
\* group than its file.
Sensible(p) ==
  /\ Is(p, "chmod") => Cmd(p).means # <<>>
  /\ Is(p, "chown") => /\ Cmd(p).owner.number >= 0 \/ Cmd(p).owner.name \in DOMAIN Users
                       /\ Given(p, "chgrp") => Cmd(p).group.number >= 0
                       /\ \A q \in DOMAIN World : \A l \in Links(q) : setting.attr[l].gid = setting.attr[q].gid

Wanted(p, q) ==
  LET a == setting.attr[q]
  IN  IF Is(p, "chmod") THEN [a EXCEPT !.mode = Meant(Cmd(p).means, @)]
      ELSE [a EXCEPT !.mode = {b \in @ : IsDir(tree, q) \/ (b # SetUserId /\ (b = SetGroupId => GroupRuns \notin a.mode))},
                     !.uid = str2uid(Cmd(p).owner), !.gid = IF Given(p, "chgrp") THEN Cmd(p).group.number ELSE @]

ChangesAreExact ==
  \A p \in Proc : Alone(p) /\ Cmd(p).name \in {"chmod", "chown"} /\ ~Given(p, "recursive") /\ Sensible(p) /\ proc[p].at = "exit" =>
    LET named == {Follow(tree, a) : a \in ToSet(Cmd(p).args)}
    IN  /\ proc[p].ret = 0 <=> named # {} /\ named \subseteq DOMAIN tree
        /\ \A q \in DOMAIN tree : attr[q] = IF q \in named THEN Wanted(p, q) ELSE setting.attr[q]

\* The words that are the expression; [ without ] has none.
Expression(p) ==
  CASE Is(p, "test") -> Cmd(p).words
    [] Is(p, "[") /\ Cmd(p).words # <<>> /\ Last(Cmd(p).words) = "]" -> Front(Cmd(p).words)
    [] OTHER -> <<>>

KindOf(word) ==
  LET q == Follow(setting.tree, Leads[word])
  IN  IF word \in DOMAIN Leads /\ Exists(setting.tree, q) THEN setting.tree[q].kind ELSE "none"

\* Words of which the reference of Test knows what they say.  A number like "-2" is
\* one only behind an operator: in front of one the code takes it for an operator
\* itself (test.c:51), so that `test -2 -lt 1` looks for a file "-lt" and returns 1.
Clear(words) ==
  \A i \in DOMAIN words :
    LET w == words[i]
    IN  /\ w # "-ne"
        /\ w \in DOMAIN Letter => \/ Letter[w] \in {"z", "n"} \cup DOMAIN FilesSay
                                  \/ i > 1 /\ words[i - 1] \in Comparing

TestsAreExact ==
  \A p \in Proc : Alone(p) /\ Evaluates(p) /\ Clear(Cmd(p).words) /\ proc[p].at = "exit" =>
    LET words == Expression(p)
    IN  proc[p].ret = 0 <=>
          \E n \in 0..Len(words), k \in {2, 3} :
            /\ n + k + n <= Len(words)
            /\ LET e == SubSeq(words, n + 1, n + k)
               IN  IsPrefix(Around(n, e), words) /\ IsTest(e) /\ Holds(e, KindOf)

\* Without -R and when nobody interferes, chmod and chown do to each file that an
\* operand leads to exactly what their first operand means, and nothing to any other;
\* the status is 0 when every operand leads to a file.  That of test is 0 when the
\* words begin with an expression, in all its parentheses, that holds.
LoneIsExact == ChangesAreExact /\ TestsAreExact

-------------------------------------------------------------------------------
(***************************************************************************)
(* ls.                                                                     *)
(***************************************************************************)
\* What neither comes nor goes.
Stays(q) == q \in DOMAIN setting.tree \ setting.gone

\* A listing that is there: that of a directory whose path stays, when p is done with it.
Listed(p, k) ==
  /\ Is(p, "ls") /\ k \in DOMAIN proc[p].out /\ (k < Len(proc[p].out) \/ proc[p].stack = <<>>)
  /\ setting.gone \cap {l \in DOMAIN World : IsLink(World, l) \/ IsDir(World, l)} = {}
  /\ IsDir(setting.tree, Follow(setting.tree, proc[p].out[k].path)) /\ "opendir" \notin setting.faults

ShownBy(p, n) ==
  CASE n \in Dots -> Given(p, "all")
    [] n \notin Dots /\ Spelling[n][1] = 46 -> Given(p, "all") \/ Given(p, "almost")
    [] OTHER -> TRUE

\* That m may stand above n in a listing of the directory d.
InOrder(p, d, m, n) ==
  LET a == setting.attr[FullPath(d, m)]
      b == setting.attr[FullPath(d, n)]
      down(x, y) == IF Given(p, "reverse") THEN x <= y ELSE x >= y
  IN  CASE Given(p, "no_sort") -> TRUE
        [] ~Given(p, "no_sort") /\ Given(p, "size") -> down(a.size, b.size)
        [] ~Given(p, "no_sort") /\ ~Given(p, "size") /\ Flag(p, "time") ->
             IF Given(p, "ctime") THEN down(a.ctime, b.ctime)
             ELSE IF Given(p, "atime") THEN down(a.atime, b.atime) ELSE down(a.mtime, b.mtime)
        [] OTHER -> IF Given(p, "reverse") THEN ~Precedes(Spelling[m], Spelling[n]) ELSE ~Precedes(Spelling[n], Spelling[m])

\* How wide the names are in columns, from left to right and then down, a blank behind
\* each column.
WidthIn(columns, names) ==
  LET wide(i) == 1 + Widest({Len(Spelling[names[j]]) : j \in {j \in DOMAIN names : j % columns = i % columns}})
  IN  SumOf([i \in 1..columns |-> wide(i)])

\* Full rows but for the last, no line wider than the terminal unless there is only
\* one column, and with one column more there would be a column without a name, or
\* lines too wide.  (With two more they might fit again: the code does not look.)
Fits(rows, names) ==
  LET wide(i) == 1 + Widest({Len(Spelling[rows[r][i]]) : r \in {r \in DOMAIN rows : i \in DOMAIN rows[r]}})
  IN  \A r \in DOMAIN rows :
        /\ Len(rows[r]) = Len(rows[1]) \/ r = Len(rows)
        /\ Len(rows[r]) > 1 =>
             SumOf([i \in 1..(Len(rows[r]) - 1) |-> wide(i)]) + Len(Spelling[Last(rows[r])]) <= setting.screen
        /\ Len(rows[1]) = Len(names) \/ WidthIn(Len(rows[1]) + 1, names) > setting.screen

\* The size of a file, with -h in a unit and to a tenth of it; but the tenth that is
\* rounded up from nine is shown as 0, with the unit it belongs to not counted up
\* (ls.c:99): 1999 bytes are "1.0K".
Tells(t, n) ==
  LET unit   == 1024^t.unit
      tenths == ((10 * n) \div unit) - 10 * t.whole
  IN  /\ t.whole * unit <= n /\ n < (t.whole + 1) * unit
      /\ t.frac \in {tenths, (tenths + 1) % 10}

\* A listing has every entry that stays while ls runs, once, known, and in the order
\* asked for, whatever comes and goes around it; no hidden entry that was not asked
\* for, and none that never was; and the rows hold the entries from left to right and
\* from top to bottom, with -l each with its size, and on a terminal in rows to which no
\* column can be added.
ListsWhatStays ==
  \A p \in Proc : \A k \in DOMAIN proc[p].out : Listed(p, k) =>
    LET d      == Follow(setting.tree, proc[p].out[k].path)
        listed == proc[p].out[k].entries
        names  == [i \in DOMAIN listed |-> listed[i].name]
        rows   == proc[p].out[k].rows
        stay   == {n \in Name \cup Dots : ShownBy(p, n) /\ Stays(FullPath(d, n))}
        size(i) == setting.attr[FullPath(d, names[i])].size
    IN  /\ IsInjective(names)
        /\ stay \subseteq ToSet(names)
        /\ \A n \in ToSet(names) : ShownBy(p, n) /\ FullPath(d, n) \in DOMAIN World
        /\ \A i, j \in DOMAIN names : i < j /\ {names[i], names[j]} \subseteq stay /\ "lstat" \notin setting.faults =>
             InOrder(p, d, names[i], names[j])
        /\ "lstat" \notin setting.faults => \A i \in DOMAIN listed : names[i] \in stay => ~listed[i].unknow
        /\ IF Given(p, "list") THEN /\ names = [i \in DOMAIN rows |-> rows[i][4]]
                                    /\ \A i \in DOMAIN rows : ~listed[i].unknow => Tells(rows[i][3], size(i))
           ELSE names = FlattenSeq(rows) /\ (setting.screen > 0 => Fits(rows, names))
===============================================================================
