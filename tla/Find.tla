--------------------------------- MODULE Find ---------------------------------
(***************************************************************************)
(* src/find.c: `find [PATH...] [EXPR...]`.  After the parse of FindExpr,   *)
(* do_find() walks over the tree below each operand and evaluates the      *)
(* expression for every entry, while other programs make and remove some   *)
(* entries and calls may be refused.  One action is one system call with   *)
(* the code that follows it.                                               *)
(***************************************************************************)
EXTENDS FindExpr, FileSystem

CONSTANTS Leads,     \* Leads[w]: where the word w leads as an operand
          Uid,       \* Uid[w]: what str2uid makes of w, if w is a number or a user
          Users,     \* the uids that have a user
          Settings   \* what find may meet, see below

NoUid == -1   \* (uid_t)-1

(***************************************************************************)
(* A setting: the command line, the tree and the owners of its entries,    *)
(* what other programs may make and remove, and the calls that may be      *)
(* refused.  Words of FindExpr and names of FileSystem are both spelled by *)
(* Spell.                                                                  *)
(***************************************************************************)
Setting(s) ==
  /\ s.argv \in Seq(Word)
  /\ IsTree(s.tree)
  /\ s.fresh \subseteq Path
  /\ DOMAIN s.tree \cup s.fresh \subseteq DOMAIN s.owner
  /\ s.faults \subseteq {"lstat", "opendir"}

\* A name has letters, and no "/", which would make two of it.
ASSUME FindAssumption ==
  /\ Name \cup {"."} \subseteq Word /\ "/" \in Char
  /\ \A n \in Name : Spell[n] # <<>> /\ \A i \in DOMAIN Spell[n] : Spell[n][i] # "/"
  /\ Leads \in [Word -> Path] /\ Leads["."] = <<>>
  /\ DOMAIN Uid \subseteq Word
  /\ \A s \in Settings : Setting(s)

VARIABLES setting,   \* the setting of this run
          tree,      \* the file tree
          operand,   \* how many operands do_find has been called with
          stack,     \* the activations of do_find, the innermost last
          out,       \* out[t]: how often puts() has written the line t
          ret        \* the static int ret, or what find_main returns

walk == <<setting, tree, operand, stack, out, ret>>
vars == <<argv, parser, walk>>

Activation == [at : {"lstat", "opendir", "readdir"}, path : Path, text : Seq(Char),
               snap : SUBSET (Name \cup Dots), seen : SUBSET (Name \cup Dots)]

Call(path, text) == [at |-> "lstat", path |-> path, text |-> text, snap |-> {}, seen |-> {}]

\* The type invariant: the parser is in order (see there), and the tree a tree.
TypeOK ==
  /\ Setting(setting) /\ argv = setting.argv
  /\ ParserOK
  /\ IsTree(tree)
  /\ operand \in Nat
  /\ stack \in Seq(Activation)
  /\ DOMAIN out \subseteq Seq(Char)
  /\ ret \in {0, 1}

Init ==
  /\ setting \in Settings
  /\ argv = setting.argv
  /\ ParseInit
  /\ tree = setting.tree
  /\ operand = 0 /\ stack = <<>>
  /\ out = <<>> /\ ret = 0

-------------------------------------------------------------------------------
(***************************************************************************)
(* check_node.                                                             *)
(***************************************************************************)

\* basename() of the C library.
Basename(text) ==
  LET solid == {i \in DOMAIN text : text[i] # "/"}
      last  == CHOOSE i \in solid : \A j \in solid : j <= i
      first == CHOOSE i \in 1..last : /\ \A j \in i..last : text[j] # "/"
                                      /\ i = 1 \/ text[i - 1] = "/"
  IN  CASE text = <<>> -> <<".">>
        [] solid = {}  -> <<"/">>
        [] OTHER       -> SubSeq(text, first, last)

TypeLetter(node) == CASE node.kind = "dir" -> "d" [] node.kind = "file" -> "f" [] OTHER -> "l"

\* st_nlink: a directory has an entry, ".", and ".." in each directory below.
LinkCount(path) ==
  CASE IsDir(tree, path)  -> 2 + Cardinality({n \in Entries(tree, path) : IsDir(tree, Append(path, n))})
    [] IsFile(tree, path) -> Cardinality({q \in DOMAIN tree : tree[q] = tree[path]})
    [] OTHER              -> 1

UidOf(w) == IF w \in DOMAIN Uid THEN Uid[w] ELSE NoUid

Tests == {"-name", "-path", "-nouser", "-links", "-type", "-user"}

Test(node, path, text) ==
  CASE node.type = "-name"   -> Matches(Spell[node.arg], Basename(text))
    [] node.type = "-path"   -> Matches(Spell[node.arg], text)
    [] node.type = "-nouser" -> setting.owner[path] \notin Users
    [] node.type = "-links"  -> LinkCount(path) = Numeral[node.arg]
    [] node.type = "-type"   -> TypeLetter(tree[path]) = node.arg
    [] node.type = "-user"   -> setting.owner[path] = UidOf(node.arg)

\* What check_node() returns for a node, how often it prints the path, and
\* whether it comes to a node that is not implemented.
CheckNode(root, path, text) ==
  LET Result(truth, puts, todo) == [truth |-> truth, puts |-> puts, todo |-> todo]
      Then(a, b) == Result(b.truth, a.puts + b.puts, a.todo \/ b.todo)
      check[n \in DOMAIN nodes] ==
        CASE nodes[n].type = "not" ->
               LET a == check[nodes[n].left] IN [a EXCEPT !.truth = ~a.truth]
          [] nodes[n].type = "and" ->
               LET a == check[nodes[n].left]
               IN  IF a.truth THEN Then(a, check[nodes[n].right]) ELSE a
          [] nodes[n].type = "or" ->
               LET a == check[nodes[n].left]
               IN  IF a.truth THEN a ELSE Then(a, check[nodes[n].right])
          [] nodes[n].type = "-print" -> Result(TRUE, 1, FALSE)
          [] nodes[n].type \in Tests  -> Result(Test(nodes[n], path, text), 0, FALSE)
          [] OTHER                    -> Result(FALSE, 0, TRUE)
  IN  check[root]

(***************************************************************************)
(* do_find.                                                                *)
(***************************************************************************)
Operands == IF path_count = 0 THEN <<".">> ELSE SubSeq(argv, 1, path_count)

Top == Last(stack)
Copies(t) == IF t \in DOMAIN out THEN out[t] ELSE 0
Busy(call) == mode = "parsed" /\ stack # <<>> /\ Top.at = call
Refused(call) == call \in setting.faults

NextOperand ==
  /\ mode = "parsed" /\ stack = <<>> /\ operand < Len(Operands)
  /\ operand' = operand + 1
  /\ stack' = <<Call(Leads[Operands[operand + 1]], Spell[Operands[operand + 1]])>>
  /\ UNCHANGED <<argv, parser, setting, tree, out, ret>>

LstatFails ==
  /\ Busy("lstat") /\ (~Exists(tree, Top.path) \/ Refused("lstat"))
  /\ stack' = Front(stack) /\ ret' = 1
  /\ UNCHANGED <<argv, parser, setting, tree, operand, out>>

\* lstat() and then check_node().
LstatDone ==
  /\ Busy("lstat") /\ Exists(tree, Top.path)
  /\ LET result == CheckNode(value, Top.path, Top.text)
     IN  /\ out' = IF result.puts = 0 THEN out ELSE [t \in DOMAIN out \cup {Top.text} |->
                           Copies(t) + IF t = Top.text THEN result.puts ELSE 0]
         /\ ret' = IF result.todo THEN 1 ELSE ret
  /\ stack' = IF IsDir(tree, Top.path) THEN Append(Front(stack), [Top EXCEPT !.at = "opendir"])
                                       ELSE Front(stack)
  /\ UNCHANGED <<argv, parser, setting, tree, operand>>

OpendirDone ==
  /\ Busy("opendir") /\ IsDir(tree, Top.path)
  /\ stack' = Append(Front(stack), [Top EXCEPT !.at = "readdir",
                                               !.snap = Entries(tree, Top.path) \cup Dots])
  /\ UNCHANGED <<argv, parser, setting, tree, operand, out, ret>>

OpendirFailureEndsOperand ==
  /\ Busy("opendir") /\ (~IsDir(tree, Top.path) \/ Refused("opendir"))
  /\ stack' = <<>>
  /\ UNCHANGED <<argv, parser, setting, tree, operand, out, ret>>

\* Nothing is said of it, and ret stays.
OpendirFails ==
  /\ Busy("opendir") /\ (~IsDir(tree, Top.path) \/ Refused("opendir"))
  /\ stack' = Front(stack)
  /\ UNCHANGED <<argv, parser, setting, tree, operand, out, ret>>

FullPathTwoSlashes(text, n) == text \o <<"/">> \o Spell[n]

\* full_path: no second "/" after one that is there.
FullPath(text, n) ==
  (IF text # <<>> /\ Last(text) = "/" THEN text ELSE Append(text, "/")) \o Spell[n]

ReaddirEntry ==
  /\ Busy("readdir")
  /\ \E n \in Readable(tree, Top.path, Top) :
       LET read == Append(Front(stack), [Top EXCEPT !.seen = @ \cup {n}])
       IN  stack' = IF n \in Dots THEN read
                    ELSE Append(read, Call(Append(Top.path, n), FullPath(Top.text, n)))
  /\ UNCHANGED <<argv, parser, setting, tree, operand, out, ret>>

ReaddirEnd ==
  /\ Busy("readdir") /\ Pending(tree, Top.path, Top) = {}
  /\ stack' = Front(stack)
  /\ UNCHANGED <<argv, parser, setting, tree, operand, out, ret>>

(***************************************************************************)
(* find_main.                                                              *)
(***************************************************************************)
WalkEnds ==
  /\ mode = "parsed" /\ stack = <<>> /\ operand = Len(Operands)
  /\ live' = live \ Subtree(value)
  /\ mode' = "exited"
  /\ UNCHANGED <<argv, ptr, path_count, nodes, frames, value, has_action, walk>>

GiveUp ==
  /\ mode = "failed"
  /\ mode' = "exited" /\ ret' = 1
  /\ UNCHANGED <<argv, ptr, path_count, nodes, live, frames, value, has_action,
                 setting, tree, operand, stack, out>>

Parse == ParseStep /\ UNCHANGED walk

Step ==
  \/ Parse
  \/ NextOperand \/ LstatFails \/ LstatDone \/ OpendirDone \/ OpendirFails
  \/ ReaddirEntry \/ ReaddirEnd \/ WalkEnds \/ GiveUp

\* Another program makes an entry, or takes one away.
Create(q) ==
  /\ CanMake(tree, q)
  /\ \E node \in {Dir, File(0)} : tree' = With(tree, q, node)
  /\ UNCHANGED <<argv, parser, setting, operand, stack, out, ret>>

Vanish(q) ==
  /\ CanUnlink(tree, q) \/ CanRmdir(tree, q)
  /\ tree' = Without(tree, q)
  /\ UNCHANGED <<argv, parser, setting, operand, stack, out, ret>>

Done == mode = "exited" /\ UNCHANGED vars

Next == Step \/ (\E q \in setting.fresh : Create(q) \/ Vanish(q)) \/ Done

\* The kernel runs find again and again; it owes the other programs nothing.
Spec == Init /\ [][Next]_vars /\ WF_vars(Step)

-------------------------------------------------------------------------------
(***************************************************************************)
(* What find promises.                                                     *)
(***************************************************************************)

\* An expression as a formula, without order or effects: whether it holds when the
\* tests in it come out so.
Formula(ns, outcome, root) ==
  LET holds[n \in DOMAIN ns] ==
        CASE ns[n].type = "not" -> ~holds[ns[n].left]
          [] ns[n].type = "and" -> holds[ns[n].left] /\ holds[ns[n].right]
          [] ns[n].type = "or"  -> holds[ns[n].left] \/ holds[ns[n].right]
          [] ns[n].type \in Tests -> outcome[n]
          [] OTHER -> ns[n].type = "-print"
  IN  holds[root]

TestNodes == {n \in DOMAIN nodes : nodes[n].type \in Tests}
Outcome(path, text) == [n \in TestNodes |-> Test(nodes[n], path, text)]

Holds(root, path, text) == Formula(nodes, Outcome(path, text), root)

\* No other program touches path or what it lies in.
Stays(path) == path \in DOMAIN setting.tree /\ \A q \in setting.fresh : ~IsPrefix(q, path)

Below(i) == {p \in DOMAIN setting.tree \cup setting.fresh : IsPrefix(Leads[Operands[i]], p)}

\* What find is to write for a path below its operand i.
TextOf(i, path) ==
  LET word  == Spell[Operands[i]]
      start == Leads[Operands[i]]
      names == SubSeq(path, Len(start) + 1, Len(path))
      stem  == IF word # <<>> /\ Last(word) = "/" THEN Front(word) ELSE word
  IN  IF names = <<>> THEN word
      ELSE stem \o FlattenSeq([k \in DOMAIN names |-> <<"/">> \o Spell[names[k]]])

\* The number of links of a directory changes with what other programs do in it.
Timeless == setting.fresh = {} \/ \A i \in DOMAIN argv : argv[i] # "-links"

\* An exit status of 0 means that every entry of which the expression holds has
\* been written, if it was there all the time and no directory was refused (which
\* do_find passes over in silence, line 374): no entry is lost to what comes and
\* goes beside it.
FindsWhatStays ==
  mode = "exited" /\ ret = 0 /\ ~Refused("opendir") /\ Timeless =>
    \A i \in DOMAIN Operands : \A p \in Below(i) :
      Stays(p) /\ Holds(value, p, TextOf(i, p)) => Copies(TextOf(i, p)) > 0

\* Nothing else is written: every line is the path of an entry below an operand,
\* as often as that operand was given and the expression prints; without a -print
\* of its own only if the expression holds. The parser adds the default -print
\* always, and so it counts here: what that makes of a lone -print is in WritesOnce.
FindsNothingElse ==
  LET prints == {n \in DOMAIN nodes : nodes[n].type = "-print"}
  IN  mode = "exited" => \A t \in DOMAIN out :
        LET sources == {i \in DOMAIN Operands : \E p \in Below(i) : TextOf(i, p) = t}
        IN  /\ sources # {}
            /\ out[t] <= Cardinality(prints) * Cardinality(sources)
            /\ Timeless /\ Cardinality(prints) = 1 =>
                 \A i \in sources : \A p \in Below(i) :
                   TextOf(i, p) = t /\ Stays(p) => Holds(value, p, t)

\* The default -print is for expressions that have none ("by default add a print",
\* line 306): with one -print on the command line no path is written more often
\* than it was given. The code does not keep this (line 200).
WritesOnce ==
  Cardinality({k \in DOMAIN argv : argv[k] = "-print"}) = 1 =>
    \A t \in DOMAIN out :
      out[t] <= Cardinality({i \in DOMAIN Operands : \E p \in Below(i) : TextOf(i, p) = t})

===============================================================================
