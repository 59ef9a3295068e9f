------------------------------- MODULE FindExpr -------------------------------
(***************************************************************************)
(* src/find.c up to line 314: find's operands and the recursive descent    *)
(* that reads its expression into a tree of nodes on the heap.  frames are *)
(* the C activations of the parse functions, each waiting for the node the *)
(* next one returns, and value is that node.  A node is known by its place *)
(* in nodes, in the order of allocation, and 0 is the null pointer.        *)
(***************************************************************************)
EXTENDS Matching, Integers, FiniteSets, SequencesExt

CONSTANTS Word,      \* the words of a command line
          Spell,     \* Spell[w]: the characters of the word w
          Numeral    \* Numeral[w]: the number that the word w spells in full

NULL == "NULL"

NotWords == {"!", "-not"}
AndWords == {"-and", "-a"}
OrWords  == {"-or", "-o"}

(***************************************************************************)
(* The table of primaries: a primary takes nothing, a number, a letter for *)
(* a type, or a word it does not look at now (the string of -name, but the *)
(* arguments of -perm, -size and -exec too, which are not parsed yet, and  *)
(* that of -user, of which str2uid() makes some uid in any case).          *)
(***************************************************************************)
Bare    == {"-nouser", "-nogroup", "-xdev", "-prune", "-print", "-depth"}
Numeric == {"-links", "-atime", "-ctime", "-mtime"}
Typed   == {"-type"}
Worded  == {"-name", "-path", "-group", "-newer", "-user", "-perm", "-size", "-exec", "-ok"}
Primary == Bare \cup Numeric \cup Typed \cup Worded
Actions == {"-print", "-exec", "-ok"}

TypeLetters == {"b", "c", "d", "l", "p", "f", "s"}

ArgumentFitsUnchecked(primary, w) ==
  /\ primary \in Numeric => w \in DOMAIN Numeral
  /\ primary \in Typed => w \in TypeLetters

\* Whether parse_arg accepts w, which is NULL at the end of argv.
ArgumentFits(primary, w) ==
  /\ w \in Word
  /\ primary \in Numeric => w \in DOMAIN Numeral
  /\ primary \in Typed => w \in TypeLetters

ASSUME WordAssumption ==
  /\ NULL \notin Word
  /\ Spell \in [Word -> Seq(Char)]
  /\ DOMAIN Numeral \subseteq Word

VARIABLES argv,        \* the operands and the expression
          ptr,         \* the next word to look at
          path_count,  \* how many operands come first
          nodes, live, \* all nodes ever allocated, and those not freed
          frames, value, has_action,
          mode         \* what happens next

parser == <<ptr, path_count, nodes, live, frames, value, has_action, mode>>

Node(type, left, right, arg) == [type |-> type, left |-> left, right |-> right, arg |-> arg]
NodeType == [type : Primary \cup {"not", "and", "or"}, left : Nat, right : Nat,
             arg : Word \cup {NULL}]
Frame == [fn : {"or", "and", "not", "paren"}, left : Nat]
Waiting(fn) == [fn |-> fn, left |-> 0]

\* The types; that the children of a node are older than it, so that free_node
\* and check_node come to an end; and that ptr moves past argv's NULL only when the
\* parse is about to fail, and is read no more.
ParserOK ==
  /\ argv \in Seq(Word)
  /\ ptr \in 1..(Len(argv) + 2)
  /\ path_count \in 0..Len(argv)
  /\ nodes \in Seq(NodeType)
  /\ live \subseteq DOMAIN nodes
  /\ \A n \in DOMAIN nodes : nodes[n].left < n /\ nodes[n].right < n
  /\ frames \in Seq(Frame)
  /\ \A k \in DOMAIN frames : frames[k].left <= Len(nodes)
  /\ value \in 0..Len(nodes)
  /\ has_action \in {0, 1}
  /\ mode \in {"paths", "expr", "return", "parsed", "failed", "exited"}
  /\ mode = "paths" => path_count = ptr - 1
  /\ ptr > Len(argv) + 1 => mode \in {"return", "failed", "exited"} /\ value = 0

ParseInit ==
  /\ ptr = 1 /\ path_count = 0
  /\ nodes = <<>> /\ live = {}
  /\ frames = <<>> /\ value = 0 /\ has_action = 0
  /\ mode = "paths"

\* peek_str().
Token == IF ptr <= Len(argv) THEN argv[ptr] ELSE NULL

StartsExpr(w) == Spell[w] # <<>> /\ Spell[w][1] \in {"-", "(", "!"}

\* The nodes that free_node(n) frees.
Subtree(n) ==
  LET below[k \in 0..Len(nodes)] ==
        IF k = 0 THEN {} ELSE {k} \cup below[nodes[k].left] \cup below[nodes[k].right]
  IN  below[n]

\* new_node(), with what the caller puts into the node, and its return.
New(node) == /\ nodes' = Append(nodes, node)
             /\ live' = live \cup {Len(nodes) + 1}

Return(n) == mode' = "return" /\ value' = n

-------------------------------------------------------------------------------
(***************************************************************************)
(* find_main: the operands, then parse_exprs.                              *)
(***************************************************************************)
SkipPath ==
  /\ mode = "paths" /\ Token # NULL /\ ~StartsExpr(Token)
  /\ ptr' = ptr + 1 /\ path_count' = path_count + 1
  /\ UNCHANGED <<argv, nodes, live, frames, value, has_action, mode>>

NoExpression ==
  /\ mode = "paths" /\ Token = NULL
  /\ New(Node("-print", 0, 0, NULL))
  /\ mode' = "parsed" /\ value' = Len(nodes) + 1
  /\ UNCHANGED <<argv, ptr, path_count, frames, has_action>>

\* parse_or_list calls parse_and_list, which calls parse_expr, at once.
ParseOrList(outer) == mode' = "expr" /\ frames' = outer \o <<Waiting("or"), Waiting("and")>>

BeginExpression ==
  /\ mode = "paths" /\ Token # NULL /\ StartsExpr(Token)
  /\ ParseOrList(<<>>)
  /\ UNCHANGED <<argv, ptr, path_count, nodes, live, value, has_action>>

ParseFails ==
  /\ mode = "return" /\ frames = <<>> /\ value = 0
  /\ mode' = "failed"
  /\ UNCHANGED <<argv, ptr, path_count, nodes, live, frames, value, has_action>>

ParseSucceeds ==
  /\ mode = "return" /\ frames = <<>> /\ value # 0
  /\ mode' = "parsed"
  /\ IF has_action = 0
     THEN /\ nodes' = nodes \o <<Node("-print", 0, 0, NULL),
                                 Node("and", value, Len(nodes) + 1, NULL)>>
          /\ live' = live \cup {Len(nodes) + 1, Len(nodes) + 2}
          /\ value' = Len(nodes) + 2
     ELSE UNCHANGED <<nodes, live, value>>
  /\ UNCHANGED <<argv, ptr, path_count, frames, has_action>>

(***************************************************************************)
(* parse_expr and parse_primary.                                           *)
(***************************************************************************)
ExprMissing ==
  /\ mode = "expr" /\ Token = NULL
  /\ Return(0)
  /\ UNCHANGED <<argv, ptr, path_count, nodes, live, frames, has_action>>

ExprParen ==
  /\ mode = "expr" /\ Token = "("
  /\ ptr' = ptr + 1
  /\ ParseOrList(Append(frames, Waiting("paren")))
  /\ UNCHANGED <<argv, path_count, nodes, live, value, has_action>>

NotTakesList ==
  /\ mode = "expr" /\ Token \in NotWords
  /\ ptr' = ptr + 1
  /\ frames' = frames \o <<Waiting("not"), Waiting("and")>>
  /\ UNCHANGED <<argv, path_count, nodes, live, value, has_action, mode>>

ExprNot ==
  /\ mode = "expr" /\ Token \in NotWords
  /\ ptr' = ptr + 1
  /\ frames' = Append(frames, Waiting("not"))
  /\ UNCHANGED <<argv, path_count, nodes, live, value, has_action, mode>>

PrimaryUnknown ==
  /\ mode = "expr" /\ Token \notin Primary \cup NotWords \cup {"(", NULL}
  /\ ptr' = ptr + 1
  /\ Return(0)
  /\ UNCHANGED <<argv, path_count, nodes, live, frames, has_action>>

\* Line 200 sets has_action to what it is already.
NoteAction == has_action' = IF Token \in Actions THEN 0 ELSE has_action

PrimaryBare ==
  /\ mode = "expr" /\ Token \in Bare
  /\ ptr' = ptr + 1
  /\ NoteAction
  /\ New(Node(Token, 0, 0, NULL)) /\ Return(Len(nodes) + 1)
  /\ UNCHANGED <<argv, path_count, frames>>

\* parse_arg takes the word after the primary, and steps over argv's NULL if
\* there is none.
Argument == IF ptr < Len(argv) THEN argv[ptr + 1] ELSE NULL

PrimaryWithArgument ==
  /\ mode = "expr" /\ Token \in Primary \ Bare /\ ArgumentFits(Token, Argument)
  /\ ptr' = ptr + 2
  /\ NoteAction
  /\ New(Node(Token, 0, 0, Argument)) /\ Return(Len(nodes) + 1)
  /\ UNCHANGED <<argv, path_count, frames>>

\* The new node is freed again.
PrimaryBadArgument ==
  /\ mode = "expr" /\ Token \in Primary \ Bare /\ ~ArgumentFits(Token, Argument)
  /\ ptr' = ptr + 2
  /\ NoteAction
  /\ Return(0)
  /\ UNCHANGED <<argv, path_count, nodes, live, frames>>

(***************************************************************************)
(* What each function does with the node it has waited for.  A null        *)
(* pointer goes up through all of them; a list frees what it has so far.   *)
(***************************************************************************)
Returning(fn) == mode = "return" /\ frames # <<>> /\ Last(frames).fn = fn

NullGoesUpLeaking ==
  /\ mode = "return" /\ frames # <<>> /\ value = 0
  /\ frames' = Front(frames)
  /\ UNCHANGED <<argv, ptr, path_count, nodes, live, value, has_action, mode>>

NullGoesUp ==
  /\ mode = "return" /\ frames # <<>> /\ value = 0
  /\ live' = live \ Subtree(Last(frames).left)
  /\ frames' = Front(frames)
  /\ UNCHANGED <<argv, ptr, path_count, nodes, value, has_action, mode>>

NotDone ==
  /\ Returning("not") /\ value # 0
  /\ frames' = Front(frames)
  /\ New(Node("not", value, 0, NULL)) /\ Return(Len(nodes) + 1)
  /\ UNCHANGED <<argv, ptr, path_count, has_action>>

ParenDone ==
  /\ Returning("paren") /\ value # 0 /\ Token = ")"
  /\ ptr' = ptr + 1
  /\ frames' = Front(frames)
  /\ UNCHANGED <<argv, path_count, nodes, live, value, has_action, mode>>

ParenUnmatched ==
  /\ Returning("paren") /\ value # 0 /\ Token # ")"
  /\ ptr' = ptr + 1
  /\ frames' = Front(frames)
  /\ live' = live \ Subtree(value) /\ Return(0)
  /\ UNCHANGED <<argv, path_count, nodes, has_action>>

\* The list so far: `left` becomes a new node over itself and what has come.
Joined == IF Last(frames).left = 0 THEN value ELSE Len(nodes) + 1

Join(op) ==
  IF Last(frames).left = 0 THEN UNCHANGED <<nodes, live>>
                           ELSE New(Node(op, Last(frames).left, value, NULL))

ListGoesOn(op) == frames' = Append(Front(frames), [fn |-> op, left |-> Joined])

EndsAndUnlessOperator == Token \notin Primary \cup NotWords \cup AndWords
EndsAnd == Token \in OrWords \cup {")", NULL}
EndsOr  == Token \in {")", NULL}

AndGoesOn ==
  /\ Returning("and") /\ value # 0 /\ ~EndsAnd
  /\ ptr' = IF Token \in AndWords THEN ptr + 1 ELSE ptr
  /\ Join("and") /\ ListGoesOn("and")
  /\ mode' = "expr" /\ value' = 0
  /\ UNCHANGED <<argv, path_count, has_action>>

AndDone ==
  /\ Returning("and") /\ value # 0 /\ EndsAnd
  /\ Join("and") /\ Return(Joined)
  /\ frames' = Front(frames)
  /\ UNCHANGED <<argv, ptr, path_count, has_action>>

\* Without an -o this prints "unpossible error" and goes on as well.
OrGoesOn ==
  /\ Returning("or") /\ value # 0 /\ ~EndsOr
  /\ ptr' = IF Token \in OrWords THEN ptr + 1 ELSE ptr
  /\ Join("or")
  /\ frames' = Front(frames) \o <<[fn |-> "or", left |-> Joined], Waiting("and")>>
  /\ mode' = "expr" /\ value' = 0
  /\ UNCHANGED <<argv, path_count, has_action>>

OrDone ==
  /\ Returning("or") /\ value # 0 /\ EndsOr
  /\ Join("or") /\ Return(Joined)
  /\ frames' = Front(frames)
  /\ UNCHANGED <<argv, ptr, path_count, has_action>>

ParseStep ==
  \/ SkipPath \/ NoExpression \/ BeginExpression \/ ParseFails \/ ParseSucceeds
  \/ ExprMissing \/ ExprParen \/ ExprNot
  \/ PrimaryUnknown \/ PrimaryBare \/ PrimaryWithArgument \/ PrimaryBadArgument
  \/ NullGoesUp \/ NotDone \/ ParenDone \/ ParenUnmatched
  \/ AndGoesOn \/ AndDone \/ OrGoesOn \/ OrDone

-------------------------------------------------------------------------------
(***************************************************************************)
(* The grammar, without a parser: Readings(i, j) are the trees that the    *)
(* words i to j - 1 can be read as.                                        *)
(***************************************************************************)
Readings(first, end) ==
  LET Place == 1..(Len(argv) + 1)
      Split(i, j) == (i + 1)..(j - 1)
      Pairs(op, L, R) == {<<op, l, r>> : l \in L, r \in R}
      read[level \in {"or", "and", "expr"}, i \in Place, j \in Place] ==
        CASE i >= j -> {}
          [] level = "or" ->
               read["and", i, j] \cup
               UNION {Pairs("or", read["or", i, k], read["and", k + 1, j]) :
                        k \in {k \in Split(i, j) : argv[k] \in OrWords}}
          [] level = "and" ->
               read["expr", i, j] \cup
               UNION {Pairs("and", read["and", i, k],
                            read["expr", IF argv[k] \in AndWords THEN k + 1 ELSE k, j]) :
                        k \in Split(i, j)}
          [] argv[i] = "(" -> IF argv[j - 1] = ")" /\ i < j - 1 THEN read["or", i + 1, j - 1] ELSE {}
          [] argv[i] \in NotWords -> {<<"not", t>> : t \in read["expr", i + 1, j]}
          [] argv[i] \in Bare /\ j = i + 1 -> {<<argv[i]>>}
          [] argv[i] \in Primary \ Bare /\ j = i + 2 ->
               IF ArgumentFits(argv[i], argv[i + 1]) THEN {<<argv[i], argv[i + 1]>>} ELSE {}
          [] OTHER -> {}
  IN  read["or", first, end]

\* The tree that hangs on a node.
TreeAt(n) ==
  LET tree[k \in DOMAIN nodes] ==
        CASE nodes[k].type \in {"and", "or"} ->
               <<nodes[k].type, tree[nodes[k].left], tree[nodes[k].right]>>
          [] nodes[k].type = "not" -> <<"not", tree[nodes[k].left]>>
          [] nodes[k].type \in Bare -> <<nodes[k].type>>
          [] OTHER -> <<nodes[k].type, nodes[k].arg>>
  IN  tree[n]

WithPrint(t) == <<"and", t, <<"-print">>>>

\* The parser and the grammar agree: the words up to the end, or to a ")" that
\* nothing has opened (line 276), have exactly one reading, which is the tree
\* that the parser builds, perhaps with a -print; and they have none if it fails.
ReadsAsWritten ==
  LET first == path_count + 1
  IN  /\ mode = "parsed" /\ path_count < Len(argv) =>
           /\ EndsOr
           /\ \E t \in {TreeAt(value)} \cup {TreeAt(nodes[value].left)} :
                Readings(first, ptr) = {t} /\ TreeAt(value) \in {t, WithPrint(t)}
      /\ mode = "failed" =>
           \A j \in first..(Len(argv) + 1) :
             j = Len(argv) + 1 \/ argv[j] = ")" => Readings(first, j) = {}

\* The nodes that are held in a variable of some activation.
Root(k) == CASE k > 0 -> frames[k].left
             [] mode = "exited" -> 0
             [] OTHER -> value

\* The heap is in order after every step: each node that is not freed hangs, at
\* one place only, on a node which some activation holds; so that nothing leaks on
\* the error paths (lines 203, 225, 259, 287), nothing is freed twice, and
\* no freed node is looked at.
HeapIsHeld ==
  /\ live = UNION {Subtree(Root(k)) : k \in 0..Len(frames)}
  /\ \A j, k \in 0..Len(frames) : j # k => Subtree(Root(j)) \cap Subtree(Root(k)) = {}
  /\ \A n \in live : Subtree(nodes[n].left) \cap Subtree(nodes[n].right) = {}

\* "how did we get here" (line 282): where parse_or_list goes on there is an -o.
NoUnpossibleError ==
  Returning("or") /\ value # 0 /\ ~EndsOr => Token \in OrWords

(***************************************************************************)
(* Why that is so: who calls whom.                                         *)
(***************************************************************************)
Callers(fn) == CASE fn = "or"  -> {"main", "paren"}
                 [] fn = "and" -> {"or"}
                 [] OTHER      -> {"and", "not"}

Caller(f, k) == IF k = 1 THEN "main" ELSE f[k - 1].fn
CallsNest(f) == \A k \in DOMAIN f : Caller(f, k) \in Callers(f[k].fn)

\* The inductive invariant behind NoUnpossibleError: an expression is called for
\* by an and-list or a "not", and an or-list takes over from an and-list only.
Descent ==
  /\ CallsNest(frames)
  /\ mode = "expr" => frames # <<>> /\ Last(frames).fn \in {"and", "not"}
  /\ mode \in {"paths", "parsed", "failed", "exited"} => frames = <<>>
  /\ NoUnpossibleError

===============================================================================
