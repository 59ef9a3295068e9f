------------------------------ MODULE FindProofs ------------------------------
(***************************************************************************)
(* Theorems about Find for every command line, every tree and whatever     *)
(* other programs do: the parser never looks behind the end of argv, the   *)
(* nodes it builds have no cycle and are all freed once, its "unpossible   *)
(* error" is one, and the walk reports everything that stays and nothing   *)
(* else.  At the end, glob_match, which -name and -path call.              *)
(***************************************************************************)
EXTENDS Find, Glob, FileSystemProofs, FiniteSetTheorems

(***************************************************************************)
(* Activations of the parse functions: what is left when one returns, and  *)
(* what a further call adds.                                               *)
(***************************************************************************)
Frames(f, n) == f \in Seq(Frame) /\ \A k \in DOMAIN f : f[k].left <= n

\* A return from the innermost activation.
LEMMA FramesPop ==
  ASSUME NEW f, NEW n \in Nat, Frames(f, n), f # <<>>, CallsNest(f)
  PROVE  /\ Frames(Front(f), n) /\ CallsNest(Front(f))
         /\ Last(f) \in Frame /\ Last(f).left <= n
         /\ Front(f) # <<>> => Last(Front(f)).fn \in Callers(Last(f).fn)
         /\ Front(f) = <<>> => "main" \in Callers(Last(f).fn)
<1>1. /\ Front(f) \in Seq(Frame) /\ Last(f) \in Frame
      /\ Len(Front(f)) = Len(f) - 1 /\ Len(f) >= 1 /\ Len(f) \in Nat
      /\ \A i \in 1..(Len(f) - 1) : Front(f)[i] = f[i]
  BY FrontAndLast DEF Frames
<1>2. DOMAIN f = 1..Len(f) /\ DOMAIN Front(f) = 1..(Len(f) - 1)
  BY <1>1 DEF Frames
<1>3. Last(f) = f[Len(f)]
  BY DEF Last
<1>4. Frames(Front(f), n) /\ Last(f).left <= n
  BY <1>1, <1>2, <1>3 DEF Frames
<1>5. CallsNest(Front(f))
  BY <1>1, <1>2 DEF CallsNest, Caller
<1>6. Caller(f, Len(f)) \in Callers(Last(f).fn)
  BY <1>1, <1>2, <1>3 DEF CallsNest
<1>7. ASSUME Front(f) # <<>> PROVE Last(Front(f)).fn \in Callers(Last(f).fn)
  <2>1. Len(f) # 1
    BY <1>1, <1>7
  <2>2. Last(Front(f)) = f[Len(f) - 1]
    BY <1>1, <2>1 DEF Last
  <2> QED
    BY <1>6, <2>1, <2>2 DEF Caller
<1>8. ASSUME Front(f) = <<>> PROVE "main" \in Callers(Last(f).fn)
  <2>1. Len(f) = 1
    BY <1>1, <1>8
  <2> QED
    BY <1>6, <2>1 DEF Caller
<1> QED
  BY <1>1, <1>4, <1>5, <1>7, <1>8

\* A call by the innermost activation, or by main.
LEMMA FramesPush ==
  ASSUME NEW f, NEW n \in Nat, Frames(f, n), CallsNest(f),
         NEW e \in Frame, e.left <= n,
         f = <<>> => "main" \in Callers(e.fn),
         f # <<>> => Last(f).fn \in Callers(e.fn)
  PROVE  /\ Frames(Append(f, e), n) /\ CallsNest(Append(f, e))
         /\ Append(f, e) # <<>> /\ Last(Append(f, e)) = e
<1> DEFINE g == Append(f, e)
<1>1. f \in Seq(Frame) /\ Len(f) \in Nat /\ DOMAIN f = 1..Len(f)
  BY DEF Frames
<1>2. /\ g \in Seq(Frame) /\ g # <<>> /\ Last(g) = e
      /\ Len(g) = Len(f) + 1 /\ DOMAIN g = 1..(Len(f) + 1)
      /\ \A k \in 1..Len(f) : g[k] = f[k]
      /\ g[Len(f) + 1] = e
  BY <1>1, FrontOfAppend
<1> HIDE DEF g
<1>3. Frames(g, n)
  BY <1>1, <1>2 DEF Frames
<1>4. ASSUME NEW k \in DOMAIN g PROVE Caller(g, k) \in Callers(g[k].fn)
  <2>1. CASE k \in 1..Len(f)
    BY <1>1, <1>2, <2>1 DEF CallsNest, Caller
  <2>2. CASE k = Len(f) + 1 /\ f = <<>>
    BY <1>1, <1>2, <2>2 DEF Caller
  <2>3. CASE k = Len(f) + 1 /\ f # <<>>
    <3>1. Len(f) >= 1 /\ Last(f) = f[Len(f)]
      BY <1>1, <2>3 DEF Last
    <3>2. Caller(g, k) = Last(f).fn
      BY <1>1, <1>2, <2>3, <3>1 DEF Caller
    <3> QED
      BY <1>2, <2>3, <3>2
  <2> QED
    BY <1>1, <1>2, <2>1, <2>2, <2>3
<1> QED
  BY <1>2, <1>3, <1>4 DEF CallsNest, g

\* More nodes do no harm to the activations.
LEMMA FramesMore ==
  ASSUME NEW f, NEW n \in Nat, NEW m \in Nat, n <= m, Frames(f, n)
  PROVE  Frames(f, m)
<1>1. f \in Seq(Frame) /\ \A k \in DOMAIN f : f[k] \in Frame
  BY DEF Frames
<1>2. \A k \in DOMAIN f : f[k].left \in Nat /\ f[k].left <= n
  BY <1>1 DEF Frames, Frame
<1> QED
  BY <1>1, <1>2 DEF Frames

\* The two calls that lead to the first expression of an or-list.
LEMMA FramesOrList ==
  ASSUME NEW f, NEW n \in Nat, Frames(f, n), CallsNest(f),
         f # <<>> => Last(f).fn = "paren"
  PROVE  LET g == f \o <<Waiting("or"), Waiting("and")>>
         IN  Frames(g, n) /\ CallsNest(g) /\ g # <<>> /\ Last(g).fn = "and"
<1> DEFINE o == Waiting("or")
           a == Waiting("and")
<1>1. o \in Frame /\ a \in Frame /\ o.left <= n /\ a.left <= n /\ o.fn = "or" /\ a.fn = "and"
  BY DEF Waiting, Frame
<1>2. f \in Seq(Frame)
  BY DEF Frames
<1>3. f \o <<o, a>> = Append(Append(f, o), a)
  BY <1>1, <1>2
<1> HIDE DEF o, a
<1>4. /\ Frames(Append(f, o), n) /\ CallsNest(Append(f, o))
      /\ Append(f, o) # <<>> /\ Last(Append(f, o)) = o
  <2>1. "main" \in Callers(o.fn) /\ "paren" \in Callers(o.fn)
    BY <1>1 DEF Callers
  <2> QED
    BY <1>1, <2>1, FramesPush
<1>5. /\ Frames(Append(Append(f, o), a), n) /\ CallsNest(Append(Append(f, o), a))
      /\ Append(Append(f, o), a) # <<>> /\ Last(Append(Append(f, o), a)) = a
  <2>1. Last(Append(f, o)).fn \in Callers(a.fn)
    BY <1>1, <1>4 DEF Callers
  <2> QED
    BY <1>1, <1>4, <2>1, FramesPush, Zenon
<1> QED
  BY <1>1, <1>3, <1>5 DEF o, a


(***************************************************************************)
(* Nodes, and the word to look at.                                         *)
(***************************************************************************)
Ordered(ns) == /\ ns \in Seq(NodeType)
               /\ \A n \in DOMAIN ns : ns[n].left < n /\ ns[n].right < n

\* A new node over older ones.
LEMMA OrderedGrows ==
  ASSUME NEW ns, Ordered(ns), NEW node \in NodeType,
         node.left <= Len(ns), node.right <= Len(ns)
  PROVE  /\ Ordered(Append(ns, node))
         /\ Len(ns) \in Nat /\ Len(Append(ns, node)) = Len(ns) + 1
         /\ DOMAIN ns = 1..Len(ns) /\ DOMAIN Append(ns, node) = 1..(Len(ns) + 1)
<1>1. ns \in Seq(NodeType) /\ Len(ns) \in Nat /\ DOMAIN ns = 1..Len(ns)
  BY DEF Ordered
<1>2. /\ Append(ns, node) \in Seq(NodeType)
      /\ Len(Append(ns, node)) = Len(ns) + 1
      /\ DOMAIN Append(ns, node) = 1..(Len(ns) + 1)
      /\ \A n \in 1..Len(ns) : Append(ns, node)[n] = ns[n]
      /\ Append(ns, node)[Len(ns) + 1] = node
  BY <1>1
<1>3. node.left \in Nat /\ node.right \in Nat
  BY DEF NodeType
<1>4. ASSUME NEW n \in 1..(Len(ns) + 1)
      PROVE  Append(ns, node)[n].left < n /\ Append(ns, node)[n].right < n
  <2>1. CASE n \in 1..Len(ns)
    BY <1>1, <1>2, <2>1 DEF Ordered
  <2>2. CASE n = Len(ns) + 1
    BY <1>1, <1>2, <1>3, <2>2
  <2> QED
    BY <1>1, <2>1, <2>2
<1> QED
  BY <1>1, <1>2, <1>4 DEF Ordered

\* What ParserOK says of the heap and of the activations.
LEMMA ParserParts ==
  ASSUME ParserOK
  PROVE  /\ Ordered(nodes) /\ Len(nodes) \in Nat /\ DOMAIN nodes = 1..Len(nodes)
         /\ Frames(frames, Len(nodes))
         /\ value \in Nat /\ value <= Len(nodes)
<1>1. nodes \in Seq(NodeType)
  BY DEF ParserOK
<1> QED
  BY <1>1 DEF ParserOK, Ordered, Frames

\* Token is a word of argv, or ptr is at its end or behind it.
LEMMA TokenIsWord ==
  ASSUME ParserOK
  PROVE  /\ Len(argv) \in Nat /\ ptr \in Nat
         /\ ptr <= Len(argv) => Token \in Word /\ Token # NULL /\ Token = argv[ptr]
         /\ ptr > Len(argv) => Token = NULL
<1>1. argv \in Seq(Word) /\ Len(argv) \in Nat /\ ptr \in 1..(Len(argv) + 2)
  BY DEF ParserOK
<1>2. ASSUME ptr <= Len(argv) PROVE Token \in Word /\ Token # NULL /\ Token = argv[ptr]
  <2>1. argv[ptr] \in Word
    BY <1>1, <1>2
  <2> QED
    BY <1>2, <2>1, WordAssumption DEF Token
<1>3. ASSUME ptr > Len(argv) PROVE Token = NULL
  BY <1>1, <1>3 DEF Token
<1> QED
  BY <1>1, <1>2, <1>3

\* A list that takes a further node in keeps the heap in order.
LEMMA JoinOrdered ==
  ASSUME ParserOK, NEW op \in {"and", "or"}, Returning(op), value # 0, Join(op)
  PROVE  /\ Ordered(nodes') /\ Len(nodes') \in Nat /\ DOMAIN nodes' = 1..Len(nodes')
         /\ Len(nodes) <= Len(nodes')
         /\ live' \subseteq DOMAIN nodes'
         /\ Joined \in Nat /\ Joined # 0 /\ Joined <= Len(nodes')
<1>1. live \subseteq DOMAIN nodes
  BY DEF ParserOK
<1>2. CASE Last(frames).left = 0
  <2>1. nodes' = nodes /\ live' = live /\ Joined = value
    BY <1>2 DEF Join, Joined
  <2> QED
    BY <1>1, <2>1, ParserParts
<1>3. CASE Last(frames).left # 0
  <2> DEFINE node == Node(op, Last(frames).left, value, NULL)
  <2>1. /\ nodes' = Append(nodes, node) /\ live' = live \cup {Len(nodes) + 1}
        /\ Joined = Len(nodes) + 1
    BY <1>3 DEF Join, Joined, New
  <2>2. Last(frames) \in Frame /\ Last(frames).left <= Len(nodes)
    <3>1. frames # <<>> /\ frames \in Seq(Frame)
      BY DEF Returning, ParserOK
    <3>2. Len(frames) \in DOMAIN frames /\ frames[Len(frames)] \in Frame
      BY <3>1
    <3> QED
      BY <3>2 DEF Last, ParserOK
  <2>3. node \in NodeType /\ node.left <= Len(nodes) /\ node.right <= Len(nodes)
    BY <2>2, ParserParts DEF Node, NodeType, Frame
  <2> HIDE DEF node
  <2> QED
    BY <1>1, <2>1, <2>3, ParserParts, OrderedGrows
<1> QED
  BY <1>2, <1>3

-------------------------------------------------------------------------------
(***************************************************************************)
(* Every step of the parser keeps ParserOK and Descent.                    *)
(***************************************************************************)
ParserInv == ParserOK /\ Descent

Modes == {"paths", "expr", "return", "parsed", "failed", "exited"}

\* What is to be shown of a step of the parser.
LEMMA ParserOKNext ==
  ASSUME argv \in Seq(Word), argv' = argv,
         Ordered(nodes'), live' \subseteq DOMAIN nodes',
         Frames(frames', Len(nodes')),
         value' \in Nat, value' <= Len(nodes'),
         ptr' \in 1..(Len(argv) + 2), path_count' \in 0..Len(argv),
         has_action' \in {0, 1}, mode' \in Modes,
         mode' = "paths" => path_count' = ptr' - 1,
         ptr' > Len(argv) + 1 => mode' \in {"return", "failed", "exited"} /\ value' = 0
  PROVE  ParserOK'
<1>1. Len(nodes') \in Nat
  BY DEF Ordered
<1>2. /\ nodes' \in Seq(NodeType)
      /\ \A n \in DOMAIN nodes' : nodes'[n].left < n /\ nodes'[n].right < n
  BY DEF Ordered
<1>3. frames' \in Seq(Frame) /\ \A k \in DOMAIN frames' : frames'[k].left <= Len(nodes')
  BY DEF Frames
<1>4. value' \in 0..Len(nodes')
  BY <1>1
<1>5. /\ argv' \in Seq(Word) /\ ptr' \in 1..(Len(argv') + 2) /\ path_count' \in 0..Len(argv')
      /\ ptr' > Len(argv') + 1 => mode' \in {"return", "failed", "exited"} /\ value' = 0
  OBVIOUS
<1> QED
  BY <1>2, <1>3, <1>4, <1>5 DEF ParserOK, Modes

\* A step that leaves nodes and activations alone.
LEMMA ParserStays ==
  ASSUME ParserOK, UNCHANGED <<argv, nodes, frames>>
  PROVE  /\ argv \in Seq(Word) /\ Ordered(nodes') /\ Len(nodes') = Len(nodes) /\ Frames(frames', Len(nodes'))
         /\ live \subseteq DOMAIN nodes'
<1>1. argv \in Seq(Word) /\ live \subseteq DOMAIN nodes
  BY DEF ParserOK
<1> QED
  BY <1>1, ParserParts

\* The loop of find_main over the operands.
LEMMA OperandsInv ==
  ASSUME ParserInv, SkipPath \/ NoExpression \/ BeginExpression \/ ParseFails \/ ParseSucceeds
  PROVE  ParserInv'
<1> USE DEF ParserInv
<1>1. CASE SkipPath
  <2>1. ptr <= Len(argv) /\ Len(argv) \in Nat /\ ptr \in Nat /\ ptr >= 1
    BY <1>1, TokenIsWord DEF SkipPath, ParserOK
  <2>2. ParserOK'
    BY <1>1, <2>1, ParserStays, ParserParts, ParserOKNext DEF SkipPath, ParserOK, Modes
  <2> QED
    BY <1>1, <2>2 DEF SkipPath, Descent, NoUnpossibleError, Returning
<1>2. CASE NoExpression
  <2> DEFINE node == Node("-print", 0, 0, NULL)
  <2>1. node \in NodeType /\ node.left = 0 /\ node.right = 0
    BY DEF Node, NodeType, Primary, Bare
  <2> HIDE DEF node
  <2>2. /\ nodes' = Append(nodes, node) /\ live' = live \cup {Len(nodes) + 1}
        /\ value' = Len(nodes) + 1
    BY <1>2 DEF NoExpression, New, node
  <2>3. Ordered(nodes') /\ Len(nodes') = Len(nodes) + 1 /\ DOMAIN nodes' = 1..(Len(nodes) + 1)
    BY <2>1, <2>2, ParserParts, OrderedGrows
  <2>4. Frames(frames', Len(nodes'))
    BY <1>2, <2>3, ParserParts, FramesMore DEF NoExpression
  <2>5. live' \subseteq DOMAIN nodes'
    BY <2>2, <2>3, ParserParts DEF ParserOK
  <2>6. ParserOK'
    BY <1>2, <2>2, <2>3, <2>4, <2>5, ParserParts, ParserOKNext DEF NoExpression, ParserOK, Modes
  <2> QED
    BY <1>2, <2>6 DEF NoExpression, Descent, NoUnpossibleError, Returning
<1>3. CASE BeginExpression
  <2>1. frames = <<>>
    BY <1>3 DEF BeginExpression, Descent
  <2>2. frames' = frames \o <<Waiting("or"), Waiting("and")>>
    BY <1>3, <2>1 DEF BeginExpression, ParseOrList
  <2>3. /\ Frames(frames', Len(nodes)) /\ CallsNest(frames')
        /\ frames' # <<>> /\ Last(frames').fn = "and"
    BY <2>1, <2>2, ParserParts, FramesOrList DEF Descent
  <2>4. ptr <= Len(argv)
    BY <1>3, TokenIsWord DEF BeginExpression
  <2>5. ParserOK'
    BY <1>3, <2>3, <2>4, ParserParts, ParserOKNext DEF BeginExpression, ParseOrList, ParserOK, Modes
  <2> QED
    BY <1>3, <2>3, <2>5 DEF BeginExpression, ParseOrList, Descent, NoUnpossibleError, Returning
<1>4. CASE ParseFails
  <2>1. ParserOK'
    BY <1>4, ParserStays, ParserParts, ParserOKNext DEF ParseFails, ParserOK, Modes
  <2> QED
    BY <1>4, <2>1 DEF ParseFails, Descent, NoUnpossibleError, Returning
<1>5. CASE ParseSucceeds
  <2>1. ptr <= Len(argv) + 1
    BY <1>5, TokenIsWord DEF ParseSucceeds, ParserOK
  <2>2. ASSUME has_action = 0 PROVE ParserOK'
    <3> DEFINE print == Node("-print", 0, 0, NULL)
               and == Node("and", value, Len(nodes) + 1, NULL)
    <3>1. /\ print \in NodeType /\ print.left = 0 /\ print.right = 0
          /\ and \in NodeType /\ and.left = value /\ and.right = Len(nodes) + 1
      BY ParserParts DEF Node, NodeType, Primary, Bare
    <3> HIDE DEF print, and
    <3>2. nodes' = nodes \o <<print, and>> /\ nodes \in Seq(NodeType)
      BY <1>5, <2>2 DEF ParseSucceeds, ParserOK, print, and
    <3>3. nodes' = Append(Append(nodes, print), and)
      BY <3>1, <3>2
    <3>4. /\ Ordered(Append(nodes, print)) /\ Len(nodes) \in Nat
          /\ Len(Append(nodes, print)) = Len(nodes) + 1
      BY <3>1, ParserParts, OrderedGrows
    <3>5. /\ Ordered(nodes') /\ Len(nodes') = Len(nodes) + 2
          /\ DOMAIN nodes' = 1..(Len(nodes) + 2)
      <4> DEFINE ns == Append(nodes, print)
      <4>1. Ordered(ns) /\ Len(ns) = Len(nodes) + 1 /\ nodes' = Append(ns, and)
        BY <3>3, <3>4
      <4>2. and.left <= Len(ns) /\ and.right <= Len(ns)
        BY <3>1, <3>4, ParserParts
      <4> HIDE DEF ns
      <4>3. /\ Ordered(Append(ns, and)) /\ Len(Append(ns, and)) = Len(ns) + 1
            /\ DOMAIN Append(ns, and) = 1..(Len(ns) + 1)
        BY <3>1, <4>1, <4>2, OrderedGrows
      <4> QED
        BY <3>4, <4>1, <4>3
    <3>6. Frames(frames', Len(nodes'))
      BY <1>5, <3>4, <3>5, ParserParts, FramesMore DEF ParseSucceeds
    <3>7. live' \subseteq DOMAIN nodes' /\ value' = Len(nodes) + 2
      BY <1>5, <2>2, <3>4, <3>5, ParserParts DEF ParserOK, ParseSucceeds
    <3> QED
      BY <1>5, <2>1, <3>4, <3>5, <3>6, <3>7, ParserOKNext DEF ParseSucceeds, ParserOK, Modes
  <2>3. ASSUME has_action # 0 PROVE ParserOK'
    BY <1>5, <2>1, <2>3, ParserStays, ParserParts, ParserOKNext DEF ParseSucceeds, ParserOK, Modes
  <2> QED
    BY <1>5, <2>2, <2>3 DEF ParseSucceeds, Descent, NoUnpossibleError, Returning
<1> QED
  BY <1>1, <1>2, <1>3, <1>4, <1>5

\* A primary that has been read becomes a node.
LEMMA PrimaryNode ==
  ASSUME ParserInv, mode = "expr", UNCHANGED <<argv, path_count, frames>>,
         NEW arg \in Word \cup {NULL}, Token \in Primary,
         New(Node(Token, 0, 0, arg)), Return(Len(nodes) + 1), NoteAction,
         ptr' \in Nat, ptr' > ptr, ptr' <= Len(argv) + 1
  PROVE  ParserInv'
<1> USE DEF ParserInv
<1> DEFINE node == Node(Token, 0, 0, arg)
<1>1. node \in NodeType /\ node.left = 0 /\ node.right = 0
  BY DEF Node, NodeType
<1> HIDE DEF node
<1>2. nodes' = Append(nodes, node) /\ live' = live \cup {Len(nodes) + 1}
  BY DEF New, node
<1>3. /\ Ordered(nodes') /\ Len(nodes') = Len(nodes) + 1
      /\ DOMAIN nodes' = 1..(Len(nodes) + 1) /\ Len(nodes) \in Nat
  BY <1>1, <1>2, ParserParts, OrderedGrows
<1>4. Frames(frames', Len(nodes'))
  BY <1>3, ParserParts, FramesMore
<1>5. live' \subseteq DOMAIN nodes' /\ has_action' \in {0, 1}
  BY <1>2, <1>3, ParserParts DEF ParserOK, NoteAction
<1>6. ParserOK'
  BY <1>3, <1>4, <1>5, TokenIsWord, ParserOKNext DEF Return, ParserOK, Modes
<1> QED
  BY <1>6 DEF Return, Descent, NoUnpossibleError, Returning

\* parse_expr and parse_primary.
LEMMA ExprInv ==
  ASSUME ParserInv,
         \/ ExprMissing \/ ExprParen \/ ExprNot
         \/ PrimaryUnknown \/ PrimaryBare \/ PrimaryWithArgument \/ PrimaryBadArgument
  PROVE  ParserInv'
<1> USE DEF ParserInv
<1>1. /\ mode = "expr" /\ frames # <<>> /\ Last(frames).fn \in {"and", "not"}
      /\ Frames(frames, Len(nodes)) /\ CallsNest(frames) /\ Len(nodes) \in Nat
      /\ ptr \in Nat /\ ptr >= 1 /\ ptr <= Len(argv) + 1 /\ Len(argv) \in Nat
  BY ParserParts, TokenIsWord DEF ExprMissing, ExprParen, ExprNot, PrimaryUnknown, PrimaryBare,
     PrimaryWithArgument, PrimaryBadArgument, Descent, ParserOK
<1>2. Token # NULL => ptr <= Len(argv)
  BY TokenIsWord, <1>1
<1>3. ASSUME UNCHANGED <<argv, path_count, nodes, live, frames>>, Return(0),
             ptr' \in ptr..(Len(argv) + 2), has_action' \in {0, 1}
      PROVE  ParserInv'
  <2>1. ParserOK'
    BY <1>1, <1>3, ParserStays, ParserParts, ParserOKNext DEF Return, ParserOK, Modes
  <2> QED
    BY <1>1, <1>3, <2>1 DEF Return, Descent, NoUnpossibleError, Returning
<1>4. CASE ExprMissing
  BY <1>1, <1>3, <1>4 DEF ExprMissing, ParserOK
<1>5. CASE ExprParen
  <2> DEFINE e == Waiting("paren")
  <2>1. e \in Frame /\ e.left <= Len(nodes) /\ e.fn = "paren" /\ Last(frames).fn \in Callers(e.fn)
    BY <1>1 DEF Waiting, Frame, Callers
  <2> HIDE DEF e
  <2>2. /\ Frames(Append(frames, e), Len(nodes)) /\ CallsNest(Append(frames, e))
        /\ Append(frames, e) # <<>> /\ Last(Append(frames, e)) = e
    BY <1>1, <2>1, FramesPush
  <2>3. frames' = Append(frames, e) \o <<Waiting("or"), Waiting("and")>> /\ mode' = "expr"
    BY <1>5 DEF ExprParen, ParseOrList, e
  <2>4. /\ Frames(frames', Len(nodes)) /\ CallsNest(frames')
        /\ frames' # <<>> /\ Last(frames').fn = "and"
    BY <1>1, <2>1, <2>2, <2>3, FramesOrList
  <2>5. ptr <= Len(argv)
    BY <1>2, <1>5 DEF ExprParen, NULL
  <2>6. ParserOK'
    BY <1>1, <1>5, <2>3, <2>4, <2>5, ParserParts, ParserOKNext DEF ExprParen, ParserOK, Modes
  <2> QED
    BY <2>3, <2>4, <2>6 DEF Descent, NoUnpossibleError, Returning
<1>6. CASE ExprNot
  <2> DEFINE e == Waiting("not")
  <2>1. e \in Frame /\ e.left <= Len(nodes) /\ e.fn = "not" /\ Last(frames).fn \in Callers(e.fn)
    BY <1>1 DEF Waiting, Frame, Callers
  <2> HIDE DEF e
  <2>2. /\ Frames(Append(frames, e), Len(nodes)) /\ CallsNest(Append(frames, e))
        /\ Append(frames, e) # <<>> /\ Last(Append(frames, e)) = e
    BY <1>1, <2>1, FramesPush
  <2>3. frames' = Append(frames, e) /\ mode' = "expr"
    BY <1>1, <1>6 DEF ExprNot, e
  <2>4. ptr <= Len(argv)
    BY <1>2, <1>6 DEF ExprNot, NULL, NotWords
  <2>5. ParserOK'
    BY <1>1, <1>6, <2>2, <2>3, <2>4, ParserParts, ParserOKNext DEF ExprNot, ParserOK, Modes
  <2> QED
    BY <2>1, <2>2, <2>3, <2>5 DEF Descent, NoUnpossibleError, Returning
<1>7. CASE PrimaryUnknown
  BY <1>1, <1>2, <1>3, <1>7 DEF PrimaryUnknown, ParserOK
<1>8. CASE PrimaryBare
  <2>1. ptr <= Len(argv) /\ Token \in Primary
    BY <1>2, <1>8 DEF PrimaryBare, NULL, Bare, Primary
  <2> QED
    BY <1>1, <1>8, <2>1, PrimaryNode DEF PrimaryBare
<1>9. CASE PrimaryWithArgument
  <2>1. Argument \in Word
    BY <1>9 DEF PrimaryWithArgument, ArgumentFits
  <2>2. ptr < Len(argv)
    BY <1>1, <2>1, WordAssumption DEF Argument
  <2> QED
    BY <1>1, <1>9, <2>1, <2>2, PrimaryNode DEF PrimaryWithArgument
<1>10. CASE PrimaryBadArgument
  <2>1. ptr <= Len(argv)
    BY <1>2, <1>10 DEF PrimaryBadArgument, NULL, Primary, Bare, Numeric, Typed, Worded
  <2>2. has_action' \in {0, 1}
    BY <1>10 DEF PrimaryBadArgument, NoteAction, ParserOK
  <2> QED
    BY <1>1, <1>3, <1>10, <2>1, <2>2 DEF PrimaryBadArgument
<1> QED
  BY <1>4, <1>5, <1>6, <1>7, <1>8, <1>9, <1>10

\* A null pointer goes up.
LEMMA FailureInv ==
  ASSUME ParserInv, NullGoesUp \/ ParenUnmatched
  PROVE  ParserInv'
<1> USE DEF ParserInv
<1>1. /\ mode = "return" /\ frames # <<>> /\ frames' = Front(frames)
      /\ value' = 0 /\ mode' = "return" /\ live' \subseteq live
      /\ UNCHANGED <<argv, path_count, nodes, has_action>>
  BY DEF NullGoesUp, ParenUnmatched, Returning, Return
<1>2. ptr' \in 1..(Len(argv) + 2)
  BY TokenIsWord DEF NullGoesUp, ParenUnmatched, ParserOK
<1>3. Frames(frames', Len(nodes)) /\ CallsNest(frames')
  BY <1>1, ParserParts, FramesPop DEF Descent
<1>4. ParserOK'
  BY <1>1, <1>2, <1>3, ParserParts, ParserOKNext DEF ParserOK, Modes
<1> QED
  BY <1>1, <1>3, <1>4 DEF Descent, NoUnpossibleError, Returning

\* The calls that return a node.
LEMMA SuccessInv ==
  ASSUME ParserInv, NotDone \/ ParenDone \/ AndDone \/ OrDone
  PROVE  ParserInv'
<1> USE DEF ParserInv
<1>1. /\ mode = "return" /\ frames # <<>> /\ frames' = Front(frames)
      /\ value # 0 /\ mode' = "return"
      /\ UNCHANGED <<argv, path_count, has_action>>
  BY DEF NotDone, ParenDone, AndDone, OrDone, Returning, Return
<1>2. ptr \in 1..(Len(argv) + 1) /\ Len(argv) \in Nat
  BY <1>1, TokenIsWord DEF ParserOK
<1>3. /\ Frames(Front(frames), Len(nodes)) /\ CallsNest(Front(frames))
      /\ Front(frames) # <<>> => Last(Front(frames)).fn \in Callers(Last(frames).fn)
  BY <1>1, ParserParts, FramesPop DEF Descent
<1>4. CASE NotDone
  <2> DEFINE node == Node("not", value, 0, NULL)
  <2>1. node \in NodeType /\ node.left = value /\ node.right = 0
    BY ParserParts DEF Node, NodeType
  <2> HIDE DEF node
  <2>2. /\ nodes' = Append(nodes, node) /\ live' = live \cup {Len(nodes) + 1}
        /\ value' = Len(nodes) + 1 /\ ptr' = ptr
    BY <1>4 DEF NotDone, New, Return, node
  <2>3. /\ Ordered(nodes') /\ Len(nodes') = Len(nodes) + 1
        /\ DOMAIN nodes' = 1..(Len(nodes) + 1) /\ Len(nodes) \in Nat
    BY <2>1, <2>2, ParserParts, OrderedGrows
  <2>4. Frames(frames', Len(nodes'))
    BY <1>1, <1>3, <2>3, FramesMore
  <2>5. live' \subseteq DOMAIN nodes'
    BY <2>2, <2>3, ParserParts DEF ParserOK
  <2>6. ParserOK'
    BY <1>1, <1>2, <2>2, <2>3, <2>4, <2>5, ParserOKNext DEF ParserOK, Modes
  <2>7. frames' # <<>> => Last(frames').fn \in {"and", "not"}
    BY <1>1, <1>3, <1>4 DEF NotDone, Returning, Callers
  <2> QED
    BY <1>1, <1>3, <2>6, <2>7 DEF Descent, NoUnpossibleError, Returning
<1>5. CASE ParenDone
  <2>1. ptr <= Len(argv)
    BY <1>2, <1>5, TokenIsWord DEF ParenDone, NULL
  <2>2. ParserOK'
    BY <1>1, <1>2, <1>3, <1>5, <2>1, ParserParts, ParserOKNext DEF ParenDone, ParserOK, Modes
  <2>3. frames' # <<>> => Last(frames').fn \in {"and", "not"}
    BY <1>1, <1>3, <1>5 DEF ParenDone, Returning, Callers
  <2> QED
    BY <1>1, <1>3, <2>2, <2>3 DEF Descent, NoUnpossibleError, Returning
<1>6. ASSUME NEW op \in {"and", "or"}, Returning(op), Join(op), Return(Joined), ptr' = ptr
      PROVE  ParserOK'
  <2>1. /\ Ordered(nodes') /\ Len(nodes') \in Nat /\ Len(nodes) <= Len(nodes')
        /\ live' \subseteq DOMAIN nodes'
        /\ value' \in Nat /\ value' <= Len(nodes')
    BY <1>1, <1>6, JoinOrdered DEF Return
  <2>2. Frames(frames', Len(nodes'))
    BY <1>1, <1>3, <2>1, ParserParts, FramesMore
  <2> QED
    BY <1>1, <1>2, <1>6, <2>1, <2>2, ParserOKNext DEF ParserOK, Modes
<1>7. CASE AndDone
  <2>1. ParserOK'
    BY <1>6, <1>7 DEF AndDone
  <2>2. EndsAnd /\ Token' = Token
    BY <1>7 DEF AndDone, Token
  <2> QED
    BY <1>1, <1>3, <2>1, <2>2 DEF Descent, NoUnpossibleError, EndsAnd, EndsOr
<1>8. CASE OrDone
  <2>1. ParserOK'
    BY <1>6, <1>8 DEF OrDone
  <2>2. ASSUME frames' # <<>> PROVE Last(frames').fn = "paren"
    <3>1. Last(frames').fn \in {"main", "paren"}
      BY <1>1, <1>3, <1>8, <2>2 DEF OrDone, Returning, Callers
    <3>2. Last(frames') \in Frame
      BY <1>1, <1>3, <2>2, FrontAndLast DEF Frames
    <3> QED
      BY <3>1, <3>2 DEF Frame
  <2> QED
    BY <1>1, <1>3, <2>1, <2>2 DEF Descent, NoUnpossibleError, Returning
<1> QED
  BY <1>4, <1>5, <1>7, <1>8

\* The loops of the two lists.
LEMMA LoopInv ==
  ASSUME ParserInv, AndGoesOn \/ OrGoesOn
  PROVE  ParserInv'
<1> USE DEF ParserInv
<1>1. /\ mode = "return" /\ frames # <<>> /\ value # 0
      /\ value' = 0 /\ mode' = "expr"
      /\ UNCHANGED <<argv, path_count, has_action>>
  BY DEF AndGoesOn, OrGoesOn, Returning
<1>2. /\ Frames(Front(frames), Len(nodes)) /\ CallsNest(Front(frames))
      /\ Front(frames) # <<>> => Last(Front(frames)).fn \in Callers(Last(frames).fn)
      /\ Front(frames) = <<>> => "main" \in Callers(Last(frames).fn)
  BY <1>1, ParserParts, FramesPop DEF Descent
<1>3. ptr' \in 1..(Len(argv) + 1)
  <2>1. Token \in AndWords \cup OrWords => ptr <= Len(argv)
    BY TokenIsWord DEF AndWords, OrWords, NULL, ParserOK
  <2>2. ptr \in 1..(Len(argv) + 1) /\ Len(argv) \in Nat
    BY <1>1, TokenIsWord DEF ParserOK
  <2> QED
    BY <2>1, <2>2 DEF AndGoesOn, OrGoesOn
<1>4. ASSUME NEW op \in {"and", "or"}, Returning(op), Join(op)
      PROVE  /\ Ordered(nodes') /\ Len(nodes') \in Nat /\ live' \subseteq DOMAIN nodes'
             /\ LET e == [fn |-> op, left |-> Joined]
                    f == Append(Front(frames), e)
                IN  /\ e \in Frame /\ Frames(f, Len(nodes')) /\ CallsNest(f)
                    /\ f # <<>> /\ Last(f).fn = op
  <2> DEFINE e == [fn |-> op, left |-> Joined]
  <2>1. /\ Ordered(nodes') /\ Len(nodes') \in Nat /\ live' \subseteq DOMAIN nodes'
        /\ Len(nodes) <= Len(nodes') /\ Joined \in Nat /\ Joined <= Len(nodes')
    BY <1>1, <1>4, JoinOrdered
  <2>2. e \in Frame /\ e.left <= Len(nodes') /\ e.fn = Last(frames).fn /\ e.fn = op
    BY <1>4, <2>1 DEF Frame, Returning
  <2>3. Frames(Front(frames), Len(nodes'))
    BY <1>2, <2>1, ParserParts, FramesMore
  <2> HIDE DEF e
  <2>4. /\ Frames(Append(Front(frames), e), Len(nodes')) /\ CallsNest(Append(Front(frames), e))
        /\ Append(Front(frames), e) # <<>> /\ Last(Append(Front(frames), e)) = e
    BY <1>2, <2>1, <2>2, <2>3, FramesPush
  <2> QED
    BY <2>1, <2>2, <2>4 DEF e
<1>5. ASSUME Ordered(nodes'), live' \subseteq DOMAIN nodes', Frames(frames', Len(nodes'))
      PROVE  ParserOK'
  <2>1. Len(nodes') \in Nat
    BY <1>5 DEF Ordered
  <2> QED
    BY <1>1, <1>3, <1>5, <2>1, ParserOKNext DEF ParserOK, Modes
<1>6. CASE AndGoesOn
  <2>1. frames' = Append(Front(frames), [fn |-> "and", left |-> Joined])
    BY <1>6 DEF AndGoesOn, ListGoesOn
  <2>2. Returning("and") /\ Join("and")
    BY <1>6 DEF AndGoesOn
  <2>3. /\ ParserOK' /\ CallsNest(frames')
        /\ frames' # <<>> /\ Last(frames').fn = "and"
    BY <1>4, <1>5, <2>1, <2>2
  <2> QED
    BY <1>1, <2>3 DEF Descent, NoUnpossibleError, Returning
<1>7. CASE OrGoesOn
  <2> DEFINE f == Append(Front(frames), [fn |-> "or", left |-> Joined])
             a == Waiting("and")
  <2>1. Returning("or") /\ Join("or")
    BY <1>7 DEF OrGoesOn
  <2>2. /\ Ordered(nodes') /\ Len(nodes') \in Nat /\ live' \subseteq DOMAIN nodes'
        /\ [fn |-> "or", left |-> Joined] \in Frame
        /\ Frames(f, Len(nodes')) /\ CallsNest(f) /\ f # <<>> /\ Last(f).fn = "or"
    BY <1>4, <2>1
  <2>3. a \in Frame /\ a.left <= Len(nodes') /\ a.fn = "and" /\ "or" \in Callers(a.fn)
    BY <2>2 DEF Waiting, Frame, Callers
  <2>4. frames' = Append(f, a)
    <3>1. frames' = Front(frames) \o <<[fn |-> "or", left |-> Joined], a>>
      BY <1>7 DEF OrGoesOn
    <3>2. Front(frames) \in Seq(Frame)
      BY <1>2 DEF Frames
    <3> QED
      BY <2>2, <2>3, <3>1, <3>2
  <2> HIDE DEF f, a
  <2>5. Frames(frames', Len(nodes')) /\ CallsNest(frames') /\ frames' # <<>> /\ Last(frames') = a
    BY <2>2, <2>3, <2>4, FramesPush
  <2>6. ParserOK'
    BY <1>5, <2>2, <2>5
  <2> QED
    BY <1>1, <2>3, <2>5, <2>6 DEF Descent, NoUnpossibleError, Returning
<1> QED
  BY <1>6, <1>7

\* So does the parse as a whole.
LEMMA ParseInv ==
  ASSUME ParserInv, ParseStep
  PROVE  ParserInv'
  BY OperandsInv, ExprInv, FailureInv, SuccessInv, LoopInv DEF ParseStep

\* The walk leaves the parser as it is, but for its end, which frees the nodes.
LEMMA WalkKeepsParser ==
  ASSUME ParserInv,
         \/ UNCHANGED <<argv, parser>>
         \/ WalkEnds
         \/ GiveUp
  PROVE  ParserInv'
<1> USE DEF ParserInv
<1>1. CASE UNCHANGED <<argv, parser>>
  BY <1>1 DEF parser, ParserOK, Descent, NoUnpossibleError, Returning, Token, EndsOr
<1>2. CASE WalkEnds \/ GiveUp
  <2>1. /\ UNCHANGED <<argv, ptr, path_count, nodes, frames, value, has_action>>
        /\ mode \in {"parsed", "failed"} /\ mode' = "exited" /\ live' \subseteq live
    BY <1>2 DEF WalkEnds, GiveUp
  <2>2. ParserOK'
    BY <2>1 DEF ParserOK
  <2> QED
    BY <2>1, <2>2 DEF Descent, NoUnpossibleError, Returning
<1> QED
  BY <1>1, <1>2

-------------------------------------------------------------------------------
(***************************************************************************)
(* The walk.                                                               *)
(***************************************************************************)
WalkOK ==
  /\ Setting(setting) /\ argv = setting.argv
  /\ IsTree(tree)
  /\ operand \in Nat
  /\ stack \in Seq(Activation)
  /\ DOMAIN out \subseteq Seq(Char)
  /\ ret \in {0, 1}

\* The operands are words.
LEMMA OperandsAreWords ==
  ASSUME ParserOK
  PROVE  Operands \in Seq(Word) /\ Len(Operands) \in Nat
<1>1. CASE path_count = 0
  <2>1. "." \in Word
    BY FindAssumption
  <2>2. Operands = <<".">>
    BY <1>1 DEF Operands
  <2> QED
    BY <2>1, <2>2
<1>2. CASE path_count # 0
  <2>1. argv \in Seq(Word) /\ path_count \in 0..Len(argv) /\ Len(argv) \in Nat
    BY DEF ParserOK
  <2>2. SubSeq(argv, 1, path_count) \in Seq(Word)
    BY <1>2, <2>1
  <2>3. Operands = SubSeq(argv, 1, path_count)
    BY <1>2 DEF Operands
  <2> QED
    BY <2>2, <2>3
<1> QED
  BY <1>1, <1>2

\* A call of do_find.
LEMMA CallIsActivation ==
  ASSUME NEW path \in Path, NEW text \in Seq(Char)
  PROVE  Call(path, text) \in Activation
  BY DEF Call, Activation

\* do_find's stack while it is not empty.
LEMMA TopOfStack ==
  ASSUME WalkOK, stack # <<>>
  PROVE  /\ Front(stack) \in Seq(Activation) /\ Top \in Activation
         /\ \A act \in Activation : Append(Front(stack), act) \in Seq(Activation)
<1>1. stack \in Seq(Activation)
  BY DEF WalkOK
<1>2. Front(stack) \in Seq(Activation) /\ Last(stack) \in Activation
  BY <1>1, FrontAndLast, Zenon
<1> QED
  BY <1>2 DEF Top

\* An entry that readdir returns is spelled, and its full path too.
LEMMA EntryIsActivation ==
  ASSUME NEW act \in Activation, NEW n \in Readable(tree, act.path, act)
  PROVE  /\ [act EXCEPT !.seen = @ \cup {n}] \in Activation
         /\ n \notin Dots => Call(Append(act.path, n), FullPath(act.text, n)) \in Activation
<1>1. n \in Name \cup Dots
  BY DEF Readable, Entries, Activation
<1>2. [act EXCEPT !.seen = @ \cup {n}] \in Activation
  BY <1>1 DEF Activation
<1>3. ASSUME n \notin Dots
      PROVE  Call(Append(act.path, n), FullPath(act.text, n)) \in Activation
  <2>1. n \in Name /\ n \in Word
    BY <1>1, <1>3, FindAssumption
  <2>5. Spell[n] \in Seq(Char) /\ "/" \in Char
    BY <2>1, WordAssumption, FindAssumption
  <2>2. act.path \in Seq(Name) /\ act.text \in Seq(Char)
    BY DEF Activation, Path
  <2>3. Append(act.path, n) \in Path
    BY <2>1, <2>2 DEF Path
  <2>4. FullPath(act.text, n) \in Seq(Char)
    BY <2>1, <2>2, <2>5 DEF FullPath
  <2> QED
    BY <2>3, <2>4, CallIsActivation
<1> QED
  BY <1>2, <1>3

\* Every step of find keeps the types of the walk.
LEMMA StepWalkOK ==
  ASSUME ParserOK, WalkOK, Step
  PROVE  WalkOK'
<1>1. CASE Parse
  <2>1. argv' = argv
    BY <1>1 DEF Parse, ParseStep, SkipPath, NoExpression, BeginExpression, ParseFails, ParseSucceeds,
       ExprMissing, ExprParen, ExprNot, PrimaryUnknown, PrimaryBare, PrimaryWithArgument,
       PrimaryBadArgument, NullGoesUp, NotDone, ParenDone, ParenUnmatched,
       AndGoesOn, AndDone, OrGoesOn, OrDone
  <2> QED
    BY <1>1, <2>1 DEF Parse, walk, WalkOK
<1>2. CASE NextOperand
  <2> DEFINE w == Operands[operand + 1]
  <2>1. w \in Word
    BY <1>2, OperandsAreWords DEF NextOperand, WalkOK
  <2>2. Leads[w] \in Path /\ Spell[w] \in Seq(Char)
    BY <2>1, WordAssumption, FindAssumption
  <2>3. Call(Leads[w], Spell[w]) \in Activation
    BY <2>2, CallIsActivation
  <2>4. stack' = <<Call(Leads[w], Spell[w])>>
    BY <1>2 DEF NextOperand
  <2> HIDE DEF w
  <2>5. stack' \in Seq(Activation)
    BY <2>3, <2>4
  <2> QED
    BY <1>2, <2>5 DEF NextOperand, WalkOK
<1>3. CASE LstatFails
  BY <1>3, TopOfStack DEF LstatFails, Busy, WalkOK
<1>4. CASE LstatDone
  <2>1. stack # <<>> /\ Top.text \in Seq(Char)
    BY <1>4, TopOfStack DEF LstatDone, Busy, Activation
  <2>2. [Top EXCEPT !.at = "opendir"] \in Activation
    BY <2>1, TopOfStack DEF Activation
  <2>3. stack' \in Seq(Activation)
    BY <1>4, <2>1, <2>2, TopOfStack DEF LstatDone
  <2>4. DOMAIN out' \subseteq DOMAIN out \cup {Top.text} /\ ret' \in {0, 1}
    BY <1>4 DEF LstatDone, WalkOK
  <2> QED
    BY <1>4, <2>1, <2>3, <2>4 DEF LstatDone, WalkOK
<1>5. CASE OpendirDone
  <2>1. stack # <<>>
    BY <1>5 DEF OpendirDone, Busy
  <2>2. [Top EXCEPT !.at = "readdir", !.snap = Entries(tree, Top.path) \cup Dots] \in Activation
    BY <2>1, TopOfStack DEF Activation, Entries
  <2>3. stack' \in Seq(Activation)
    BY <1>5, <2>1, <2>2, TopOfStack DEF OpendirDone
  <2> QED
    BY <1>5, <2>3 DEF OpendirDone, WalkOK
<1>6. CASE OpendirFails
  BY <1>6, TopOfStack DEF OpendirFails, Busy, WalkOK
<1>7. CASE ReaddirEntry
  <2>1. stack # <<>>
    BY <1>7 DEF ReaddirEntry, Busy
  <2>2. PICK n \in Readable(tree, Top.path, Top) :
          LET read == Append(Front(stack), [Top EXCEPT !.seen = @ \cup {n}])
          IN  stack' = IF n \in Dots THEN read
                       ELSE Append(read, Call(Append(Top.path, n), FullPath(Top.text, n)))
    BY <1>7 DEF ReaddirEntry
  <2> DEFINE read == Append(Front(stack), [Top EXCEPT !.seen = @ \cup {n}])
             call == Call(Append(Top.path, n), FullPath(Top.text, n))
  <2>3. [Top EXCEPT !.seen = @ \cup {n}] \in Activation /\ (n \notin Dots => call \in Activation)
    BY <2>1, TopOfStack, EntryIsActivation
  <2>4. read \in Seq(Activation)
    BY <2>1, <2>3, TopOfStack
  <2>5. stack' = IF n \in Dots THEN read ELSE Append(read, call)
    BY <2>2
  <2> HIDE DEF read, call
  <2>6. stack' \in Seq(Activation)
    BY <2>3, <2>4, <2>5
  <2> QED
    BY <1>7, <2>6 DEF ReaddirEntry, WalkOK
<1>8. CASE ReaddirEnd
  BY <1>8, TopOfStack DEF ReaddirEnd, Busy, WalkOK
<1>9. CASE WalkEnds
  BY <1>9 DEF WalkEnds, walk, WalkOK
<1>10. CASE GiveUp
  BY <1>10 DEF GiveUp, WalkOK
<1> QED
  BY <1>1, <1>2, <1>3, <1>4, <1>5, <1>6, <1>7, <1>8, <1>9, <1>10 DEF Step

\* So does another program.
LEMMA OthersWalkOK ==
  ASSUME WalkOK, NEW q \in setting.fresh, Create(q) \/ Vanish(q)
  PROVE  WalkOK'
<1>1. CASE Create(q)
  <2>1. q \in Path
    BY DEF WalkOK, Setting
  <2>2. PICK node \in {Dir, File(0)} : tree' = With(tree, q, node)
    BY <1>1 DEF Create
  <2>3. IsTree(tree')
    BY <1>1, <2>1, <2>2, WithIsTree DEF WalkOK, Create, Dir, File
  <2> QED
    BY <1>1, <2>3 DEF WalkOK, Create
<1>2. CASE Vanish(q)
  <2>1. IsTree(tree')
    BY <1>2, WithoutIsTree DEF WalkOK, Vanish
  <2> QED
    BY <1>2, <2>1 DEF WalkOK, Vanish
<1> QED
  BY <1>1, <1>2

Inv == ParserInv /\ WalkOK

\* It holds at the start.
LEMMA InitInv == Init => Inv
<1> SUFFICES ASSUME Init PROVE Inv
  OBVIOUS
<1>1. WalkOK
  BY FindAssumption DEF Init, WalkOK, Setting
<1>2. argv \in Seq(Word) /\ Len(argv) \in Nat
  BY <1>1 DEF WalkOK, Setting
<1>3. ParserOK
  BY <1>2 DEF Init, ParseInit, ParserOK
<1>4. Descent
  BY DEF Init, ParseInit, Descent, CallsNest, NoUnpossibleError, Returning
<1> QED
  BY <1>1, <1>3, <1>4 DEF Inv, ParserInv

\* And every step keeps it.
LEMMA NextInv == Inv /\ [Next]_vars => Inv'
<1> SUFFICES ASSUME Inv, [Next]_vars PROVE Inv'
  OBVIOUS
<1> USE DEF Inv
<1>1. CASE Step
  <2>1. WalkOK'
    BY <1>1, StepWalkOK DEF ParserInv
  <2>2. CASE Parse
    BY <2>1, <2>2, ParseInv DEF Parse
  <2>3. CASE ~Parse
    <3>1. UNCHANGED <<argv, parser>> \/ WalkEnds \/ GiveUp
      BY <1>1, <2>3 DEF Step, NextOperand, LstatFails, LstatDone, OpendirDone, OpendirFails,
         ReaddirEntry, ReaddirEnd
    <3> QED
      BY <2>1, <3>1, WalkKeepsParser
  <2> QED
    BY <2>2, <2>3
<1>2. CASE \E q \in setting.fresh : Create(q) \/ Vanish(q)
  <2>1. PICK q \in setting.fresh : Create(q) \/ Vanish(q)
    BY <1>2
  <2>2. UNCHANGED <<argv, parser>>
    BY <2>1 DEF Create, Vanish
  <2> QED
    BY <2>1, <2>2, OthersWalkOK, WalkKeepsParser
<1>3. CASE UNCHANGED vars
  <2>1. UNCHANGED <<argv, parser>> /\ UNCHANGED walk
    BY <1>3 DEF vars
  <2> QED
    BY <2>1, WalkKeepsParser DEF walk, WalkOK
<1> QED
  BY <1>1, <1>2, <1>3 DEF Next, Done

\* The parser's pointer stays in argv and its NULL until the parse is about to fail,
\* the nodes have no cycle, the tree stays a tree, and the status is 0 or 1.
THEOREM TypeCorrect == Spec => []TypeOK
<1>1. Inv => TypeOK
  BY DEF Inv, ParserInv, WalkOK, TypeOK
<1> QED
  BY <1>1, InitInv, NextInv, PTL DEF Spec

\* "unpossible error" (line 283) is never printed, whatever the command line.
THEOREM ErrorIsUnpossible == Spec => []NoUnpossibleError
<1>1. Inv => NoUnpossibleError
  BY DEF Inv, ParserInv, Descent
<1> QED
  BY <1>1, InitInv, NextInv, PTL DEF Spec

-------------------------------------------------------------------------------
(***************************************************************************)
(* Recursion over the nodes.  free_node and check_node call themselves for *)
(* the children of a node, which are older.  What such a call computes is  *)
(* a function of what it computes for the children, and here H is any such *)
(* function.                                                               *)
(***************************************************************************)
Combine(ns, V) == [(1..Len(ns)) \X V \X V -> V]
Follows(f, ns, z, H) ==
  /\ f[0] = z
  /\ \A k \in 1..Len(ns) : f[k] = H[<<k, f[ns[k].left], f[ns[k].right]>>]

\* There is a function that follows H from the oldest node on.
LEMMA NodeRecursion ==
  ASSUME NEW ns, Ordered(ns), NEW V, NEW z \in V, NEW H \in Combine(ns, V)
  PROVE  \E f \in [0..Len(ns) -> V] : Follows(f, ns, z, H)
<1> DEFINE Good(m) == \E f \in [0..m -> V] :
                        /\ f[0] = z
                        /\ \A k \in 1..m : f[k] = H[<<k, f[ns[k].left], f[ns[k].right]>>]
           T == {m \in Nat : m <= Len(ns) => Good(m)}
<1>0. /\ Len(ns) \in Nat
      /\ \A k \in 1..Len(ns) : /\ ns[k].left \in Nat /\ ns[k].right \in Nat
                               /\ ns[k].left < k /\ ns[k].right < k
  <2>1. ns \in Seq(NodeType)
    BY DEF Ordered
  <2>2. Len(ns) \in Nat /\ DOMAIN ns = 1..Len(ns) /\ \A k \in 1..Len(ns) : ns[k] \in NodeType
    BY <2>1
  <2>3. \A x \in NodeType : x.left \in Nat /\ x.right \in Nat
    BY DEF NodeType
  <2> QED
    BY <2>2, <2>3 DEF Ordered
<1>1. 0 \in T
  <2> DEFINE f == [k \in 0..0 |-> z]
  <2>1. f \in [0..0 -> V] /\ f[0] = z
    OBVIOUS
  <2>2. \A k \in 1..0 : FALSE
    OBVIOUS
  <2> HIDE DEF f
  <2>3. Good(0)
    BY <2>1, <2>2, Zenon
  <2> HIDE DEF Good
  <2> QED
    BY <2>3
<1>2. ASSUME NEW m \in Nat, m \in T PROVE m + 1 \in T
  <2> SUFFICES ASSUME m + 1 <= Len(ns) PROVE Good(m + 1)
    <3> HIDE DEF Good
    <3> QED
      OBVIOUS
  <2> DEFINE l == ns[m + 1].left
             r == ns[m + 1].right
  <2>0. m <= Len(ns) /\ m + 1 \in 1..Len(ns) /\ l \in 0..m /\ r \in 0..m
    BY <1>0
  <2>1. PICK f \in [0..m -> V] :
               /\ f[0] = z
               /\ \A k \in 1..m : f[k] = H[<<k, f[ns[k].left], f[ns[k].right]>>]
    BY <1>2, <2>0
  <2> DEFINE next == H[<<m + 1, f[l], f[r]>>]
             g == [k \in 0..(m + 1) |-> IF k = m + 1 THEN next ELSE f[k]]
  <2>2. next \in V
    <3>1. <<m + 1, f[l], f[r]>> \in (1..Len(ns)) \X V \X V
      BY <2>0
    <3> QED
      BY <3>1 DEF Combine
  <2>3. \A k \in 0..m : g[k] = f[k]
    <3> HIDE DEF next
    <3>1. \A k \in 0..m : k \in 0..(m + 1) /\ k # m + 1
      OBVIOUS
    <3> QED
      BY <3>1
  <2>4. g[m + 1] = next
    <3> HIDE DEF next
    <3> QED
      OBVIOUS
  <2>5. g \in [0..(m + 1) -> V]
    <3> HIDE DEF next
    <3> QED
      BY <2>2
  <2> HIDE DEF g, l, r
  <2>6. ASSUME NEW k \in 1..(m + 1)
        PROVE  g[k] = H[<<k, g[ns[k].left], g[ns[k].right]>>]
    <3>1. CASE k = m + 1
      <4>1. g[l] = f[l] /\ g[r] = f[r]
        BY <2>0, <2>3
      <4> QED
        BY <2>4, <3>1, <4>1 DEF l, r
    <3>2. CASE k \in 1..m
      <4>1. ns[k].left \in 0..m /\ ns[k].right \in 0..m /\ k \in 0..m
        BY <1>0, <2>0, <3>2
      <4>2. g[k] = f[k] /\ g[ns[k].left] = f[ns[k].left] /\ g[ns[k].right] = f[ns[k].right]
        BY <2>3, <4>1
      <4> QED
        BY <2>1, <3>2, <4>2
    <3> QED
      BY <3>1, <3>2
  <2>7. g[0] = z
    BY <2>1, <2>3
  <2> QED
    BY <2>5, <2>6, <2>7
<1>3. Good(Len(ns))
  <2> HIDE DEF Good
  <2>1. Nat \subseteq T
    <3> HIDE DEF T
    <3> QED
      BY <1>1, <1>2, InductionOnSet
  <2> QED
    BY <1>0, <2>1
<1>4. PICK f \in [0..Len(ns) -> V] :
        /\ f[0] = z
        /\ \A k \in 1..Len(ns) : f[k] = H[<<k, f[ns[k].left], f[ns[k].right]>>]
  BY <1>3, Zenon
<1>5. Follows(f, ns, z, H)
  BY <1>4 DEF Follows
<1> QED
  BY <1>5

(***************************************************************************)
(* The nodes below a node.                                                 *)
(***************************************************************************)
Sub(ns, n) ==
  LET below[k \in 0..Len(ns)] ==
        IF k = 0 THEN {} ELSE {k} \cup below[ns[k].left] \cup below[ns[k].right]
  IN  below[n]

\* Sub is what its recursion says.
LEMMA SubIs ==
  ASSUME NEW ns, Ordered(ns)
  PROVE  /\ Sub(ns, 0) = {}
         /\ \A k \in 1..Len(ns) :
              Sub(ns, k) = {k} \cup Sub(ns, ns[k].left) \cup Sub(ns, ns[k].right)
<1> DEFINE n == Len(ns)
           V == SUBSET Nat
           H == [t \in (1..n) \X V \X V |-> {t[1]} \cup t[2] \cup t[3]]
           Rec(g) == [k \in 0..n |-> IF k = 0 THEN {} ELSE {k} \cup g[ns[k].left] \cup g[ns[k].right]]
           h == CHOOSE g : g = Rec(g)
<1>0. /\ n \in Nat /\ ns \in Seq(NodeType)
      /\ \A k \in 1..n : ns[k].left \in 0..n /\ ns[k].right \in 0..n
  <2>1. ns \in Seq(NodeType)
    BY DEF Ordered
  <2>2. Len(ns) \in Nat /\ DOMAIN ns = 1..Len(ns) /\ \A k \in 1..Len(ns) : ns[k] \in NodeType
    BY <2>1
  <2>3. \A x \in NodeType : x.left \in Nat /\ x.right \in Nat
    BY DEF NodeType
  <2> QED
    BY <2>1, <2>2, <2>3 DEF Ordered
<1>1. H \in [(1..n) \X V \X V -> V]
  <2>1. \A t \in (1..n) \X V \X V : {t[1]} \cup t[2] \cup t[3] \in V
    BY <1>0
  <2> QED
    BY <2>1
<1> DEFINE z == {}
<1>2. PICK f \in [0..n -> V] :
        /\ f[0] = {}
        /\ \A k \in 1..n : f[k] = H[<<k, f[ns[k].left], f[ns[k].right]>>]
  <2>1. z \in V /\ H \in Combine(ns, V)
    BY <1>1 DEF Combine
  <2> HIDE DEF H, V, z
  <2>2. \E f \in [0..Len(ns) -> V] : Follows(f, ns, z, H)
    BY <2>1, NodeRecursion
  <2> QED
    BY <2>2 DEF Follows, z
<1>3. f = Rec(f)
  <2>1. ASSUME NEW k \in 1..n PROVE f[k] = {k} \cup f[ns[k].left] \cup f[ns[k].right]
    <3>1. f[ns[k].left] \in V /\ f[ns[k].right] \in V
      BY <1>0, <1>2
    <3> DEFINE x == f[ns[k].left]
               y == f[ns[k].right]
    <3> HIDE DEF x, y
    <3>2. <<k, x, y>> \in (1..n) \X V \X V
      BY <3>1 DEF x, y
    <3>3. H[<<k, x, y>>] = {k} \cup x \cup y
      BY <3>2
    <3> QED
      BY <1>2, <3>3 DEF x, y
  <2>2. \A k \in 0..n : k = 0 \/ k \in 1..n
    BY <1>0
  <2> HIDE DEF H, V
  <2> QED
    BY <1>2, <2>1, <2>2
<1>4. h = Rec(h)
  <2> HIDE DEF Rec
  <2> QED
    BY <1>3
<1>5. \A k \in 0..n : Sub(ns, k) = h[k]
  BY DEF Sub
<1> HIDE DEF h
<1>6. \A k \in 0..n : h[k] = IF k = 0 THEN {} ELSE {k} \cup h[ns[k].left] \cup h[ns[k].right]
  BY <1>4
<1>7. \A k \in 1..n : k \in 0..n /\ k # 0
  BY <1>0
<1>8. 0 \in 0..n
  BY <1>0
<1> QED
  BY <1>0, <1>5, <1>6, <1>7, <1>8

\* Subtree is Sub of the nodes there are.
LEMMA SubtreeIs == \A n : Subtree(n) = Sub(nodes, n)
  BY DEF Subtree, Sub

\* The children of a node are numbers of older ones, or 0.
LEMMA Children ==
  ASSUME NEW ns, Ordered(ns)
  PROVE  /\ Len(ns) \in Nat /\ DOMAIN ns = 1..Len(ns)
         /\ \A k \in 1..Len(ns) : /\ ns[k] \in NodeType
                                  /\ ns[k].left \in 0..(k - 1) /\ ns[k].right \in 0..(k - 1)
<1>1. ns \in Seq(NodeType)
  BY DEF Ordered
<1>2. Len(ns) \in Nat /\ DOMAIN ns = 1..Len(ns) /\ \A k \in 1..Len(ns) : ns[k] \in NodeType
  BY <1>1
<1>3. \A x \in NodeType : x.left \in Nat /\ x.right \in Nat
  BY DEF NodeType
<1> QED
  BY <1>2, <1>3 DEF Ordered

\* What hangs on a node is no younger than it.
LEMMA SubBelow ==
  ASSUME NEW ns, Ordered(ns), NEW k \in 0..Len(ns)
  PROVE  Sub(ns, k) \subseteq 1..k
<1> DEFINE Good(m) == \A j \in 0..m : Sub(ns, j) \subseteq 1..j
           T == {m \in Nat : m <= Len(ns) => Good(m)}
<1>0. Len(ns) \in Nat
  BY Children
<1>1. 0 \in T
  <2>1. \A j \in 0..0 : j = 0
    OBVIOUS
  <2> QED
    BY <2>1, SubIs
<1>2. ASSUME NEW m \in Nat, m \in T PROVE m + 1 \in T
  <2> SUFFICES ASSUME m + 1 <= Len(ns) PROVE Good(m + 1)
    OBVIOUS
  <2> DEFINE l == ns[m + 1].left
             r == ns[m + 1].right
  <2>1. Good(m) /\ m + 1 \in 1..Len(ns)
    BY <1>0, <1>2
  <2>2. l \in 0..m /\ r \in 0..m
    BY <2>1, Children
  <2>3. Sub(ns, m + 1) = {m + 1} \cup Sub(ns, l) \cup Sub(ns, r)
    BY <2>1, SubIs
  <2> HIDE DEF l, r
  <2>4. Sub(ns, l) \subseteq 1..l /\ Sub(ns, r) \subseteq 1..r
    BY <2>1, <2>2
  <2>5. 1..l \subseteq 1..(m + 1) /\ 1..r \subseteq 1..(m + 1) /\ m + 1 \in 1..(m + 1)
    BY <2>2
  <2>6. Sub(ns, m + 1) \subseteq 1..(m + 1)
    BY <2>3, <2>4, <2>5
  <2>7. \A j \in 0..(m + 1) : j \in 0..m \/ j = m + 1
    OBVIOUS
  <2> QED
    BY <2>1, <2>6, <2>7
<1>3. Nat \subseteq T
  <2> HIDE DEF T
  <2> QED
    BY <1>1, <1>2, InductionOnSet
<1>4. Len(ns) \in T
  <2> HIDE DEF T
  <2> QED
    BY <1>0, <1>3
<1> QED
  BY <1>0, <1>4

\* A new node changes nothing below the nodes that are there.
LEMMA SubKept ==
  ASSUME NEW ns, Ordered(ns), NEW node \in NodeType, node.left <= Len(ns), node.right <= Len(ns)
  PROVE  LET more == Append(ns, node)
         IN  /\ \A k \in 0..Len(ns) : Sub(more, k) = Sub(ns, k)
             /\ Sub(more, Len(ns) + 1) = {Len(ns) + 1} \cup Sub(ns, node.left) \cup Sub(ns, node.right)
<1> DEFINE more == Append(ns, node)
           n == Len(ns)
           Good(m) == \A j \in 0..m : Sub(more, j) = Sub(ns, j)
           T == {m \in Nat : m <= n => Good(m)}
<1>0. /\ n \in Nat /\ Ordered(more) /\ Len(more) = n + 1
      /\ \A k \in 1..n : more[k] = ns[k]
      /\ more[n + 1] = node
  <2>1. ns \in Seq(NodeType)
    BY DEF Ordered
  <2>2. Ordered(more)
    BY OrderedGrows
  <2> QED
    BY <2>1, <2>2
<1> HIDE DEF more
<1>1. 0 \in T
  <2>1. \A j \in 0..0 : j = 0
    OBVIOUS
  <2> QED
    BY <1>0, <2>1, SubIs
<1>2. ASSUME NEW m \in Nat, m \in T PROVE m + 1 \in T
  <2> SUFFICES ASSUME m + 1 <= n PROVE Good(m + 1)
    OBVIOUS
  <2> DEFINE l == ns[m + 1].left
             r == ns[m + 1].right
  <2>1. Good(m) /\ m + 1 \in 1..n /\ m + 1 \in 1..Len(more)
    BY <1>0, <1>2
  <2>2. l \in 0..m /\ r \in 0..m
    BY <2>1, Children
  <2>3. Sub(ns, m + 1) = {m + 1} \cup Sub(ns, l) \cup Sub(ns, r)
    BY <2>1, SubIs
  <2>4. Sub(more, m + 1) = {m + 1} \cup Sub(more, l) \cup Sub(more, r)
    BY <1>0, <2>1, SubIs
  <2> HIDE DEF l, r
  <2>5. Sub(ns, l) = Sub(more, l) /\ Sub(ns, r) = Sub(more, r)
    BY <2>1, <2>2
  <2>6. Sub(more, m + 1) = Sub(ns, m + 1)
    BY <2>3, <2>4, <2>5
  <2>7. \A j \in 0..(m + 1) : j \in 0..m \/ j = m + 1
    OBVIOUS
  <2> QED
    BY <2>1, <2>6, <2>7
<1>3. Nat \subseteq T
  <2> HIDE DEF T
  <2> QED
    BY <1>1, <1>2, InductionOnSet
<1>4. Good(n)
  <2> HIDE DEF Good
  <2>1. n \in T
    <3> HIDE DEF T
    <3> QED
      BY <1>0, <1>3
  <2> QED
    BY <1>0, <2>1
<1>5. node.left \in 0..n /\ node.right \in 0..n
  BY <1>0 DEF NodeType
<1>6. Sub(more, n + 1) = {n + 1} \cup Sub(more, node.left) \cup Sub(more, node.right)
  BY <1>0, SubIs
<1>7. Sub(more, n + 1) = {n + 1} \cup Sub(ns, node.left) \cup Sub(ns, node.right)
  BY <1>4, <1>5, <1>6
<1> QED
  BY <1>4, <1>7 DEF more

(***************************************************************************)
(* The heap: the nodes lv are those that hang on a node which an           *)
(* activation waits with, or on v, each on one of them and in one place.   *)
(***************************************************************************)
Apart(ns, n) == Sub(ns, ns[n].left) \cap Sub(ns, ns[n].right) = {}

Held(ns, lv, f, v) ==
  /\ \A n \in lv : n \in Sub(ns, v) \/ \E k \in DOMAIN f : n \in Sub(ns, f[k].left)
  /\ Sub(ns, v) \subseteq lv /\ \A k \in DOMAIN f : Sub(ns, f[k].left) \subseteq lv
  /\ \A k \in DOMAIN f : Sub(ns, v) \cap Sub(ns, f[k].left) = {}
  /\ \A j, k \in DOMAIN f : j # k => Sub(ns, f[j].left) \cap Sub(ns, f[k].left) = {}
  /\ \A n \in lv : Apart(ns, n)

\* An activation begins to wait with v.
LEMMA HeldPush ==
  ASSUME NEW ns, Ordered(ns), NEW lv, NEW f \in Seq(Frame), NEW v, NEW e \in Frame, e.left = v,
         Held(ns, lv, f, v)
  PROVE  Held(ns, lv, Append(f, e), 0)
<1> DEFINE g == Append(f, e)
<1>1. /\ Len(f) \in Nat /\ DOMAIN f = 1..Len(f) /\ DOMAIN g = 1..(Len(f) + 1)
      /\ \A k \in 1..Len(f) : g[k] = f[k]
      /\ g[Len(f) + 1] = e
  OBVIOUS
<1> HIDE DEF g
<1>2. /\ \A k \in DOMAIN g : k \in DOMAIN f \/ k = Len(f) + 1
      /\ \A k \in DOMAIN f : k \in DOMAIN g /\ g[k] = f[k] /\ k # Len(f) + 1
      /\ Len(f) + 1 \in DOMAIN g /\ g[Len(f) + 1].left = v
  BY <1>1
<1>3. Sub(ns, 0) = {}
  BY SubIs
<1> HIDE DEF g
<1>4. \A n \in lv : \E k \in DOMAIN g : n \in Sub(ns, g[k].left)
  BY <1>2 DEF Held
<1>5. \A k \in DOMAIN g : Sub(ns, g[k].left) \subseteq lv
  BY <1>2 DEF Held
<1>6. \A j, k \in DOMAIN g : j # k => Sub(ns, g[j].left) \cap Sub(ns, g[k].left) = {}
  <2> SUFFICES ASSUME NEW j \in DOMAIN g, NEW k \in DOMAIN g, j # k
               PROVE  Sub(ns, g[j].left) \cap Sub(ns, g[k].left) = {}
    OBVIOUS
  <2>1. CASE j \in DOMAIN f /\ k \in DOMAIN f
    BY <1>2, <2>1 DEF Held
  <2>2. CASE j = Len(f) + 1 /\ k \in DOMAIN f
    BY <1>2, <2>2 DEF Held
  <2>3. CASE j \in DOMAIN f /\ k = Len(f) + 1
    BY <1>2, <2>3 DEF Held
  <2> QED
    BY <1>2, <2>1, <2>2, <2>3
<1>7. \A n \in lv : Apart(ns, n)
  BY DEF Held
<1> QED
  BY <1>3, <1>4, <1>5, <1>6, <1>7 DEF Held, g

\* An activation returns, and what it has waited with is what is looked at.
LEMMA HeldPop ==
  ASSUME NEW ns, Ordered(ns), NEW lv, NEW f \in Seq(Frame), f # <<>>, Held(ns, lv, f, 0)
  PROVE  Held(ns, lv, Front(f), Last(f).left)
<1> DEFINE g == Front(f)
           v == Last(f).left
           m == Len(f)
<1>1. /\ m \in Nat /\ m >= 1 /\ DOMAIN f = 1..m /\ DOMAIN g = 1..(m - 1)
      /\ \A k \in 1..(m - 1) : g[k] = f[k]
      /\ v = f[m].left
  BY FrontAndLast DEF Last
<1>2. /\ \A k \in DOMAIN f : k \in DOMAIN g \/ k = m
      /\ \A k \in DOMAIN g : k \in DOMAIN f /\ g[k] = f[k] /\ k # m
      /\ m \in DOMAIN f /\ f[m].left = v
  BY <1>1
<1>3. Sub(ns, 0) = {}
  BY SubIs
<1> HIDE DEF g, v, m
<1>4. \A n \in lv : n \in Sub(ns, v) \/ \E k \in DOMAIN g : n \in Sub(ns, g[k].left)
  <2> SUFFICES ASSUME NEW n \in lv, n \notin Sub(ns, v)
               PROVE  \E k \in DOMAIN g : n \in Sub(ns, g[k].left)
    OBVIOUS
  <2>1. PICK k \in DOMAIN f : n \in Sub(ns, f[k].left)
    BY <1>3 DEF Held
  <2>2. k # m
    BY <1>2, <2>1
  <2> QED
    BY <1>2, <2>1, <2>2
<1>5. Sub(ns, v) \subseteq lv /\ \A k \in DOMAIN g : Sub(ns, g[k].left) \subseteq lv
  BY <1>2 DEF Held
<1>6. \A k \in DOMAIN g : Sub(ns, v) \cap Sub(ns, g[k].left) = {}
  BY <1>2 DEF Held
<1>7. \A j, k \in DOMAIN g : j # k => Sub(ns, g[j].left) \cap Sub(ns, g[k].left) = {}
  BY <1>2 DEF Held
<1>8. \A n \in lv : Apart(ns, n)
  BY DEF Held
<1> QED
  BY <1>4, <1>5, <1>6, <1>7, <1>8 DEF Held, g, v

\* An activation that has waited with nothing returns.
LEMMA HeldDrop ==
  ASSUME NEW ns, Ordered(ns), NEW lv, NEW f \in Seq(Frame), f # <<>>, Last(f).left = 0,
         NEW v, Held(ns, lv, f, v)
  PROVE  Held(ns, lv, Front(f), v)
<1> DEFINE g == Front(f)
           m == Len(f)
<1>1. /\ m \in Nat /\ m >= 1 /\ DOMAIN f = 1..m /\ DOMAIN g = 1..(m - 1)
      /\ \A k \in 1..(m - 1) : g[k] = f[k]
      /\ f[m].left = 0
  BY FrontAndLast DEF Last
<1>2. /\ \A k \in DOMAIN f : k \in DOMAIN g \/ k = m
      /\ \A k \in DOMAIN g : k \in DOMAIN f /\ g[k] = f[k]
      /\ f[m].left = 0
  BY <1>1
<1>3. Sub(ns, 0) = {}
  BY SubIs
<1> HIDE DEF g, m
<1>4. ASSUME NEW n \in lv, n \notin Sub(ns, v) PROVE \E k \in DOMAIN g : n \in Sub(ns, g[k].left)
  <2>1. PICK k \in DOMAIN f : n \in Sub(ns, f[k].left)
    BY <1>4 DEF Held
  <2>2. k # m
    BY <1>2, <1>3, <2>1
  <2> QED
    BY <1>2, <2>1, <2>2
<1>5. \A k \in DOMAIN g : Sub(ns, g[k].left) \subseteq lv /\ Sub(ns, v) \cap Sub(ns, g[k].left) = {}
  BY <1>2 DEF Held
<1>6. \A j, k \in DOMAIN g : j # k => Sub(ns, g[j].left) \cap Sub(ns, g[k].left) = {}
  BY <1>2 DEF Held
<1>7. Sub(ns, v) \subseteq lv /\ \A n \in lv : Apart(ns, n)
  BY DEF Held
<1> QED
  BY <1>4, <1>5, <1>6, <1>7 DEF Held, g

\* free_node(v).
LEMMA HeldFree ==
  ASSUME NEW ns, Ordered(ns), NEW lv, NEW f, NEW v, Held(ns, lv, f, v)
  PROVE  Held(ns, lv \ Sub(ns, v), f, 0)
<1>1. Sub(ns, 0) = {}
  BY SubIs
<1>2. \A n \in lv \ Sub(ns, v) : \E k \in DOMAIN f : n \in Sub(ns, f[k].left)
  BY DEF Held
<1>3. \A k \in DOMAIN f : Sub(ns, f[k].left) \subseteq lv \ Sub(ns, v)
  BY DEF Held
<1>4. \A j, k \in DOMAIN f : j # k => Sub(ns, f[j].left) \cap Sub(ns, f[k].left) = {}
  BY DEF Held
<1>5. \A n \in lv \ Sub(ns, v) : Apart(ns, n)
  BY DEF Held
<1> QED
  BY <1>1, <1>2, <1>3, <1>4, <1>5 DEF Held

\* A new node is made over what is looked at, and perhaps what an activation that
\* returns has waited with.
LEMMA HeldNode ==
  ASSUME NEW ns, Ordered(ns), NEW lv, lv \subseteq 1..Len(ns), NEW g, Frames(g, Len(ns)),
         NEW node \in NodeType, node.left <= Len(ns), node.right <= Len(ns),
         \A n \in lv : \/ n \in Sub(ns, node.left) \/ n \in Sub(ns, node.right)
                       \/ \E k \in DOMAIN g : n \in Sub(ns, g[k].left),
         Sub(ns, node.left) \subseteq lv, Sub(ns, node.right) \subseteq lv,
         \A k \in DOMAIN g : /\ Sub(ns, g[k].left) \subseteq lv
                             /\ Sub(ns, node.left) \cap Sub(ns, g[k].left) = {}
                             /\ Sub(ns, node.right) \cap Sub(ns, g[k].left) = {},
         \A j, k \in DOMAIN g : j # k => Sub(ns, g[j].left) \cap Sub(ns, g[k].left) = {},
         Sub(ns, node.left) \cap Sub(ns, node.right) = {},
         \A n \in lv : Apart(ns, n)
  PROVE  Held(Append(ns, node), lv \cup {Len(ns) + 1}, g, Len(ns) + 1)
<1> DEFINE more == Append(ns, node)
           n1 == Len(ns) + 1
<1>1. /\ \A k \in 0..Len(ns) : Sub(more, k) = Sub(ns, k)
      /\ Sub(more, n1) = {n1} \cup Sub(ns, node.left) \cup Sub(ns, node.right)
  BY SubKept
<1>2. /\ Len(ns) \in Nat /\ \A k \in 1..Len(ns) : more[k] = ns[k]
      /\ more[n1] = node /\ n1 \notin lv
      /\ \A n \in lv : /\ ns[n].left \in 0..Len(ns) /\ ns[n].right \in 0..Len(ns)
                       /\ n \in 1..Len(ns)
  <2>1. ns \in Seq(NodeType) /\ Len(ns) \in Nat
    BY DEF Ordered
  <2>2. /\ \A k \in 1..Len(ns) : more[k] = ns[k]
        /\ more[n1] = node
    BY <2>1
  <2>3. \A k \in 1..Len(ns) : ns[k].left \in 0..Len(ns) /\ ns[k].right \in 0..Len(ns)
    <3>1. ASSUME NEW k \in 1..Len(ns) PROVE ns[k].left \in 0..Len(ns) /\ ns[k].right \in 0..Len(ns)
      <4>1. ns[k].left \in 0..(k - 1) /\ ns[k].right \in 0..(k - 1)
        BY Children
      <4> QED
        BY <2>1, <4>1
    <3> QED
      BY <3>1
  <2>4. n1 \notin 1..Len(ns)
    BY <2>1
  <2> QED
    BY <2>1, <2>2, <2>3, <2>4
<1>3. \A k \in DOMAIN g : Sub(more, g[k].left) = Sub(ns, g[k].left)
  <2>1. \A k \in DOMAIN g : g[k] \in Frame
    BY DEF Frames
  <2>2. \A k \in DOMAIN g : g[k].left \in 0..Len(ns)
    BY <1>2, <2>1 DEF Frames, Frame
  <2> QED
    BY <1>1, <2>2
<1>4. node.left \in 0..Len(ns) /\ node.right \in 0..Len(ns)
  BY <1>2 DEF NodeType
<1>5. \A n \in lv \cup {n1} : Apart(more, n)
  <2>1. ASSUME NEW n \in lv PROVE Apart(more, n)
    <3>1. more[n] = ns[n] /\ Sub(more, ns[n].left) = Sub(ns, ns[n].left)
                          /\ Sub(more, ns[n].right) = Sub(ns, ns[n].right)
      BY <1>1, <1>2
    <3>2. Apart(ns, n)
      OBVIOUS
    <3> HIDE DEF more
    <3> QED
      BY <3>1, <3>2 DEF Apart
  <2>2. Apart(more, n1)
    <3>1. more[n1] = node /\ Sub(more, node.left) = Sub(ns, node.left)
                          /\ Sub(more, node.right) = Sub(ns, node.right)
      BY <1>1, <1>2, <1>4
    <3> HIDE DEF more, n1
    <3> QED
      BY <3>1 DEF Apart
  <2> QED
    BY <2>1, <2>2
<1>6. \A k \in DOMAIN g : n1 \notin Sub(ns, g[k].left)
  BY <1>2
<1> HIDE DEF more, n1
<1>7. \A n \in lv \cup {n1} : n \in Sub(more, n1) \/ \E k \in DOMAIN g : n \in Sub(more, g[k].left)
  BY <1>1, <1>3
<1>8. /\ Sub(more, n1) \subseteq lv \cup {n1}
      /\ \A k \in DOMAIN g : Sub(more, g[k].left) \subseteq lv \cup {n1}
      /\ \A k \in DOMAIN g : Sub(more, n1) \cap Sub(more, g[k].left) = {}
      /\ \A j, k \in DOMAIN g : j # k => Sub(more, g[j].left) \cap Sub(more, g[k].left) = {}
  BY <1>1, <1>3, <1>6
<1>9. Held(more, lv \cup {n1}, g, n1)
  BY <1>5, <1>7, <1>8 DEF Held
<1> QED
  BY <1>9 DEF more, n1

\* A node over what is looked at, or a leaf.
LEMMA HeldNew ==
  ASSUME NEW ns, Ordered(ns), NEW lv, lv \subseteq 1..Len(ns), NEW f, Frames(f, Len(ns)),
         NEW node \in NodeType, node.left <= Len(ns), node.right = 0,
         Held(ns, lv, f, node.left)
  PROVE  Held(Append(ns, node), lv \cup {Len(ns) + 1}, f, Len(ns) + 1)
<1>1. Sub(ns, 0) = {} /\ Len(ns) \in Nat
  BY SubIs, Children
<1>2. node.right <= Len(ns) /\ Sub(ns, node.right) = {}
  BY <1>1
<1>3. /\ \A n \in lv : \/ n \in Sub(ns, node.left) \/ n \in Sub(ns, node.right)
                       \/ \E k \in DOMAIN f : n \in Sub(ns, f[k].left)
      /\ Sub(ns, node.left) \subseteq lv /\ Sub(ns, node.right) \subseteq lv
      /\ \A k \in DOMAIN f : /\ Sub(ns, f[k].left) \subseteq lv
                             /\ Sub(ns, node.left) \cap Sub(ns, f[k].left) = {}
                             /\ Sub(ns, node.right) \cap Sub(ns, f[k].left) = {}
      /\ \A j, k \in DOMAIN f : j # k => Sub(ns, f[j].left) \cap Sub(ns, f[k].left) = {}
      /\ Sub(ns, node.left) \cap Sub(ns, node.right) = {}
      /\ \A n \in lv : Apart(ns, n)
  BY <1>2 DEF Held
<1> QED
  BY <1>2, <1>3, HeldNode

\* A node over what the innermost activation has waited with and what is looked at.
LEMMA HeldJoin ==
  ASSUME NEW ns, Ordered(ns), NEW lv, lv \subseteq 1..Len(ns), NEW f, Frames(f, Len(ns)), f # <<>>,
         NEW node \in NodeType, node.left = Last(f).left, node.right <= Len(ns),
         Held(ns, lv, f, node.right)
  PROVE  Held(Append(ns, node), lv \cup {Len(ns) + 1}, Front(f), Len(ns) + 1)
<1> DEFINE g == Front(f)
           m == Len(f)
<1>1. /\ m \in Nat /\ m >= 1 /\ DOMAIN f = 1..m /\ DOMAIN g = 1..(m - 1) /\ g \in Seq(Frame)
      /\ \A k \in 1..(m - 1) : g[k] = f[k]
      /\ f[m].left = node.left
  BY FrontAndLast DEF Last, Frames
<1>2. /\ \A k \in DOMAIN f : k \in DOMAIN g \/ k = m
      /\ \A k \in DOMAIN g : k \in DOMAIN f /\ g[k] = f[k] /\ k # m
      /\ m \in DOMAIN f /\ f[m].left = node.left
  BY <1>1
<1>3. g \in Seq(Frame)
  BY <1>1
<1> HIDE DEF g, m
<1>4. Frames(g, Len(ns)) /\ node.left <= Len(ns)
  BY <1>2, <1>3 DEF Frames
<1>5. ASSUME NEW n \in lv, n \notin Sub(ns, node.left), n \notin Sub(ns, node.right)
      PROVE  \E k \in DOMAIN g : n \in Sub(ns, g[k].left)
  <2>1. PICK k \in DOMAIN f : n \in Sub(ns, f[k].left)
    BY <1>5 DEF Held
  <2>2. k # m
    BY <1>2, <1>5, <2>1
  <2> QED
    BY <1>2, <2>1, <2>2
<1>6. /\ Sub(ns, node.left) \subseteq lv /\ Sub(ns, node.right) \subseteq lv
      /\ \A k \in DOMAIN g : /\ Sub(ns, g[k].left) \subseteq lv
                             /\ Sub(ns, node.left) \cap Sub(ns, g[k].left) = {}
                             /\ Sub(ns, node.right) \cap Sub(ns, g[k].left) = {}
  BY <1>2 DEF Held
<1>7. /\ \A j, k \in DOMAIN g : j # k => Sub(ns, g[j].left) \cap Sub(ns, g[k].left) = {}
      /\ Sub(ns, node.left) \cap Sub(ns, node.right) = {}
      /\ \A n \in lv : Apart(ns, n)
  <2>1. ASSUME NEW j \in DOMAIN g, NEW k \in DOMAIN g, j # k
        PROVE  Sub(ns, g[j].left) \cap Sub(ns, g[k].left) = {}
    <3>1. /\ j \in DOMAIN f /\ k \in DOMAIN f
          /\ g[j].left = f[j].left /\ g[k].left = f[k].left
      BY <1>2
    <3> QED BY <2>1, <3>1 DEF Held
  <2>2. \A n \in lv : Apart(ns, n)
    BY DEF Held
  <2>3. Sub(ns, node.left) \cap Sub(ns, node.right) = {}
    BY <1>2 DEF Held
  <2> QED BY <2>1, <2>2, <2>3
<1>8. Held(Append(ns, node), lv \cup {Len(ns) + 1}, g, Len(ns) + 1)
  BY <1>4, <1>5, <1>6, <1>7, HeldNode
<1> QED
  BY <1>8 DEF g

(***************************************************************************)
(* The steps of the parser, and the end of find, keep the heap so.         *)
(***************************************************************************)
Now == IF mode = "exited" THEN 0 ELSE value
Plain(f) == \A k \in DOMAIN f : f[k].fn \in {"not", "paren"} => f[k].left = 0

HeapInv ==
  /\ Held(nodes, live, frames, Now)
  /\ mode \in {"paths", "expr", "failed"} => value = 0
  /\ Plain(frames)

\* Only lists hold a node: a call pushes an activation that holds none.
LEMMA PlainPush ==
  ASSUME NEW f \in Seq(Frame), NEW e \in Frame, Plain(f),
         e.fn \in {"not", "paren"} => e.left = 0
  PROVE  Plain(Append(f, e)) /\ Append(f, e) \in Seq(Frame)
<1> DEFINE g == Append(f, e)
<1>1. /\ Len(f) \in Nat /\ DOMAIN f = 1..Len(f) /\ DOMAIN g = 1..(Len(f) + 1)
      /\ \A k \in 1..Len(f) : g[k] = f[k]
      /\ g[Len(f) + 1] = e /\ g \in Seq(Frame)
  OBVIOUS
<1> HIDE DEF g
<1>2. \A k \in DOMAIN g : (k \in DOMAIN f /\ g[k] = f[k]) \/ g[k] = e
  BY <1>1
<1> QED
  BY <1>1, <1>2 DEF Plain, g

\* And a return leaves the others as they are.
LEMMA PlainPop ==
  ASSUME NEW f \in Seq(Frame), f # <<>>, Plain(f)
  PROVE  /\ Plain(Front(f)) /\ Front(f) \in Seq(Frame)
         /\ Last(f) \in Frame
         /\ Last(f).fn \in {"not", "paren"} => Last(f).left = 0
<1> DEFINE g == Front(f)
           m == Len(f)
<1>1. /\ m \in Nat /\ m >= 1 /\ DOMAIN f = 1..m /\ DOMAIN g = 1..(m - 1)
      /\ \A k \in 1..(m - 1) : g[k] = f[k]
      /\ Last(f) = f[m] /\ g \in Seq(Frame)
  BY FrontAndLast DEF Last
<1> HIDE DEF g, m
<1>2. /\ \A k \in DOMAIN g : k \in DOMAIN f /\ g[k] = f[k]
      /\ m \in DOMAIN f
  BY <1>1
<1> QED
  BY <1>1, <1>2 DEF Plain, g

\* What the lemmas above need of the parser's state.
LEMMA HeapParts ==
  ASSUME ParserInv
  PROVE  /\ Ordered(nodes) /\ Len(nodes) \in Nat /\ live \subseteq 1..Len(nodes)
         /\ Frames(frames, Len(nodes)) /\ frames \in Seq(Frame)
         /\ value \in Nat /\ value <= Len(nodes)
  BY ParserParts DEF ParserInv, ParserOK, Frames

\* A list takes in what has come.
LEMMA JoinHeld ==
  ASSUME ParserInv, HeapInv, NEW op \in {"and", "or"}, Returning(op), value # 0, Join(op)
  PROVE  Held(nodes', live', Front(frames), Joined)
<1>1. mode = "return" /\ frames # <<>> /\ Held(nodes, live, frames, value)
  BY DEF Returning, HeapInv, Now
<1>2. CASE Last(frames).left = 0
  <2>1. nodes' = nodes /\ live' = live /\ Joined = value
    BY <1>2 DEF Join, Joined
  <2>2. Held(nodes, live, Front(frames), value)
    BY <1>1, <1>2, HeapParts, HeldDrop
  <2> QED
    BY <2>1, <2>2
<1>3. CASE Last(frames).left # 0
  <2> DEFINE node == Node(op, Last(frames).left, value, NULL)
  <2>1. /\ nodes' = Append(nodes, node) /\ live' = live \cup {Len(nodes) + 1}
        /\ Joined = Len(nodes) + 1
    BY <1>3 DEF Join, Joined, New
  <2>2. Last(frames) \in Frame
    BY <1>1, HeapParts, PlainPop DEF HeapInv
  <2>3. node \in NodeType /\ node.left = Last(frames).left /\ node.right = value
    BY <2>2, HeapParts DEF Node, NodeType, Frame
  <2> HIDE DEF node
  <2>4. Held(Append(nodes, node), live \cup {Len(nodes) + 1}, Front(frames), Len(nodes) + 1)
    BY <1>1, <2>3, HeapParts, HeldJoin
  <2> QED
    BY <2>1, <2>4
<1> QED
  BY <1>2, <1>3

\* The calls: they push activations that wait with nothing.
LEMMA CallHeld ==
  ASSUME ParserInv, HeapInv, BeginExpression \/ ExprParen \/ ExprNot
  PROVE  HeapInv'
<1>1. /\ value = 0 /\ mode' = "expr" /\ UNCHANGED <<nodes, live, value>>
      /\ Held(nodes, live, frames, 0) /\ Plain(frames)
  BY DEF BeginExpression, ExprParen, ExprNot, ParseOrList, HeapInv, Now
<1>2. \A fn \in {"or", "and", "not", "paren"} : /\ Waiting(fn) \in Frame
                                                /\ Waiting(fn).left = 0
  BY DEF Waiting, Frame
<1>3. ASSUME NEW f \in Seq(Frame), Held(nodes, live, f, 0), Plain(f),
             NEW fn \in {"or", "and", "not", "paren"}
      PROVE  LET g == Append(f, Waiting(fn))
             IN  g \in Seq(Frame) /\ Held(nodes, live, g, 0) /\ Plain(g)
  BY <1>2, <1>3, HeapParts, HeldPush, PlainPush
<1>4. ASSUME NEW f \in Seq(Frame), Held(nodes, live, f, 0), Plain(f)
      PROVE  LET g == f \o <<Waiting("or"), Waiting("and")>>
             IN  Held(nodes, live, g, 0) /\ Plain(g)
  <2>1. f \o <<Waiting("or"), Waiting("and")>> = Append(Append(f, Waiting("or")), Waiting("and"))
    <3> DEFINE o == Waiting("or")
               a == Waiting("and")
    <3>1. o \in Frame /\ a \in Frame
      BY <1>2
    <3> HIDE DEF o, a
    <3>2. f \o <<o, a>> = Append(Append(f, o), a)
      BY <3>1
    <3> QED
      BY <3>2 DEF o, a
  <2>2. LET g == Append(f, Waiting("or")) IN g \in Seq(Frame) /\ Held(nodes, live, g, 0) /\ Plain(g)
    BY <1>3, <1>4
  <2> QED
    BY <1>3, <2>1, <2>2
<1>5. Held(nodes, live, frames', 0) /\ Plain(frames')
  <2>0. frames \in Seq(Frame) /\ <<>> \in Seq(Frame)
    BY HeapParts
  <2>1. CASE BeginExpression
    <3>1. frames = <<>> /\ frames' = <<>> \o <<Waiting("or"), Waiting("and")>>
      BY <2>1 DEF BeginExpression, ParseOrList, ParserInv, Descent
    <3> QED
      BY <1>1, <1>4, <2>0, <3>1
  <2>2. CASE ExprParen
    <3>1. frames' = Append(frames, Waiting("paren")) \o <<Waiting("or"), Waiting("and")>>
      BY <2>2 DEF ExprParen, ParseOrList
    <3>2. LET g == Append(frames, Waiting("paren"))
          IN  g \in Seq(Frame) /\ Held(nodes, live, g, 0) /\ Plain(g)
      BY <1>1, <1>3, <2>0
    <3> QED
      BY <1>4, <3>1, <3>2
  <2>3. CASE ExprNot
    BY <1>1, <1>3, <2>0, <2>3 DEF ExprNot
  <2> QED
    BY <2>1, <2>2, <2>3
<1> QED
  BY <1>1, <1>5 DEF HeapInv, Now

\* A primary, and the -print that stands for no expression.
LEMMA LeafHeld ==
  ASSUME ParserInv, HeapInv, value = 0, mode # "exited", frames' = frames,
         NEW node \in NodeType, node.left = 0, node.right = 0,
         New(node), value' = Len(nodes) + 1, mode' \in {"return", "parsed"}
  PROVE  HeapInv'
<1>1. nodes' = Append(nodes, node) /\ live' = live \cup {Len(nodes) + 1}
  BY DEF New
<1>2. Held(nodes, live, frames, node.left) /\ node.left <= Len(nodes)
  BY HeapParts DEF HeapInv, Now
<1>3. Held(Append(nodes, node), live \cup {Len(nodes) + 1}, frames, Len(nodes) + 1)
  BY <1>2, HeapParts, HeldNew
<1> QED
  BY <1>1, <1>3 DEF HeapInv, Now

\* A node or a null pointer comes back to the activation that waits for it.
LEMMA ReturnHeld ==
  ASSUME ParserInv, HeapInv,
         NullGoesUp \/ NotDone \/ ParenDone \/ ParenUnmatched \/ AndDone \/ OrDone
  PROVE  HeapInv'
<1>1. /\ mode = "return" /\ frames # <<>> /\ frames' = Front(frames) /\ mode' = "return"
      /\ Held(nodes, live, frames, value) /\ Plain(frames)
  BY DEF NullGoesUp, NotDone, ParenDone, ParenUnmatched, AndDone, OrDone, Returning, Return,
     HeapInv, Now
<1>2. /\ Plain(frames') /\ frames \in Seq(Frame) /\ frames' \in Seq(Frame)
      /\ Last(frames).fn \in {"not", "paren"} => Last(frames).left = 0
  BY <1>1, HeapParts, PlainPop
<1>3. ASSUME Held(nodes', live', frames', value') PROVE HeapInv'
  BY <1>1, <1>2, <1>3 DEF HeapInv, Now
<1>4. ASSUME Returning("not") \/ Returning("paren")
      PROVE  Held(nodes, live, frames', value)
  <2>1. Last(frames).left = 0
    BY <1>2, <1>4 DEF Returning
  <2> QED
    BY <1>1, <1>2, <2>1, HeapParts, HeldDrop
<1>5. CASE NullGoesUp
  <2>1. value = 0 /\ live' = live \ Sub(nodes, Last(frames).left) /\ UNCHANGED <<nodes, value>>
    BY <1>5, SubtreeIs DEF NullGoesUp
  <2>2. Held(nodes, live, frames', Last(frames).left)
    BY <1>1, <1>2, <2>1, HeapParts, HeldPop
  <2>3. Held(nodes, live', frames', 0)
    BY <2>1, <2>2, HeapParts, HeldFree
  <2> QED
    BY <1>3, <2>1, <2>3
<1>6. CASE NotDone
  <2> DEFINE node == Node("not", value, 0, NULL)
  <2>1. /\ Returning("not") /\ nodes' = Append(nodes, node) /\ live' = live \cup {Len(nodes) + 1}
        /\ value' = Len(nodes) + 1
    BY <1>6 DEF NotDone, New, Return
  <2>2. node \in NodeType /\ node.left = value /\ node.right = 0
    BY HeapParts DEF Node, NodeType
  <2> HIDE DEF node
  <2>3. Held(nodes, live, frames', node.left)
    BY <1>4, <2>1, <2>2
  <2>4. Frames(frames', Len(nodes))
    BY <1>1, HeapParts, FramesPop DEF ParserInv, Descent
  <2>5. Held(Append(nodes, node), live \cup {Len(nodes) + 1}, frames', Len(nodes) + 1)
    BY <2>2, <2>3, <2>4, HeapParts, HeldNew
  <2> QED
    BY <1>3, <2>1, <2>5
<1>7. CASE ParenDone
  <2>1. Returning("paren") /\ UNCHANGED <<nodes, live, value>>
    BY <1>7 DEF ParenDone
  <2> QED
    BY <1>3, <1>4, <2>1
<1>8. CASE ParenUnmatched
  <2>1. Returning("paren") /\ live' = live \ Sub(nodes, value) /\ value' = 0 /\ nodes' = nodes
    BY <1>8, SubtreeIs DEF ParenUnmatched, Return
  <2>2. Held(nodes, live, frames', value)
    BY <1>4, <2>1
  <2>3. Held(nodes, live', frames', 0)
    BY <2>1, <2>2, HeapParts, HeldFree
  <2> QED
    BY <1>3, <2>1, <2>3
<1>9. CASE AndDone \/ OrDone
  <2>1. PICK op \in {"and", "or"} : Returning(op) /\ value # 0 /\ Join(op) /\ value' = Joined
    BY <1>9 DEF AndDone, OrDone, Return
  <2>2. Held(nodes', live', frames', Joined)
    BY <1>1, <2>1, JoinHeld
  <2> QED
    BY <1>3, <2>1, <2>2
<1> QED
  BY <1>5, <1>6, <1>7, <1>8, <1>9

\* A list takes in a node and calls for the next one.
LEMMA LoopHeld ==
  ASSUME ParserInv, HeapInv, AndGoesOn \/ OrGoesOn
  PROVE  HeapInv'
<1>1. /\ mode = "return" /\ frames # <<>> /\ value # 0 /\ value' = 0 /\ mode' = "expr"
      /\ Plain(frames)
  BY DEF AndGoesOn, OrGoesOn, Returning, HeapInv
<1>2. Plain(Front(frames)) /\ Front(frames) \in Seq(Frame)
  BY <1>1, HeapParts, PlainPop
<1>3. ASSUME NEW op \in {"and", "or"}, Returning(op), Join(op)
      PROVE  LET g == Append(Front(frames), [fn |-> op, left |-> Joined])
             IN  /\ g \in Seq(Frame) /\ Plain(g) /\ Held(nodes', live', g, 0)
                 /\ Ordered(nodes')
  <2> DEFINE e == [fn |-> op, left |-> Joined]
  <2>1. Held(nodes', live', Front(frames), Joined)
    BY <1>1, <1>3, JoinHeld
  <2>2. Ordered(nodes') /\ Joined \in Nat
    BY <1>1, <1>3, JoinOrdered DEF ParserInv
  <2>3. e \in Frame /\ e.left = Joined /\ e.fn \notin {"not", "paren"}
    BY <2>2 DEF Frame
  <2> HIDE DEF e
  <2>4. Held(nodes', live', Append(Front(frames), e), 0)
    BY <1>2, <2>1, <2>2, <2>3, HeldPush
  <2>5. Append(Front(frames), e) \in Seq(Frame) /\ Plain(Append(Front(frames), e))
    BY <1>2, <2>3, PlainPush
  <2> QED
    BY <2>2, <2>4, <2>5 DEF e
<1>4. ASSUME Held(nodes', live', frames', 0), Plain(frames') PROVE HeapInv'
  BY <1>1, <1>4 DEF HeapInv, Now
<1>5. CASE AndGoesOn
  <2>1. Returning("and") /\ Join("and") /\ frames' = Append(Front(frames), [fn |-> "and", left |-> Joined])
    BY <1>5 DEF AndGoesOn, ListGoesOn
  <2> QED
    BY <1>3, <1>4, <2>1
<1>6. CASE OrGoesOn
  <2> DEFINE o == [fn |-> "or", left |-> Joined]
             a == Waiting("and")
             g == Append(Front(frames), o)
  <2>1. Returning("or") /\ Join("or") /\ frames' = Front(frames) \o <<o, a>>
    BY <1>6 DEF OrGoesOn
  <2>2. g \in Seq(Frame) /\ Plain(g) /\ Held(nodes', live', g, 0) /\ Ordered(nodes')
    BY <1>3, <2>1
  <2>3. a \in Frame /\ a.left = 0
    BY DEF Waiting, Frame
  <2>4. o \in Frame
    <3>1. Joined \in Nat
      BY <1>1, <2>1, JoinOrdered DEF ParserInv
    <3> QED
      BY <3>1 DEF Frame
  <2>5. frames' = Append(g, a)
    <3> HIDE DEF o, a
    <3>1. Front(frames) \o <<o, a>> = Append(Append(Front(frames), o), a)
      BY <1>2, <2>3, <2>4
    <3> QED
      BY <2>1, <3>1
  <2> HIDE DEF g, a
  <2>6. Held(nodes', live', Append(g, a), 0)
    BY <2>2, <2>3, HeldPush
  <2>7. Plain(Append(g, a))
    BY <2>2, <2>3, PlainPush
  <2> QED
    BY <1>4, <2>5, <2>6, <2>7
<1> QED
  BY <1>5, <1>6

\* The default -print, and the "and" over it.
LEMMA PrintHeld ==
  ASSUME ParserInv, HeapInv, ParseSucceeds
  PROVE  HeapInv'
<1>1. /\ mode = "return" /\ frames = <<>> /\ value # 0 /\ mode' = "parsed" /\ frames' = frames
      /\ Held(nodes, live, <<>>, value) /\ Plain(frames)
  BY DEF ParseSucceeds, HeapInv, Now
<1>2. CASE has_action # 0
  BY <1>1, <1>2 DEF ParseSucceeds, HeapInv, Now
<1>3. CASE has_action = 0
  <2> DEFINE n == Len(nodes)
             print == Node("-print", 0, 0, NULL)
             both == Node("and", value, n + 1, NULL)
             e == [fn |-> "and", left |-> value]
             f == Append(<<>>, e)
             more == Append(nodes, print)
  <2>1. /\ nodes' = nodes \o <<print, both>> /\ live' = live \cup {n + 1, n + 2}
        /\ value' = n + 2
    BY <1>1, <1>3 DEF ParseSucceeds
  <2>2. /\ print \in NodeType /\ print.left = 0 /\ print.right = 0
        /\ both \in NodeType /\ both.left = value /\ both.right = n + 1
        /\ e \in Frame /\ e.left = value /\ value <= n /\ n \in Nat
    BY HeapParts DEF Node, NodeType, Primary, Bare, Frame
  <2>3. nodes' = Append(more, both)
    <3>1. nodes \in Seq(NodeType)
      BY HeapParts DEF Ordered
    <3> HIDE DEF print, both
    <3> QED
      BY <2>1, <2>2, <3>1
  <2>4. f \in Seq(Frame) /\ f # <<>> /\ Last(f) = e /\ Front(f) = <<>> /\ Frames(f, n)
    <3> HIDE DEF e
    <3>1. <<>> \in Seq(Frame)
      OBVIOUS
    <3>2. f \in Seq(Frame) /\ f # <<>> /\ Last(f) = e /\ Front(f) = <<>>
      BY <2>2, <3>1, FrontOfAppend
    <3>3. \A k \in DOMAIN f : f[k] = e
      BY <2>2
    <3> HIDE DEF f
    <3> QED
      BY <2>2, <3>2, <3>3 DEF Frames
  <2> HIDE DEF print, both, e, f
  <2>5. Held(nodes, live, f, 0)
    <3>1. <<>> \in Seq(Frame)
      OBVIOUS
    <3> QED
      BY <1>1, <2>2, <3>1, HeapParts, HeldPush DEF f
  <2>6. Held(more, live \cup {n + 1}, f, n + 1)
    <3>1. print.left <= n
      BY <2>2
    <3> QED
      BY <2>2, <2>4, <2>5, <3>1, HeapParts, HeldNew
  <2>7. Ordered(more) /\ Len(more) = n + 1
    <3>1. print.left <= n /\ print.right <= n
      BY <2>2
    <3> QED
      BY <2>2, <3>1, HeapParts, OrderedGrows
  <2>8. Frames(f, n + 1) /\ live \cup {n + 1} \subseteq 1..(n + 1)
    <3>1. live \subseteq 1..n
      BY HeapParts
    <3>2. n + 1 \in Nat /\ n <= n + 1
      BY <2>2
    <3> HIDE DEF n
    <3> QED
      BY <2>2, <2>4, <3>1, <3>2, FramesMore
  <2>9. Held(Append(more, both), (live \cup {n + 1}) \cup {n + 1 + 1}, Front(f), n + 1 + 1)
    <3>1. both.left = Last(f).left /\ both.right <= Len(more) /\ both.right = n + 1
      BY <2>2, <2>4, <2>7
    <3> HIDE DEF more
    <3> QED
      BY <2>2, <2>4, <2>6, <2>7, <2>8, <3>1, HeldJoin
  <2>10. (live \cup {n + 1}) \cup {n + 1 + 1} = live' /\ n + 1 + 1 = value'
    BY <2>1, <2>2
  <2> HIDE DEF more, n
  <2>11. Held(nodes', live', frames', value')
    BY <1>1, <2>3, <2>4, <2>9, <2>10
  <2> QED
    BY <1>1, <2>11 DEF HeapInv, Now
<1> QED
  BY <1>2, <1>3

\* Every step of the parse keeps the heap in order.
LEMMA ParseHeld ==
  ASSUME ParserInv, HeapInv, ParseStep
  PROVE  HeapInv'
<1>1. CASE SkipPath \/ ParseFails \/ ExprMissing
  BY <1>1 DEF SkipPath, ParseFails, ExprMissing, Return, HeapInv, Now
<1>2. CASE PrimaryUnknown \/ PrimaryBadArgument
  BY <1>2 DEF PrimaryUnknown, PrimaryBadArgument, Return, HeapInv, Now
<1>3. CASE NoExpression \/ PrimaryBare \/ PrimaryWithArgument
  <2>1. PICK type \in Primary, arg \in Word \cup {NULL} :
          New(Node(type, 0, 0, arg)) /\ value' = Len(nodes) + 1
    <3>1. CASE NoExpression
      BY <3>1 DEF NoExpression, Primary, Bare
    <3>2. CASE PrimaryBare
      BY <3>2 DEF PrimaryBare, Primary, Return
    <3>3. CASE PrimaryWithArgument
      BY <3>3 DEF PrimaryWithArgument, ArgumentFits, Return
    <3> QED
      BY <1>3, <3>1, <3>2, <3>3
  <2>2. /\ mode \in {"paths", "expr"} /\ value = 0 /\ frames' = frames
        /\ mode' \in {"return", "parsed"}
    BY <1>3 DEF NoExpression, PrimaryBare, PrimaryWithArgument, Return, HeapInv
  <2> DEFINE node == Node(type, 0, 0, arg)
  <2>3. node \in NodeType /\ node.left = 0 /\ node.right = 0
    BY DEF Node, NodeType
  <2> HIDE DEF node
  <2> QED
    BY <2>1, <2>2, <2>3, LeafHeld DEF node
<1> QED
  BY <1>1, <1>2, <1>3, CallHeld, ReturnHeld, LoopHeld, PrintHeld DEF ParseStep

\* And so does every other step.
LEMMA NextHeld ==
  ASSUME ParserInv, HeapInv, [Next]_vars
  PROVE  HeapInv'
<1>1. CASE Parse
  BY <1>1, ParseHeld DEF Parse
<1>2. CASE UNCHANGED <<argv, parser>>
  BY <1>2 DEF parser, HeapInv, Now
<1>3. CASE WalkEnds
  <2>1. /\ Held(nodes, live, frames, value) /\ live' = live \ Sub(nodes, value) /\ mode' = "exited"
        /\ UNCHANGED <<nodes, frames>>
    BY <1>3, SubtreeIs DEF WalkEnds, HeapInv, Now
  <2>2. Held(nodes, live', frames, 0)
    BY <2>1, HeapParts, HeldFree
  <2> QED
    BY <2>1, <2>2 DEF HeapInv, Now
<1>4. CASE GiveUp
  BY <1>4 DEF GiveUp, HeapInv, Now
<1>5. Parse \/ WalkEnds \/ GiveUp \/ UNCHANGED <<argv, parser>>
  <2>1. CASE Step
    BY <2>1 DEF Step, NextOperand, LstatFails, LstatDone, OpendirDone, OpendirFails,
       ReaddirEntry, ReaddirEnd
  <2>2. CASE \E q \in setting.fresh : Create(q) \/ Vanish(q)
    BY <2>2 DEF Create, Vanish
  <2>3. CASE UNCHANGED vars
    BY <2>3 DEF vars
  <2> QED
    BY <2>1, <2>2, <2>3 DEF Next, Done
<1> QED
  BY <1>1, <1>2, <1>3, <1>4, <1>5

\* The heap is in order at the start.
LEMMA InitHeld == Init => HeapInv
<1> SUFFICES ASSUME Init PROVE HeapInv
  OBVIOUS
<1>1. /\ nodes = <<>> /\ live = {} /\ frames = <<>> /\ value = 0 /\ mode = "paths"
  BY DEF Init, ParseInit
<1>2. Ordered(nodes)
  BY <1>1 DEF Ordered
<1>3. Sub(nodes, 0) = {}
  BY <1>2, SubIs
<1>4. Held(nodes, live, frames, 0)
  BY <1>1, <1>3 DEF Held
<1> QED
  BY <1>1, <1>4 DEF HeapInv, Now, Plain

\* Each node that is not freed hangs, in one place only, on a node which some
\* activation of the parse holds, or on the expression that find_main walks with:
\* nothing leaks on an error path and nothing is freed twice, for expressions of
\* any length and depth.
THEOREM HeapStaysHeld == Spec => []HeapIsHeld
<1>1. Init => HeapInv
  BY InitHeld
<1>2. Inv /\ HeapInv /\ [Next]_vars => Inv' /\ HeapInv'
  BY NextInv, NextHeld DEF Inv
<1>3. Inv /\ HeapInv => HeapIsHeld
  <2> SUFFICES ASSUME Inv, HeapInv PROVE HeapIsHeld
    OBVIOUS
  <2>1. /\ Ordered(nodes) /\ frames \in Seq(Frame) /\ Len(frames) \in Nat
        /\ DOMAIN frames = 1..Len(frames)
    BY HeapParts DEF Inv
  <2>2. /\ Root(0) = Now
        /\ \A k \in 1..Len(frames) : Root(k) = frames[k].left
        /\ \A k \in 0..Len(frames) : k = 0 \/ k \in 1..Len(frames)
        /\ 0 \in 0..Len(frames) /\ 1..Len(frames) \subseteq 0..Len(frames)
    <3>1. Root(0) = Now
      BY DEF Root, Now
    <3>2. ASSUME NEW k \in 1..Len(frames) PROVE Root(k) = frames[k].left
      <4>1. k > 0 /\ frames # <<>>
        BY <2>1
      <4>2. mode # "exited"
        BY <4>1 DEF Inv, ParserInv, Descent
      <4> QED
        BY <4>1, <4>2 DEF Root
    <3> QED
      BY <2>1, <3>1, <3>2
  <2>3. Held(nodes, live, frames, Now)
    BY DEF HeapInv
  <2>4. live = UNION {Subtree(Root(k)) : k \in 0..Len(frames)}
    <3>1. ASSUME NEW n \in live PROVE \E k \in 0..Len(frames) : n \in Subtree(Root(k))
      BY <2>1, <2>2, <2>3, SubtreeIs DEF Held
    <3>2. ASSUME NEW k \in 0..Len(frames) PROVE Subtree(Root(k)) \subseteq live
      BY <2>1, <2>2, <2>3, SubtreeIs DEF Held
    <3> QED
      BY <3>1, <3>2
  <2>5. ASSUME NEW j \in 0..Len(frames), NEW k \in 0..Len(frames), j # k
        PROVE  Subtree(Root(j)) \cap Subtree(Root(k)) = {}
    <3>1. CASE j = 0
      BY <2>1, <2>2, <2>3, <2>5, <3>1, SubtreeIs DEF Held
    <3>2. CASE k = 0
      BY <2>1, <2>2, <2>3, <2>5, <3>2, SubtreeIs DEF Held
    <3>3. CASE j \in 1..Len(frames) /\ k \in 1..Len(frames)
      BY <2>1, <2>2, <2>3, <2>5, <3>3, SubtreeIs DEF Held
    <3> QED
      BY <2>2, <3>1, <3>2, <3>3
  <2>6. \A n \in live : Subtree(nodes[n].left) \cap Subtree(nodes[n].right) = {}
    BY <2>3, SubtreeIs DEF Held, Apart
  <2> QED
    BY <2>4, <2>5, <2>6 DEF HeapIsHeld
<1>4. Init => Inv /\ HeapInv
  BY <1>1, InitInv
<1> QED
  BY <1>2, <1>3, <1>4, PTL DEF Spec

-------------------------------------------------------------------------------
(***************************************************************************)
(* What find reports.  First check_node: it decides the expression, as a   *)
(* formula, and the parser makes sure that it prints what it holds of.     *)
(***************************************************************************)
\* The children that check_node goes to are there.
Whole(ns) ==
  \A n \in 1..Len(ns) : /\ ns[n].type \in {"not", "and", "or"} => ns[n].left # 0
                        /\ ns[n].type \in {"and", "or"} => ns[n].right # 0

Operator == {"not", "and", "or"}

\* What a node of a type comes to: c, when its children come to l and r, and o is how
\* the test of the node comes out.
Evaluated(type, c, l, r, o) ==
  /\ c \in BOOLEAN
  /\ type = "not" => c = ~l
  /\ type = "and" => c = IF l THEN r ELSE l
  /\ type = "or"  => c = IF l THEN l ELSE r
  /\ type \in Tests => c = o
  /\ type \notin Operator \cup Tests => c = (type = "-print")

\* Formula is what its recursion says.
LEMMA FormulaIs ==
  ASSUME NEW ns, Ordered(ns), Whole(ns), NEW outcome,
         \A n \in 1..Len(ns) : ns[n].type \in Tests => outcome[n] \in BOOLEAN
  PROVE  \A k \in 1..Len(ns) :
           Evaluated(ns[k].type, Formula(ns, outcome, k), Formula(ns, outcome, ns[k].left),
                     Formula(ns, outcome, ns[k].right), outcome[k])
<1> DEFINE n == Len(ns)
           V == BOOLEAN
           Val(k, a, b) == CASE ns[k].type = "not" -> ~a
                             [] ns[k].type = "and" -> a /\ b
                             [] ns[k].type = "or"  -> a \/ b
                             [] ns[k].type \in Tests -> outcome[k]
                             [] OTHER -> ns[k].type = "-print"
           H == [t \in (1..n) \X V \X V |-> Val(t[1], t[2], t[3])]
           Rec(g) == [k \in DOMAIN ns |-> CASE ns[k].type = "not" -> ~g[ns[k].left]
                             [] ns[k].type = "and" -> g[ns[k].left] /\ g[ns[k].right]
                             [] ns[k].type = "or"  -> g[ns[k].left] \/ g[ns[k].right]
                             [] ns[k].type \in Tests -> outcome[k]
                             [] OTHER -> ns[k].type = "-print"]
           h == CHOOSE g : g = Rec(g)
<1>0. /\ n \in Nat /\ DOMAIN ns = 1..n
      /\ \A k \in 1..n : ns[k].left \in 0..n /\ ns[k].right \in 0..n
  <2>1. ASSUME NEW k \in 1..n PROVE ns[k].left \in 0..n /\ ns[k].right \in 0..n
    <3>1. ns[k].left \in 0..(k - 1) /\ ns[k].right \in 0..(k - 1) /\ n \in Nat
      BY Children
    <3> QED
      BY <3>1
  <2> QED
    BY <2>1, Children
<1>1. ASSUME NEW k \in 1..n, NEW a \in V, NEW b \in V PROVE Val(k, a, b) \in V
  <2>1. CASE ns[k].type \in Tests
    BY <2>1 DEF Tests
  <2>2. CASE ns[k].type \notin Tests
    BY <2>2
  <2> QED BY <2>1, <2>2
<1>2. H \in Combine(ns, V)
  <2>1. \A t \in (1..n) \X V \X V : Val(t[1], t[2], t[3]) \in V
    <3> HIDE DEF Val
    <3> QED BY <1>1
  <2> HIDE DEF Val, V
  <2> QED BY <2>1 DEF Combine
<1>3. \E f \in [0..n -> V] : Follows(f, ns, FALSE, H)
  <2>1. FALSE \in V
    OBVIOUS
  <2> HIDE DEF H, V
  <2> QED
    BY <1>2, <2>1, NodeRecursion
<1>4. PICK f \in [0..n -> V] : \A k \in 1..n : f[k] = H[<<k, f[ns[k].left], f[ns[k].right]>>]
  BY <1>3, Zenon DEF Follows
<1> DEFINE g == [k \in 1..n |-> f[k]]
<1>5. \A k \in 1..n : ns[k].left # 0 => g[ns[k].left] = f[ns[k].left]
  BY <1>0
<1>6. \A k \in 1..n : ns[k].right # 0 => g[ns[k].right] = f[ns[k].right]
  BY <1>0
<1>7. \A k \in 1..n : f[k] = Val(k, f[ns[k].left], f[ns[k].right])
  <2> SUFFICES ASSUME NEW k \in 1..n PROVE f[k] = Val(k, f[ns[k].left], f[ns[k].right])
    OBVIOUS
  <2> DEFINE a == f[ns[k].left]
             b == f[ns[k].right]
             t == <<k, a, b>>
  <2>1. a \in V /\ b \in V
    BY <1>0
  <2> HIDE DEF a, b, V
  <2>2. t \in (1..n) \X V \X V /\ t[1] = k /\ t[2] = a /\ t[3] = b
    BY <2>1
  <2>3. H[t] = Val(t[1], t[2], t[3])
    <3> HIDE DEF Val, t
    <3> QED BY <2>2
  <2>4. f[k] = H[t]
    BY <1>4 DEF a, b
  <2> HIDE DEF t, H
  <2>5. f[k] = Val(k, a, b)
    <3> HIDE DEF Val
    <3> QED BY <2>2, <2>3, <2>4
  <2> QED BY <2>5 DEF a, b
<1>8. g = Rec(g)
  <2> SUFFICES ASSUME NEW k \in 1..n PROVE g[k] = Val(k, g[ns[k].left], g[ns[k].right])
    BY <1>0
  <2>1. g[k] = Val(k, f[ns[k].left], f[ns[k].right])
    BY <1>7
  <2>2. CASE ns[k].type = "not"
    <3>1. g[ns[k].left] = f[ns[k].left]
      BY <1>5, <2>2 DEF Whole
    <3> QED BY <2>1, <2>2, <3>1
  <2>3. CASE ns[k].type \in {"and", "or"}
    <3>1. g[ns[k].left] = f[ns[k].left] /\ g[ns[k].right] = f[ns[k].right]
      BY <1>5, <1>6, <2>3 DEF Whole
    <3> QED BY <2>1, <2>3, <3>1
  <2>4. CASE ns[k].type \notin Operator
    BY <2>1, <2>4 DEF Operator
  <2> QED BY <2>2, <2>3, <2>4 DEF Operator
<1>9. h = Rec(h)
  <2> HIDE DEF Rec, g
  <2> QED BY <1>8
<1>10. \A k \in 1..n : Formula(ns, outcome, k) = h[k]
  BY DEF Formula
<1>11. \A k \in 1..n : h[k] = Val(k, h[ns[k].left], h[ns[k].right])
  <2> HIDE DEF h
  <2> QED BY <1>0, <1>9
<1> HIDE DEF h
<1>12. \A k \in 1..n : h[k] \in BOOLEAN
  BY <1>11
<1> SUFFICES ASSUME NEW k \in 1..n
             PROVE  Evaluated(ns[k].type, Formula(ns, outcome, k), Formula(ns, outcome, ns[k].left),
                              Formula(ns, outcome, ns[k].right), outcome[k])
  OBVIOUS
<1>13. /\ ns[k].type \in Operator => ns[k].left \in 1..n
       /\ ns[k].type \in {"and", "or"} => ns[k].right \in 1..n
  BY <1>0 DEF Whole, Operator
<1> DEFINE l == ns[k].left
           r == ns[k].right
<1>14. CASE ns[k].type = "not"
  <2>1. l \in 1..n
    BY <1>13, <1>14 DEF Operator
  <2>2. Formula(ns, outcome, k) = h[k] /\ Formula(ns, outcome, l) = h[l]
    BY <1>10, <2>1
  <2>3. h[k] = ~h[l]
    BY <1>11, <1>14
  <2> QED BY <1>12, <1>14, <2>2, <2>3 DEF Tests, Operator, Evaluated
<1>15. CASE ns[k].type = "and"
  <2>1. l \in 1..n /\ r \in 1..n
    BY <1>13, <1>15 DEF Operator
  <2>2. Formula(ns, outcome, k) = h[k] /\ Formula(ns, outcome, l) = h[l] /\ Formula(ns, outcome, r) = h[r]
    BY <1>10, <2>1
  <2>3. h[k] = (h[l] /\ h[r])
    <3>1. h[k] = Val(k, h[l], h[r])
      <4> HIDE DEF Val
      <4> QED BY <1>11
    <3>2. h[l] \in BOOLEAN /\ h[r] \in BOOLEAN
      BY <1>12, <2>1
    <3>3. ASSUME NEW a \in BOOLEAN, NEW b \in BOOLEAN PROVE Val(k, a, b) = (a /\ b)
      BY <1>15
    <3> HIDE DEF Val
    <3> QED BY <3>1, <3>2, <3>3
  <2>4. h[l] \in BOOLEAN /\ h[r] \in BOOLEAN
    BY <1>12, <2>1
  <2>5. h[k] = IF h[l] THEN h[r] ELSE h[l]
    BY <2>3, <2>4
  <2> QED BY <1>12, <1>15, <2>2, <2>5 DEF Tests, Operator, Evaluated
<1>16. CASE ns[k].type = "or"
  <2>1. l \in 1..n /\ r \in 1..n
    BY <1>13, <1>16 DEF Operator
  <2>2. Formula(ns, outcome, k) = h[k] /\ Formula(ns, outcome, l) = h[l] /\ Formula(ns, outcome, r) = h[r]
    BY <1>10, <2>1
  <2>3. h[k] = IF h[l] THEN h[l] ELSE h[r]
    <3>1. h[k] = Val(k, h[l], h[r])
      <4> HIDE DEF Val
      <4> QED BY <1>11
    <3>2. h[l] \in BOOLEAN /\ h[r] \in BOOLEAN
      BY <1>12, <2>1
    <3>3. ASSUME NEW a \in BOOLEAN, NEW b \in BOOLEAN PROVE Val(k, a, b) = IF a THEN a ELSE b
      BY <1>16
    <3> HIDE DEF Val
    <3> QED BY <3>1, <3>2, <3>3
  <2> QED BY <1>12, <1>16, <2>2, <2>3 DEF Tests, Operator, Evaluated
<1>17. CASE ns[k].type \notin Operator
  BY <1>10, <1>11, <1>12, <1>17 DEF Operator, Tests, Evaluated
<1> QED BY <1>14, <1>15, <1>16, <1>17 DEF Operator

\* What check_node returns, and how its calls for two children add up.
Result(truth, puts, todo) == [truth |-> truth, puts |-> puts, todo |-> todo]
Results == [truth : BOOLEAN, puts : Nat, todo : BOOLEAN]
Then(a, b) == Result(b.truth, a.puts + b.puts, a.todo \/ b.todo)

\* What check_node makes of a node of a type: c, when its children come to l and r.
Checked(type, c, l, r, test) ==
  /\ c \in Results
  /\ type = "not" => c.truth = ~l.truth /\ c.puts = l.puts
  /\ type = "and" => c = IF l.truth THEN Then(l, r) ELSE l
  /\ type = "or" => c = IF l.truth THEN l ELSE Then(l, r)
  /\ type = "-print" => c = Result(TRUE, 1, FALSE)
  /\ type \in Tests => c.truth = test /\ c.puts = 0
  /\ type \notin Operator \cup Tests \cup {"-print"} => c.truth = FALSE /\ c.puts = 0

\* check_node is what its recursion says.
LEMMA CheckIs ==
  ASSUME Ordered(nodes), Whole(nodes), NEW path, NEW text,
         \A n \in 1..Len(nodes) : nodes[n].type \in Tests => Test(nodes[n], path, text) \in BOOLEAN
  PROVE  \A k \in 1..Len(nodes) :
           Checked(nodes[k].type, CheckNode(k, path, text), CheckNode(nodes[k].left, path, text),
                   CheckNode(nodes[k].right, path, text), Test(nodes[k], path, text))
<1> DEFINE n == Len(nodes)
           V == Results
           T(k) == Test(nodes[k], path, text)
           Val(k, a, b) == CASE nodes[k].type = "not" -> [a EXCEPT !.truth = ~a.truth]
                             [] nodes[k].type = "and" -> IF a.truth THEN Then(a, b) ELSE a
                             [] nodes[k].type = "or"  -> IF a.truth THEN a ELSE Then(a, b)
                             [] nodes[k].type = "-print" -> Result(TRUE, 1, FALSE)
                             [] nodes[k].type \in Tests -> Result(T(k), 0, FALSE)
                             [] OTHER -> Result(FALSE, 0, TRUE)
           H == [t \in (1..n) \X V \X V |-> Val(t[1], t[2], t[3])]
           Rec(g) == [k \in DOMAIN nodes |->
                        CASE nodes[k].type = "not" ->
                               [g[nodes[k].left] EXCEPT !.truth = ~g[nodes[k].left].truth]
                          [] nodes[k].type = "and" ->
                               IF g[nodes[k].left].truth
                               THEN Then(g[nodes[k].left], g[nodes[k].right])
                               ELSE g[nodes[k].left]
                          [] nodes[k].type = "or"  ->
                               IF g[nodes[k].left].truth
                               THEN g[nodes[k].left]
                               ELSE Then(g[nodes[k].left], g[nodes[k].right])
                             [] nodes[k].type = "-print" -> Result(TRUE, 1, FALSE)
                             [] nodes[k].type \in Tests -> Result(T(k), 0, FALSE)
                             [] OTHER -> Result(FALSE, 0, TRUE)]
           h == CHOOSE g : g = Rec(g)
<1>0. /\ n \in Nat /\ DOMAIN nodes = 1..n
      /\ \A k \in 1..n : nodes[k].left \in 0..n /\ nodes[k].right \in 0..n
  <2>1. ASSUME NEW k \in 1..n PROVE nodes[k].left \in 0..n /\ nodes[k].right \in 0..n
    <3>1. nodes[k].left \in 0..(k - 1) /\ nodes[k].right \in 0..(k - 1) /\ n \in Nat
      BY Children
    <3> QED
      BY <3>1
  <2> QED
    BY <2>1, Children
<1>r. \A x \in BOOLEAN, y \in BOOLEAN, i \in Nat : Result(x, i, y) \in Results
  BY DEF Result, Results
<1>t. \A a \in Results, b \in Results : Then(a, b) \in Results
  <2> SUFFICES ASSUME NEW a \in Results, NEW b \in Results PROVE Then(a, b) \in Results
    OBVIOUS
  <2>1. b.truth \in BOOLEAN /\ a.puts + b.puts \in Nat /\ (a.todo \/ b.todo) \in BOOLEAN
    BY DEF Results
  <2> QED BY <1>r, <2>1 DEF Then
<1>e. \A a \in Results : [a EXCEPT !.truth = ~a.truth] \in Results
  BY DEF Results
<1>s. ASSUME NEW k \in 1..n, nodes[k].type \notin Operator, NEW a, NEW b, NEW c, NEW d
      PROVE  Val(k, a, b) = Val(k, c, d)
  <2> HIDE DEF T
  <2>1. CASE nodes[k].type = "-print"
    <3>1. Val(k, a, b) = Result(TRUE, 1, FALSE) /\ Val(k, c, d) = Result(TRUE, 1, FALSE)
      BY <2>1 DEF Tests
    <3> QED BY <3>1
  <2>2. CASE nodes[k].type \in Tests
    <3>1. Val(k, a, b) = Result(T(k), 0, FALSE) /\ Val(k, c, d) = Result(T(k), 0, FALSE)
      BY <2>2 DEF Tests
    <3> QED BY <3>1
  <2>3. CASE nodes[k].type \notin Tests \cup {"-print"}
    <3>1. Val(k, a, b) = Result(FALSE, 0, TRUE) /\ Val(k, c, d) = Result(FALSE, 0, TRUE)
      BY <1>s, <2>3 DEF Operator
    <3> QED BY <3>1
  <2> QED BY <2>1, <2>2, <2>3
<1>u. ASSUME NEW k \in 1..n, nodes[k].type = "not", NEW a, NEW b, NEW c
      PROVE  Val(k, a, b) = Val(k, a, c)
  BY <1>u
<1>1. ASSUME NEW k \in 1..n, NEW a \in V, NEW b \in V PROVE Val(k, a, b) \in V
  <2>1. CASE nodes[k].type \in Tests
    <3>1. T(k) \in BOOLEAN
      BY <2>1
    <3> HIDE DEF T, V
    <3>2. Val(k, a, b) = Result(T(k), 0, FALSE)
      BY <2>1 DEF Tests
    <3>3. Result(T(k), 0, FALSE) \in Results
      BY <1>r, <3>1
    <3> QED BY <3>2, <3>3 DEF V
  <2>2. CASE nodes[k].type \notin Tests
    BY <1>r, <1>t, <1>e, <2>2
  <2> QED BY <2>1, <2>2
<1>2. H \in Combine(nodes, V)
  <2>1. \A t \in (1..n) \X V \X V : Val(t[1], t[2], t[3]) \in V
    <3> HIDE DEF Val
    <3> QED BY <1>1
  <2> HIDE DEF Val, V
  <2> QED BY <2>1 DEF Combine
<1>3. \E f \in [0..n -> V] : Follows(f, nodes, Result(FALSE, 0, FALSE), H)
  <2>1. Result(FALSE, 0, FALSE) \in V
    BY <1>r
  <2> HIDE DEF H, V
  <2> QED
    BY <1>2, <2>1, NodeRecursion
<1>4. PICK f \in [0..n -> V] : \A k \in 1..n : f[k] = H[<<k, f[nodes[k].left], f[nodes[k].right]>>]
  BY <1>3, Zenon DEF Follows
<1> DEFINE g == [k \in 1..n |-> f[k]]
<1>5. \A k \in 1..n : nodes[k].left # 0 => g[nodes[k].left] = f[nodes[k].left]
  BY <1>0
<1>6. \A k \in 1..n : nodes[k].right # 0 => g[nodes[k].right] = f[nodes[k].right]
  BY <1>0
<1>7. \A k \in 1..n : f[k] = Val(k, f[nodes[k].left], f[nodes[k].right])
  <2> SUFFICES ASSUME NEW k \in 1..n PROVE f[k] = Val(k, f[nodes[k].left], f[nodes[k].right])
    OBVIOUS
  <2> DEFINE a == f[nodes[k].left]
             b == f[nodes[k].right]
             t == <<k, a, b>>
  <2>1. a \in V /\ b \in V
    BY <1>0
  <2> HIDE DEF a, b, V
  <2>2. t \in (1..n) \X V \X V /\ t[1] = k /\ t[2] = a /\ t[3] = b
    BY <2>1
  <2>3. H[t] = Val(t[1], t[2], t[3])
    <3> HIDE DEF Val, t
    <3> QED BY <2>2
  <2>4. f[k] = H[t]
    BY <1>4 DEF a, b
  <2> HIDE DEF t, H
  <2>5. f[k] = Val(k, a, b)
    <3> HIDE DEF Val
    <3> QED BY <2>2, <2>3, <2>4
  <2> QED BY <2>5 DEF a, b
<1>8. g = Rec(g)
  <2> SUFFICES ASSUME NEW k \in 1..n PROVE g[k] = Val(k, g[nodes[k].left], g[nodes[k].right])
    BY <1>0
  <2>1. g[k] = Val(k, f[nodes[k].left], f[nodes[k].right])
    BY <1>7
  <2> HIDE DEF g
  <2>2. CASE nodes[k].type = "not"
    <3>1. g[nodes[k].left] = f[nodes[k].left]
      BY <1>5, <2>2 DEF Whole
    <3> QED BY <2>1, <2>2, <3>1
  <2>3. CASE nodes[k].type \in {"and", "or"}
    <3>1. g[nodes[k].left] = f[nodes[k].left] /\ g[nodes[k].right] = f[nodes[k].right]
      BY <1>5, <1>6, <2>3 DEF Whole
    <3> QED BY <2>1, <2>3, <3>1
  <2>4. CASE nodes[k].type \notin Operator
    <3> HIDE DEF Val
    <3> QED BY <1>s, <2>1, <2>4
  <2> QED BY <2>2, <2>3, <2>4 DEF Operator
<1>9. h = Rec(h)
  <2> HIDE DEF Rec, g
  <2> QED BY <1>8
<1>10. \A k \in 1..n : CheckNode(k, path, text) = h[k]
  BY DEF CheckNode, Result, Then
<1>11. \A k \in 1..n : h[k] = Val(k, h[nodes[k].left], h[nodes[k].right])
  <2> HIDE DEF h
  <2> QED BY <1>0, <1>9
<1> HIDE DEF h
<1>14. \A m \in 1..n : h[m] \in V
  <2> DEFINE S == {m \in Nat : m <= n => \A j \in 1..m : h[j] \in V}
  <2>1. 0 \in S
    OBVIOUS
  <2>2. ASSUME NEW m \in Nat, m \in S PROVE m + 1 \in S
    <3> SUFFICES ASSUME m + 1 <= n PROVE h[m + 1] \in V
      <4>1. m <= n \/ ~(m + 1 <= n)
        BY <1>0
      <4>2. \A j \in 1..(m + 1) : j \in 1..m \/ j = m + 1
        OBVIOUS
      <4> HIDE DEF V, n
      <4> QED BY <2>2, <4>1, <4>2
    <3> DEFINE k == m + 1
               l == nodes[k].left
               r == nodes[k].right
               a == IF l = 0 THEN Result(FALSE, 0, FALSE) ELSE h[l]
               b == IF r = 0 THEN Result(FALSE, 0, FALSE) ELSE h[r]
    <3>1. k \in 1..n /\ l \in 0..m /\ r \in 0..m /\ \A j \in 1..m : h[j] \in V
      <4>1. k \in 1..n /\ k - 1 = m /\ \A j \in 1..m : h[j] \in V
        BY <1>0, <2>2
      <4>2. l \in 0..(k - 1) /\ r \in 0..(k - 1)
        BY <4>1, Children
      <4> QED BY <4>1, <4>2
    <3>2. a \in V /\ b \in V
      <4>1. Result(FALSE, 0, FALSE) \in V
        BY <1>r
      <4> HIDE DEF V, k, l, r
      <4> QED BY <3>1, <4>1
    <3>3. h[k] = Val(k, h[l], h[r])
      <4> HIDE DEF Val
      <4> QED BY <1>11, <3>1
    <3>4. Val(k, h[l], h[r]) = Val(k, a, b)
      <4> HIDE DEF Val
      <4>1. CASE nodes[k].type \notin Operator
        BY <1>s, <3>1, <4>1
      <4>2. CASE nodes[k].type = "not"
        <5>1. h[l] = a
          BY <3>1, <4>2 DEF Whole
        <5> HIDE DEF a, b, l, r
        <5> QED BY <1>u, <3>1, <4>2, <5>1
      <4>3. CASE nodes[k].type \in {"and", "or"}
        <5>1. h[l] = a /\ h[r] = b
          BY <3>1, <4>3 DEF Whole
        <5> HIDE DEF a, b
        <5> QED BY <5>1
      <4> QED BY <4>1, <4>2, <4>3 DEF Operator
    <3>5. Val(k, a, b) \in V
      <4> HIDE DEF Val, a, b, V
      <4> QED BY <1>1, <3>1, <3>2
    <3> HIDE DEF Val, a, b, V
    <3> QED BY <3>3, <3>4, <3>5
  <2>3. Nat \subseteq S
    <3> HIDE DEF S
    <3> QED BY <2>1, <2>2, InductionOnSet
  <2>4. n \in S
    <3> HIDE DEF S
    <3> QED BY <1>0, <2>3
  <2> QED BY <1>0, <2>4
<1> SUFFICES ASSUME NEW k \in 1..n
             PROVE  Checked(nodes[k].type, CheckNode(k, path, text),
                            CheckNode(nodes[k].left, path, text),
                            CheckNode(nodes[k].right, path, text), Test(nodes[k], path, text))
  OBVIOUS
<1> DEFINE l == nodes[k].left
           r == nodes[k].right
<1>12. /\ nodes[k].type \in Operator => l \in 1..n
       /\ nodes[k].type \in {"and", "or"} => r \in 1..n
  BY <1>0 DEF Whole, Operator
<1>13. h[k] = Val(k, h[l], h[r]) /\ CheckNode(k, path, text) = h[k]
  BY <1>10, <1>11
<1> HIDE DEF l, r
<1>15. nodes[k].type \in Operator => CheckNode(l, path, text) = h[l] /\ h[l] \in Results
  BY <1>10, <1>12, <1>14
<1>16. nodes[k].type \in {"and", "or"} => CheckNode(r, path, text) = h[r] /\ h[r] \in Results
  BY <1>10, <1>12, <1>14
<1>17. CASE nodes[k].type = "not"
  <2>1. h[k] = [h[l] EXCEPT !.truth = ~h[l].truth]
    BY <1>13, <1>17
  <2>2. CheckNode(l, path, text) = h[l] /\ h[l] \in Results
    BY <1>15, <1>17 DEF Operator
  <2> DEFINE a == h[l]
  <2> HIDE DEF a
  <2>3. /\ [a EXCEPT !.truth = ~a.truth].truth = ~a.truth
        /\ [a EXCEPT !.truth = ~a.truth].puts = a.puts
    BY <2>2 DEF Results, a
  <2> QED BY <1>13, <1>14, <1>17, <2>1, <2>2, <2>3 DEF Tests, Operator, a, l, Checked
<1>18. CASE nodes[k].type = "and"
  <2>1. h[k] = IF h[l].truth THEN Then(h[l], h[r]) ELSE h[l]
    BY <1>13, <1>18
  <2> QED BY <1>13, <1>14, <1>15, <1>16, <1>18, <2>1 DEF Tests, Operator, l, r, Checked
<1>19. CASE nodes[k].type = "or"
  <2>1. h[k] = IF h[l].truth THEN h[l] ELSE Then(h[l], h[r])
    BY <1>13, <1>19
  <2> QED BY <1>13, <1>14, <1>15, <1>16, <1>19, <2>1 DEF Tests, Operator, l, r, Checked
<1>20. CASE nodes[k].type = "-print"
  BY <1>13, <1>14, <1>20 DEF Tests, Operator, Checked
<1>21. CASE nodes[k].type \in Tests
  <2>1. h[k] = Result(T(k), 0, FALSE)
    BY <1>13, <1>21 DEF Tests
  <2> HIDE DEF T
  <2>2. h[k].truth = T(k) /\ h[k].puts = 0
    BY <2>1 DEF Result
  <2> QED BY <1>13, <1>14, <1>21, <2>2 DEF Tests, Operator, T, Checked
<1>22. CASE nodes[k].type \notin Operator \cup Tests \cup {"-print"}
  <2>1. h[k] = Result(FALSE, 0, TRUE)
    BY <1>13, <1>22 DEF Tests, Operator
  <2>2. h[k].truth = FALSE /\ h[k].puts = 0
    BY <2>1 DEF Result
  <2> QED BY <1>13, <1>14, <1>22, <2>2 DEF Operator, Checked
<1> QED BY <1>17, <1>18, <1>19, <1>20, <1>21, <1>22 DEF Operator

\* A test comes out one way or the other.
LEMMA TestIsBoolean ==
  ASSUME NEW node, node.type \in Tests, NEW path, NEW text
  PROVE  Test(node, path, text) \in BOOLEAN
<1>1. \A p, t : Matches(p, t) \in BOOLEAN
  BY DEF Matches, MatchesFrom, Spans
<1> QED BY <1>1 DEF Tests, Test

\* check_node decides the expression, whatever it prints meanwhile.
LEMMA CheckDecides ==
  ASSUME Ordered(nodes), Whole(nodes), NEW path, NEW text
  PROVE  \A k \in 1..Len(nodes) : CheckNode(k, path, text).truth = Holds(k, path, text)
<1> DEFINE n == Len(nodes)
           C(k) == CheckNode(k, path, text).truth
           O == Outcome(path, text)
           F(k) == Formula(nodes, O, k)
           Good(m) == \A k \in 1..m : C(k) = F(k)
           S == {m \in Nat : m <= n => Good(m)}
<1>0. n \in Nat /\ DOMAIN nodes = 1..n
  BY Children
<1>1. \A k \in 1..n : nodes[k].type \in Tests => /\ Test(nodes[k], path, text) \in BOOLEAN
                                                 /\ O[k] = Test(nodes[k], path, text)
  BY <1>0, TestIsBoolean DEF Outcome, TestNodes
<1>2. ASSUME NEW k \in 1..n
      PROVE  Evaluated(nodes[k].type, C(k), C(nodes[k].left), C(nodes[k].right), O[k])
  <2> DEFINE c == CheckNode(k, path, text)
             l == CheckNode(nodes[k].left, path, text)
             r == CheckNode(nodes[k].right, path, text)
             t == Test(nodes[k], path, text)
             type == nodes[k].type
             o == O[k]
  <2>1. Checked(type, c, l, r, t)
    BY <1>1, CheckIs
  <2>2. type \in Tests => t = o
    BY <1>1
  <2>3. Then(l, r).truth = r.truth
    BY DEF Then, Result
  <2>4. Result(TRUE, 1, FALSE).truth = TRUE
    BY DEF Result
  <2>5. "-print" \notin Tests \cup Operator
    BY DEF Tests, Operator
  <2> HIDE DEF c, l, r, t, type, o
  <2>6. c.truth \in BOOLEAN
    BY <2>1 DEF Checked, Results
  <2>7. Evaluated(type, c.truth, l.truth, r.truth, o)
    BY <2>1, <2>2, <2>3, <2>4, <2>5, <2>6 DEF Checked, Evaluated
  <2> QED BY <2>7 DEF c, l, r, type, o
<1>3. \A k \in 1..n : Evaluated(nodes[k].type, F(k), F(nodes[k].left), F(nodes[k].right), O[k])
  <2>1. \A m \in 1..Len(nodes) : nodes[m].type \in Tests => O[m] \in BOOLEAN
    BY <1>1
  <2> HIDE DEF O
  <2> QED BY <2>1, FormulaIs
<1> HIDE DEF O, F, C
<1>4. 0 \in S
  BY DEF Good
<1>5. ASSUME NEW m \in Nat, m \in S PROVE m + 1 \in S
  <2> SUFFICES ASSUME m + 1 <= n PROVE C(m + 1) = F(m + 1)
    <3>1. m <= n \/ ~(m + 1 <= n)
      BY <1>0
    <3>2. \A j \in 1..(m + 1) : j \in 1..m \/ j = m + 1
      OBVIOUS
    <3> HIDE DEF n
    <3> QED BY <1>5, <3>1, <3>2
  <2> DEFINE k == m + 1
             l == nodes[k].left
             r == nodes[k].right
             type == nodes[k].type
             o == O[k]
  <2>1. k \in 1..n /\ Good(m)
    BY <1>0, <1>5
  <2>2. /\ type \in Operator => l \in 1..m
        /\ type \in {"and", "or"} => r \in 1..m
    <3>1. l \in 0..(k - 1) /\ r \in 0..(k - 1) /\ k - 1 = m
      BY <2>1, Children
    <3> QED BY <2>1, <3>1 DEF Whole, Operator
  <2>3. /\ type \in Operator => C(l) = F(l)
        /\ type \in {"and", "or"} => C(r) = F(r)
    BY <2>1, <2>2
  <2>4. Evaluated(type, C(k), C(l), C(r), o) /\ Evaluated(type, F(k), F(l), F(r), o)
    BY <1>2, <1>3, <2>1
  <2> HIDE DEF n, k, l, r, type, o
  <2> DEFINE ck == C(k)
             cl == C(l)
             cr == C(r)
             fk == F(k)
             fl == F(l)
             fr == F(r)
  <2> HIDE DEF ck, cl, cr, fk, fl, fr
  <2>5. ck = fk
    <3>1. Evaluated(type, ck, cl, cr, o) /\ Evaluated(type, fk, fl, fr, o)
      BY <2>4 DEF ck, cl, cr, fk, fl, fr
    <3>2. /\ type \in Operator => cl = fl
          /\ type \in {"and", "or"} => cr = fr
      BY <2>3 DEF ck, cl, cr, fk, fl, fr
    <3>3. CASE type \notin Operator
      <4>1. CASE type \in Tests
        BY <3>1, <4>1 DEF Evaluated
      <4>2. CASE type \notin Tests
        <5>1. ck = (type = "-print") /\ fk = (type = "-print")
          BY <3>1, <3>3, <4>2, Zenon DEF Evaluated
        <5> QED BY <5>1
      <4> QED BY <4>1, <4>2
    <3>4. CASE type = "not"
      <4>1. ck = ~cl /\ fk = ~fl
        BY <3>1, <3>4, Zenon DEF Evaluated
      <4>2. cl = fl
        BY <3>2, <3>4 DEF Operator
      <4> QED BY <4>1, <4>2, Zenon
    <3>5. CASE type \in {"and", "or"}
      <4>1. cl = fl /\ cr = fr
        BY <3>2, <3>5 DEF Operator
      <4>2. CASE type = "and"
        <5>1. ck = IF cl THEN cr ELSE cl
          BY <3>1, <4>2, Zenon DEF Evaluated
        <5>2. fk = IF fl THEN fr ELSE fl
          BY <3>1, <4>2, Zenon DEF Evaluated
        <5> QED BY <4>1, <5>1, <5>2
      <4>3. CASE type = "or"
        <5>1. ck = IF cl THEN cl ELSE cr
          BY <3>1, <4>3, Zenon DEF Evaluated
        <5>2. fk = IF fl THEN fl ELSE fr
          BY <3>1, <4>3, Zenon DEF Evaluated
        <5> QED BY <4>1, <5>1, <5>2
      <4> QED BY <3>5, <4>2, <4>3
    <3> QED BY <3>3, <3>4, <3>5 DEF Operator
  <2> QED BY <2>5 DEF k, ck, fk
<1>6. Good(n)
  <2> HIDE DEF Good
  <2>1. Nat \subseteq S
    <3> HIDE DEF S
    <3> QED BY <1>4, <1>5, InductionOnSet
  <2> QED BY <1>0, <2>1
<1>7. \A k \in 1..Len(nodes) : C(k) = F(k)
  BY <1>6
<1> QED BY <1>7 DEF C, F, O, Holds

\* Every node but the -print stands for an operator or a word of the command line.
Written(ns, line) ==
  \A n \in 1..Len(ns) : \/ ns[n].type \in Operator \cup {"-print"}
                        \/ \E i \in DOMAIN line : line[i] = ns[n].type

\* The expression prints what it holds of.
PrintsLast(ns, n) ==
  /\ n \in 1..Len(ns)
  /\ \/ ns[n].type = "-print"
     \/ /\ ns[n].type = "and"
        /\ ns[n].right \in 1..Len(ns) /\ ns[ns[n].right].type = "-print"

Shape == /\ Whole(nodes) /\ Written(nodes, argv)
         /\ has_action = 0
         /\ mode = "parsed" => PrintsLast(nodes, value)

\* A node that fits in.
Fits(node, line) ==
  /\ node \in NodeType
  /\ node.type \in Operator => node.left # 0
  /\ node.type \in {"and", "or"} => node.right # 0
  /\ node.type \in Operator \cup {"-print"} \/ \E i \in DOMAIN line : line[i] = node.type

\* With a node that fits in, the expression is whole and written as before.
LEMMA ShapeGrows ==
  ASSUME NEW ns, Ordered(ns), Whole(ns), NEW line, Written(ns, line),
         NEW node, Fits(node, line)
  PROVE  /\ Whole(Append(ns, node)) /\ Written(Append(ns, node), line)
         /\ Len(Append(ns, node)) = Len(ns) + 1 /\ Append(ns, node)[Len(ns) + 1] = node
<1> DEFINE m == Append(ns, node)
<1>1. ns \in Seq(NodeType) /\ Len(ns) \in Nat
  BY DEF Ordered
<1>2. /\ Len(m) = Len(ns) + 1 /\ m[Len(ns) + 1] = node
      /\ \A n \in 1..Len(ns) : m[n] = ns[n]
  BY <1>1 DEF Fits
<1>3. \A n \in 1..(Len(ns) + 1) : n \in 1..Len(ns) \/ n = Len(ns) + 1
  BY <1>1
<1> HIDE DEF m
<1>4. Whole(m)
  BY <1>2, <1>3 DEF Whole, Fits, Operator
<1>5. Written(m, line)
  BY <1>2, <1>3 DEF Written, Fits
<1> QED BY <1>2, <1>4, <1>5 DEF m

\* A list that takes a further node in.
LEMMA JoinShape ==
  ASSUME ParserOK, Shape, NEW op \in {"and", "or"}, Returning(op), value # 0, Join(op)
  PROVE  Whole(nodes') /\ Written(nodes', argv)
<1>1. CASE Last(frames).left = 0
  BY <1>1 DEF Join, Shape
<1>2. CASE Last(frames).left # 0
  <2> DEFINE node == Node(op, Last(frames).left, value, NULL)
  <2>1. nodes' = Append(nodes, node)
    BY <1>2 DEF Join, New
  <2>2. Last(frames) \in Frame
    <3>1. frames # <<>> /\ frames \in Seq(Frame)
      BY DEF Returning, ParserOK
    <3> QED
      BY <3>1 DEF Last
  <2>3. Fits(node, argv)
    BY <1>2, <2>2, ParserParts DEF Fits, Node, NodeType, Frame, Operator
  <2> HIDE DEF node
  <2> QED
    BY <2>1, <2>3, ParserParts, ShapeGrows DEF Shape
<1> QED BY <1>1, <1>2

\* Every step of the parse keeps the shape of the expression.
LEMMA ParseShape ==
  ASSUME ParserInv, Shape, ParseStep
  PROVE  Shape'
<1>0. /\ ParserOK /\ Whole(nodes) /\ Written(nodes, argv) /\ Ordered(nodes) /\ has_action = 0
      /\ value \in Nat /\ value <= Len(nodes) /\ Len(nodes) \in Nat
  BY ParserParts DEF ParserInv, Shape
<1>1. argv' = argv /\ has_action' = 0
  BY <1>0 DEF ParseStep, SkipPath, NoExpression, BeginExpression, ParseFails, ParseSucceeds,
     ExprMissing, ExprParen, ExprNot, PrimaryUnknown, PrimaryBare, PrimaryWithArgument,
     PrimaryBadArgument, NullGoesUp, NotDone, ParenDone, ParenUnmatched,
     AndGoesOn, AndDone, OrGoesOn, OrDone, NoteAction
<1>2. ASSUME mode' # "parsed", Whole(nodes'), Written(nodes', argv) PROVE Shape'
  BY <1>1, <1>2 DEF Shape
<1>3. ASSUME mode' # "parsed", nodes' = nodes PROVE Shape'
  BY <1>0, <1>2, <1>3
<1>4. CASE \/ SkipPath \/ BeginExpression \/ ParseFails \/ ExprMissing \/ ExprParen \/ ExprNot
           \/ PrimaryUnknown \/ PrimaryBadArgument \/ NullGoesUp \/ ParenDone \/ ParenUnmatched
  <2>1. mode' # "parsed" /\ nodes' = nodes
    BY <1>4 DEF SkipPath, BeginExpression, ParseFails, ExprMissing, ExprParen, ExprNot,
       PrimaryUnknown, PrimaryBadArgument, NullGoesUp, ParenDone, ParenUnmatched, ParseOrList, Return,
       Returning
  <2> QED BY <1>3, <2>1
<1>5. ASSUME NEW type, NEW left, NEW arg, New(Node(type, left, 0, arg)), Fits(Node(type, left, 0, arg), argv)
      PROVE  /\ Whole(nodes') /\ Written(nodes', argv)
             /\ Len(nodes') = Len(nodes) + 1 /\ nodes'[Len(nodes) + 1].type = type
  <2> DEFINE node == Node(type, left, 0, arg)
  <2>1. nodes' = Append(nodes, node) /\ node.type = type
    BY <1>5 DEF New, Node
  <2> HIDE DEF node
  <2> QED BY <1>0, <1>5, <2>1, ShapeGrows DEF node
<1>13. ASSUME Token \in Primary, NEW arg \in Word \cup {NULL}
      PROVE  Fits(Node(Token, 0, 0, arg), argv)
  <2>1. Token # NULL /\ Token \notin Operator
    BY <1>13 DEF Primary, Bare, Numeric, Typed, Worded, NULL, Operator
  <2>2. ptr \in DOMAIN argv /\ argv[ptr] = Token
    <3>1. /\ Len(argv) \in Nat /\ ptr \in Nat
          /\ ptr <= Len(argv) => Token = argv[ptr]
          /\ ptr > Len(argv) => Token = NULL
      BY <1>0, TokenIsWord
    <3>2. ptr >= 1 /\ argv \in Seq(Word)
      BY <1>0 DEF ParserOK
    <3> QED BY <2>1, <3>1, <3>2
  <2> DEFINE node == Node(Token, 0, 0, arg)
  <2>3. node \in NodeType /\ node.type = Token
    BY <1>13 DEF Node, NodeType
  <2> HIDE DEF node
  <2>4. node.type \notin Operator /\ \E i \in DOMAIN argv : argv[i] = node.type
    BY <2>1, <2>2, <2>3
  <2>5. Fits(node, argv)
    BY <2>3, <2>4 DEF Fits, Operator
  <2> QED BY <2>5 DEF node
<1>6. CASE NoExpression
  <2>1. New(Node("-print", 0, 0, NULL)) /\ value' = Len(nodes) + 1 /\ mode' = "parsed"
    BY <1>6 DEF NoExpression
  <2>2. Fits(Node("-print", 0, 0, NULL), argv)
    BY DEF Fits, Node, NodeType, Primary, Bare, Operator
  <2>3. /\ Whole(nodes') /\ Written(nodes', argv)
        /\ Len(nodes') = Len(nodes) + 1 /\ nodes'[Len(nodes) + 1].type = "-print"
    BY <1>5, <2>1, <2>2
  <2>4. PrintsLast(nodes', value')
    BY <1>0, <2>1, <2>3 DEF PrintsLast
  <2> QED BY <1>1, <2>3, <2>4 DEF Shape
<1>7. CASE PrimaryBare
  <2>1. New(Node(Token, 0, 0, NULL)) /\ mode' # "parsed" /\ Token \in Bare
    BY <1>7 DEF PrimaryBare, Return
  <2>2. Fits(Node(Token, 0, 0, NULL), argv)
    <3>1. Token \in Primary
      BY <2>1 DEF Primary
    <3> QED BY <1>13, <3>1
  <2> QED BY <1>2, <1>5, <2>1, <2>2
<1>8. CASE PrimaryWithArgument
  <2>1. /\ New(Node(Token, 0, 0, Argument)) /\ mode' # "parsed" /\ Token \in Primary
        /\ Argument \in Word
    BY <1>8 DEF PrimaryWithArgument, Return, ArgumentFits
  <2>2. Fits(Node(Token, 0, 0, Argument), argv)
    BY <1>13, <2>1
  <2> QED BY <1>2, <1>5, <2>1, <2>2
<1>9. CASE NotDone
  <2>1. New(Node("not", value, 0, NULL)) /\ mode' # "parsed" /\ value # 0
    BY <1>9 DEF NotDone, Return
  <2>2. Fits(Node("not", value, 0, NULL), argv)
    BY <1>0, <2>1 DEF Fits, Node, NodeType, Operator
  <2> QED BY <1>2, <1>5, <2>1, <2>2
<1>10. CASE AndGoesOn \/ AndDone
  <2>1. Returning("and") /\ value # 0 /\ Join("and") /\ mode' # "parsed"
    BY <1>10 DEF AndGoesOn, AndDone, Return
  <2> QED BY <1>0, <1>2, <2>1, JoinShape
<1>11. CASE OrGoesOn \/ OrDone
  <2>1. Returning("or") /\ value # 0 /\ Join("or") /\ mode' # "parsed"
    BY <1>11 DEF OrGoesOn, OrDone, Return
  <2> QED BY <1>0, <1>2, <2>1, JoinShape
<1>12. CASE ParseSucceeds
  <2> DEFINE print == Node("-print", 0, 0, NULL)
             n == Len(nodes)
             both == Node("and", value, n + 1, NULL)
             more == Append(nodes, print)
  <2>1. nodes' = nodes \o <<print, both>> /\ value' = n + 2 /\ value # 0
    BY <1>0, <1>12 DEF ParseSucceeds
  <2>2. /\ Fits(print, argv) /\ print.type = "-print" /\ print.left = 0 /\ print.right = 0
        /\ Fits(both, argv) /\ both.type = "and" /\ both.right = n + 1
    BY <1>0, <2>1 DEF Fits, Node, NodeType, Primary, Bare, Operator
  <2> HIDE DEF print, both
  <2>3. /\ Ordered(more) /\ Whole(more) /\ Written(more, argv)
        /\ Len(more) = n + 1 /\ more[n + 1] = print
    <3>1. print \in NodeType /\ print.left <= n /\ print.right <= n
      BY <1>0, <2>2 DEF Fits
    <3> QED BY <1>0, <2>2, <3>1, OrderedGrows, ShapeGrows
  <2>4. nodes' = Append(more, both)
    <3>1. nodes \in Seq(NodeType) /\ print \in NodeType /\ both \in NodeType
      BY <1>0, <2>2 DEF Ordered, Fits
    <3> QED BY <2>1, <3>1
  <2>5. /\ Whole(nodes') /\ Written(nodes', argv)
        /\ Len(nodes') = n + 1 + 1 /\ nodes'[n + 1 + 1] = both
    <3> HIDE DEF more
    <3> QED BY <2>2, <2>3, <2>4, ShapeGrows
  <2>6. nodes'[n + 1] = print
    <3>1. more \in Seq(NodeType) /\ both \in NodeType
      BY <2>2, <2>3 DEF Ordered, Fits
    <3>2. \A i \in 1..Len(more) : Append(more, both)[i] = more[i]
      <4> HIDE DEF more
      <4> QED BY <3>1
    <3>3. n + 1 \in 1..Len(more)
      BY <1>0, <2>3
    <3> HIDE DEF more
    <3> QED BY <2>3, <2>4, <3>2, <3>3
  <2>7. n + 1 + 1 = value' /\ n + 1 \in 1..(n + 1 + 1) /\ n + 1 + 1 \in 1..(n + 1 + 1)
    BY <1>0, <2>1
  <2> HIDE DEF n
  <2>8. PrintsLast(nodes', value')
    BY <2>2, <2>5, <2>6, <2>7 DEF PrintsLast
  <2> QED BY <1>1, <2>5, <2>8 DEF Shape
<1> QED
  BY <1>4, <1>6, <1>7, <1>8, <1>9, <1>10, <1>11, <1>12 DEF ParseStep

\* What the expression holds of, it prints.
LEMMA RootPrints ==
  ASSUME Ordered(nodes), Whole(nodes), PrintsLast(nodes, value), NEW path, NEW text
  PROVE  LET c == CheckNode(value, path, text)
         IN  c.puts \in Nat /\ (c.truth => c.puts > 0)
<1> DEFINE C(k) == CheckNode(k, path, text)
           l == nodes[value].left
           r == nodes[value].right
           type == nodes[value].type
<1>1. \A k \in 1..Len(nodes) : nodes[k].type \in Tests => Test(nodes[k], path, text) \in BOOLEAN
  BY TestIsBoolean
<1>2. \A k \in 1..Len(nodes) :
        Checked(nodes[k].type, C(k), C(nodes[k].left), C(nodes[k].right), Test(nodes[k], path, text))
  BY <1>1, CheckIs
<1>3. value \in 1..Len(nodes)
  BY DEF PrintsLast
<1>4. Checked(type, C(value), C(l), C(r), Test(nodes[value], path, text))
  BY <1>2, <1>3
<1>5. Result(TRUE, 1, FALSE).puts = 1
  BY DEF Result
<1>6. C(value).puts \in Nat
  BY <1>4 DEF Checked, Results
<1>7. CASE type = "-print"
  <2>1. C(value) = Result(TRUE, 1, FALSE)
    BY <1>4, <1>7 DEF Checked
  <2> HIDE DEF C
  <2>2. C(value).puts = 1
    BY <1>5, <2>1, Zenon
  <2>3. C(value).puts > 0
    BY <2>2
  <2> QED BY <1>6, <2>3 DEF C
<1>8. CASE type # "-print"
  <2>1. type = "and" /\ r \in 1..Len(nodes) /\ nodes[r].type = "-print" /\ l \in 1..Len(nodes)
    <3>1. type = "and" /\ r \in 1..Len(nodes) /\ nodes[r].type = "-print"
      BY <1>8 DEF PrintsLast
    <3>2. l \in 0..(value - 1) /\ l # 0
      BY <1>3, <3>1, Children DEF Whole
    <3> QED BY <1>3, <3>1, <3>2
  <2>2. C(r) = Result(TRUE, 1, FALSE)
    BY <1>2, <2>1 DEF Checked
  <2>3. C(l).puts \in Nat
    BY <1>2, <2>1 DEF Checked, Results
  <2>4. C(value) = IF C(l).truth THEN Then(C(l), C(r)) ELSE C(l)
    BY <1>4, <2>1 DEF Checked
  <2>5. Then(C(l), C(r)).puts = C(l).puts + C(r).puts
    BY DEF Then, Result
  <2>6. C(r).puts = 1
    BY <1>5, <2>2, Zenon
  <2> HIDE DEF C, l, r
  <2>7. C(value).truth => C(value).puts > 0
    BY <2>3, <2>4, <2>5, <2>6
  <2> QED BY <1>6, <2>7 DEF C
<1> QED BY <1>7, <1>8

-------------------------------------------------------------------------------
\* The next name on the way down to a path.
LEMMA StepDown ==
  ASSUME NEW t, IsTree(t), NEW p \in DOMAIN t, NEW q \in Path, IsPrefix(q, p), q # p
  PROVE  /\ IsDir(t, q) /\ Len(q) + 1 \in 1..Len(p)
         /\ p[Len(q) + 1] \in Entries(t, q)
         /\ IsPrefix(Append(q, p[Len(q) + 1]), p)
<1> DEFINE n == p[Len(q) + 1]
           r == Append(q, n)
<1>1. p \in Seq(Name) /\ q \in Seq(Name) /\ p \in Path
  BY DEF IsTree, Path
<1>2. Len(q) \in 0..Len(p) /\ q = SubSeq(p, 1, Len(q))
  BY <1>1, PrefixIsPart
<1>3. Len(q) # Len(p)
  BY <1>1, <1>2, SubSeqFull
<1>4. /\ Len(p) \in Nat /\ Len(q) \in Nat /\ Len(q) < Len(p) /\ Len(q) + 1 \in 1..Len(p)
      /\ Len(q) + 1 \in 0..Len(p)
  BY <1>1, <1>2, <1>3
<1>5. n \in Name /\ SubSeq(p, 1, Len(q) + 1) = r
  BY <1>1, <1>2, <1>4, OneMore
<1>6. r \in Path /\ IsPrefix(r, p)
  BY <1>1, <1>4, <1>5, PartOfPath DEF Path
<1> HIDE DEF r, n
<1>7. IsDir(t, q) /\ Exists(t, r)
  BY <1>1, <1>6, AboveIsDir
<1>8. n \in Entries(t, q)
  BY <1>5, <1>7 DEF Entries, r
<1> QED BY <1>4, <1>6, <1>7, <1>8 DEF n, r

-------------------------------------------------------------------------------
(***************************************************************************)
(* The lines: full_path puts together what TextOf says.                    *)
(***************************************************************************)
Stem(word) == IF word # <<>> /\ Last(word) = "/" THEN Front(word) ELSE word
Rest(i, path) == SubSeq(path, Len(Leads[Operands[i]]) + 1, Len(path))
Slashed(names) == [k \in DOMAIN names |-> <<"/">> \o Spell[names[k]]]

\* TextOf, put in these words.
LEMMA TextIs ==
  \A i, path : TextOf(i, path) =
     IF Rest(i, path) = <<>> THEN Spell[Operands[i]]
     ELSE Stem(Spell[Operands[i]]) \o FlattenSeq(Slashed(Rest(i, path)))
  BY DEF TextOf, Rest, Stem, Slashed

\* What ends the second of two sequences ends both together.
LEMMA EndOfConcat ==
  ASSUME NEW S, NEW s \in Seq(S), NEW t \in Seq(S), t # <<>>
  PROVE  s \o t \in Seq(S) /\ s \o t # <<>> /\ Last(s \o t) = Last(t)
<1> DEFINE u == s \o t
<1>1. Len(s) \in Nat /\ Len(t) \in Nat /\ Len(t) >= 1
  OBVIOUS
<1>2. /\ u \in Seq(S) /\ Len(u) = Len(s) + Len(t)
      /\ \A i \in 1..(Len(s) + Len(t)) : u[i] = IF i <= Len(s) THEN s[i] ELSE t[i - Len(s)]
  BY ConcatProperties
<1> HIDE DEF u
<1>3. u[Len(s) + Len(t)] = t[Len(t)]
  BY <1>1, <1>2
<1>4. u # <<>>
  BY <1>1, <1>2
<1> QED BY <1>2, <1>3, <1>4 DEF u, Last

\* One element more at the end.
LEMMA OneMoreAtEnd ==
  ASSUME NEW S, NEW s \in Seq(S), NEW t \in Seq(S), Len(t) = Len(s) + 1,
         \A k \in 1..Len(s) : t[k] = s[k]
  PROVE  t = Append(s, t[Len(t)])
<1> DEFINE e == t[Len(t)]
           u == Append(s, e)
<1>1. Len(s) \in Nat /\ e \in S
  OBVIOUS
<1> HIDE DEF e
<1>2. /\ u \in Seq(S) /\ Len(u) = Len(t) /\ \A k \in 1..Len(s) : u[k] = s[k]
      /\ u[Len(s) + 1] = e
  BY <1>1
<1> HIDE DEF u
<1>3. \A k \in 1..Len(t) : u[k] = t[k]
  <2> TAKE k \in 1..Len(t)
  <2>1. k \in 1..Len(s) \/ k = Len(s) + 1
    BY <1>1
  <2> QED BY <1>2, <2>1 DEF e
<1>4. u = t
  BY <1>2, <1>3
<1> QED BY <1>4 DEF u, e

\* A spelled name has a last character, and it is no "/".
LEMMA NameEnds ==
  ASSUME NEW n \in Name
  PROVE  /\ Spell[n] \in Seq(Char) /\ Len(Spell[n]) \in Nat /\ Len(Spell[n]) >= 1
         /\ Spell[n][Len(Spell[n])] # "/"
<1>1. n \in Word
  BY FindAssumption
<1>2. Spell[n] \in Seq(Char) /\ Spell[n] # <<>> /\ \A i \in DOMAIN Spell[n] : Spell[n][i] # "/"
  BY <1>1, FindAssumption, WordAssumption
<1>3. Len(Spell[n]) \in DOMAIN Spell[n]
  BY <1>2
<1> QED BY <1>2, <1>3

\* A sequence of names with a further one.
LEMMA SlashedMore ==
  ASSUME NEW names \in Seq(Name), NEW n \in Name
  PROVE  /\ Slashed(names) \in Seq(Seq(Char)) /\ FlattenSeq(Slashed(names)) \in Seq(Char)
         /\ FlattenSeq(Slashed(Append(names, n))) = FlattenSeq(Slashed(names)) \o (<<"/">> \o Spell[n])
<1> DEFINE e(m) == <<"/">> \o Spell[m]
           more == Append(names, n)
<1>1. \A m \in Name : e(m) \in Seq(Char)
  BY NameEnds, FindAssumption
<1>2. /\ more \in Seq(Name) /\ Len(more) = Len(names) + 1 /\ more[Len(names) + 1] = n
      /\ \A k \in 1..Len(names) : more[k] = names[k]
      /\ Len(names) \in Nat /\ DOMAIN names = 1..Len(names) /\ DOMAIN more = 1..(Len(names) + 1)
      /\ \A k \in 1..Len(names) : names[k] \in Name
  OBVIOUS
<1> HIDE DEF e, more
<1>3. /\ Slashed(names) = [k \in 1..Len(names) |-> e(names[k])]
      /\ Slashed(more) = [k \in 1..(Len(names) + 1) |-> e(more[k])]
  BY <1>2 DEF Slashed, e
<1>4. Slashed(names) \in Seq(Seq(Char)) /\ Len(Slashed(names)) = Len(names)
  BY <1>1, <1>2, <1>3
<1>5. e(n) \in Seq(Char)
  BY <1>1
<1>6. Slashed(more) = Append(Slashed(names), e(n))
  BY <1>1, <1>2, <1>3, <1>4, <1>5
<1>7. /\ FlattenSeq(Slashed(names)) \in Seq(Char)
      /\ FlattenSeq(Append(Slashed(names), e(n))) = FlattenSeq(Slashed(names)) \o e(n)
  BY <1>4, <1>5, FlatAppend
<1> QED BY <1>4, <1>6, <1>7 DEF e, more

\* full_path.
LEMMA TextGrows ==
  ASSUME ParserOK, NEW i \in 1..Len(Operands), NEW path \in Path, NEW n \in Name,
         IsPrefix(Leads[Operands[i]], path)
  PROVE  TextOf(i, Append(path, n)) = FullPath(TextOf(i, path), n)
<1> DEFINE start == Leads[Operands[i]]
           word == Spell[Operands[i]]
           names == Rest(i, path)
           more == Rest(i, Append(path, n))
           e == <<"/">> \o Spell[n]
           flat == FlattenSeq(Slashed(names))
           text == TextOf(i, path)
           slash == <<"/">>
<1>1. Operands[i] \in Word
  BY OperandsAreWords
<1>2. start \in Seq(Name) /\ word \in Seq(Char) /\ path \in Seq(Name) /\ "/" \in Char
  BY <1>1, FindAssumption, WordAssumption DEF Path
<1>3. Len(start) \in Nat /\ Len(path) \in Nat /\ Len(start) <= Len(path)
  BY <1>2, PrefixIsPart
<1>4. names \in Seq(Name) /\ more = Append(names, n)
  <2>1. names = SubSeq(path, Len(start) + 1, Len(path))
    BY DEF Rest
  <2> DEFINE longer == Append(path, n)
  <2>2. more = SubSeq(longer, Len(start) + 1, Len(longer))
    BY DEF Rest
  <2> HIDE DEF start, names, more
  <2>3. /\ longer \in Seq(Name) /\ Len(longer) = Len(path) + 1
        /\ \A k \in 1..Len(path) : longer[k] = path[k]
        /\ longer[Len(path) + 1] = n
    BY <1>2
  <2> HIDE DEF longer
  <2>4. /\ names \in Seq(Name) /\ Len(names) = Len(path) - Len(start)
        /\ \A k \in 1..Len(names) : names[k] = path[k + Len(start)]
    BY <1>2, <1>3, <2>1
  <2>5. /\ more \in Seq(Name) /\ Len(more) = Len(longer) - Len(start)
        /\ \A k \in 1..Len(more) : more[k] = longer[k + Len(start)]
    BY <1>3, <2>2, <2>3
  <2>6. Len(more) = Len(names) + 1 /\ Len(names) \in Nat
    BY <1>3, <2>3, <2>4, <2>5
  <2>7. \A k \in 1..Len(names) : more[k] = names[k]
    <3> TAKE k \in 1..Len(names)
    <3>1. k \in 1..Len(more) /\ k + Len(start) \in 1..Len(path)
      BY <1>3, <2>4, <2>6
    <3> QED BY <2>3, <2>4, <2>5, <3>1
  <2>8. more[Len(names) + 1] = n
    BY <1>3, <2>3, <2>4, <2>5, <2>6
  <2>9. more = Append(names, n)
    BY <2>4, <2>5, <2>6, <2>7, <2>8, OneMoreAtEnd
  <2> QED BY <2>4, <2>9
<1>5. more # <<>>
  BY <1>4
<1> HIDE DEF start, word, names, more
<1>6. /\ flat \in Seq(Char) /\ FlattenSeq(Slashed(more)) = flat \o e
      /\ e \in Seq(Char) /\ Spell[n] \in Seq(Char)
  <2>1. Spell[n] \in Seq(Char) /\ e \in Seq(Char)
    BY <1>2, NameEnds
  <2>2. flat \in Seq(Char) /\ FlattenSeq(Slashed(Append(names, n))) = flat \o e
    BY <1>4, SlashedMore
  <2> QED BY <1>4, <2>1, <2>2
<1>7. TextOf(i, Append(path, n)) = Stem(word) \o (flat \o e)
  BY <1>5, <1>6, TextIs DEF more, word
<1>8. Stem(word) \in Seq(Char)
  BY <1>2, FrontAndLast DEF Stem
<1>10. /\ text = IF names = <<>> THEN word ELSE Stem(word) \o flat
       /\ names = <<>> => flat = <<>>
  <2>1. text = IF names = <<>> THEN word ELSE Stem(word) \o flat
    BY TextIs DEF names, word
  <2>2. ASSUME names = <<>> PROVE flat = <<>>
    <3>1. Slashed(names) = <<>>
      BY <2>2 DEF Slashed
    <3> QED BY <3>1 DEF FlattenSeq
  <2> QED BY <2>1, <2>2
<1>11. e = slash \o Spell[n] /\ slash \in Seq(Char) /\ slash # <<>>
  BY <1>2
<1>12. \A s \in Seq(Char) : Append(s, "/") = s \o slash
  BY <1>2
<1> DEFINE x == Spell[n]
<1>14. x \in Seq(Char)
  BY <1>6
<1> HIDE DEF e, flat, text, slash, x
<1>15. \A s \in Seq(Char) : (s \o slash) \o x = s \o (slash \o x)
  BY <1>11, <1>14, ConcatAssociative
<1>9. CASE names = <<>>
  <2>1. text = word /\ flat = <<>>
    BY <1>9, <1>10
  <2>2. TextOf(i, Append(path, n)) = Stem(word) \o e
    BY <1>6, <1>7, <2>1, ConcatEmptySeq
  <2>3. CASE word # <<>> /\ Last(word) = "/"
    <3>1. /\ FullPath(word, n) = word \o Spell[n]
          /\ Stem(word) = Front(word)
      BY <2>3 DEF FullPath, Stem
    <3>2. word = Append(Front(word), "/") /\ Front(word) \in Seq(Char)
      BY <1>2, <2>3, FrontAndLast
    <3>3. (Front(word) \o slash) \o Spell[n] = Front(word) \o (slash \o Spell[n])
      BY <1>15, <3>2 DEF x
    <3> QED BY <1>11, <1>12, <2>1, <2>2, <3>1, <3>2, <3>3 DEF text
  <2>4. CASE ~(word # <<>> /\ Last(word) = "/")
    <3>1. /\ FullPath(word, n) = Append(word, "/") \o Spell[n]
          /\ Stem(word) = word
      BY <2>4 DEF FullPath, Stem
    <3>2. (word \o slash) \o Spell[n] = word \o (slash \o Spell[n])
      BY <1>2, <1>15 DEF x
    <3> QED BY <1>2, <1>11, <1>12, <2>1, <2>2, <3>1, <3>2 DEF text
  <2> QED BY <2>3, <2>4
<1>13. CASE names # <<>>
  <2>1. text = Stem(word) \o flat /\ text \in Seq(Char)
    BY <1>6, <1>8, <1>10, <1>13
  <2>2. text # <<>> /\ Last(text) # "/"
    <3> DEFINE m == Last(names)
               front == FlattenSeq(Slashed(Front(names)))
               a == Spell[m]
               f == slash \o a
    <3>1. names = Append(Front(names), m) /\ Front(names) \in Seq(Name) /\ m \in Name
      BY <1>4, <1>13, FrontAndLast
    <3>2. front \in Seq(Char) /\ flat = front \o f
      BY <3>1, SlashedMore DEF flat, slash
    <3>3. a \in Seq(Char) /\ Len(a) \in Nat /\ Len(a) >= 1 /\ a[Len(a)] # "/"
      BY <3>1, NameEnds
    <3> HIDE DEF a, m, front
    <3>4. f # <<>> /\ f \in Seq(Char) /\ Last(f) # "/"
      <4>1. a # <<>> /\ Last(a) # "/"
        BY <3>3 DEF Last
      <4> QED BY <1>11, <3>3, <4>1, EndOfConcat
    <3> HIDE DEF f
    <3>5. flat # <<>> /\ Last(flat) # "/"
      BY <3>2, <3>4, EndOfConcat
    <3> QED BY <1>6, <1>8, <2>1, <3>5, EndOfConcat
  <2>3. FullPath(text, n) = Append(text, "/") \o Spell[n]
    BY <2>2 DEF FullPath
  <2>4. (text \o slash) \o Spell[n] = text \o (slash \o Spell[n])
    BY <1>15, <2>1 DEF x
  <2>5. (Stem(word) \o flat) \o e = Stem(word) \o (flat \o e)
    BY <1>6, <1>8, ConcatAssociative
  <2> QED BY <1>7, <1>11, <1>12, <2>1, <2>3, <2>4, <2>5 DEF text
<1> QED BY <1>9, <1>13

(***************************************************************************)
(* The inductive invariant behind FindsWhatStays: what stays is in the     *)
(* tree as it was, the activations of do_find are on their way below the   *)
(* operand, and whatever is not reported yet is ahead of one of them.      *)
(***************************************************************************)
Untouched == /\ \A p \in DOMAIN setting.tree :
                  Stays(p) => p \in DOMAIN tree /\ tree[p] = setting.tree[p]
             /\ setting.fresh = {} => tree = setting.tree

Phases == /\ operand \in 0..Len(Operands)
          /\ mode \notin {"parsed", "exited"} => operand = 0
          /\ stack # <<>> => operand # 0 /\ mode = "parsed"
          /\ mode = "exited" /\ ret = 0 => operand = Len(Operands)
          /\ \A t \in DOMAIN out : out[t] \in Nat

OnCourse(act) == /\ IsPrefix(Leads[Operands[operand]], act.path)
                 /\ act.text = TextOf(operand, act.path)
                 /\ act.at # "readdir" => act.seen = {}

Course == \A k \in DOMAIN stack : OnCourse(stack[k])

\* The activation act, and what it calls, are yet to come to p.
Owes(act, p) == /\ IsPrefix(act.path, p)
                /\ act.at # "lstat" => p # act.path
                /\ act.at = "readdir" => p[Len(act.path) + 1] \in act.snap \ act.seen

Reported(i, p) == Holds(value, p, TextOf(i, p)) => Copies(TextOf(i, p)) > 0

Covered ==
  ret = 0 /\ ~Refused("opendir") /\ Timeless =>
    \A i \in 1..operand : \A p \in Below(i) :
      Stays(p) => Reported(i, p) \/ (i = operand /\ \E k \in DOMAIN stack : Owes(stack[k], p))

\* A node for -links comes from a -links on the command line.
LEMMA LinksAreWritten ==
  ASSUME Shape, NEW n \in 1..Len(nodes), nodes[n].type = "-links"
  PROVE  \E i \in DOMAIN argv : argv[i] = "-links"
<1>1. nodes[n].type \notin Operator \cup {"-print"}
  BY DEF Operator
<1> QED BY <1>1 DEF Shape, Written

\* What stays is tested as before.
LEMMA TestKept ==
  ASSUME Inv, Shape, Untouched, Untouched', UNCHANGED <<argv, path_count, nodes, setting>>,
         Timeless, NEW i, NEW p \in DOMAIN setting.tree, Stays(p), NEW n \in TestNodes
  PROVE  Test(nodes[n], p, TextOf(i, p))' = Test(nodes[n], p, TextOf(i, p))
<1>1. TextOf(i, p)' = TextOf(i, p)
  BY DEF TextOf, Operands
<1>2. setting.owner' = setting.owner /\ nodes[n]' = nodes[n] /\ setting' = setting
  OBVIOUS
<1>3. tree'[p] = tree[p]
  <2>1. tree[p] = setting.tree[p]
    BY DEF Untouched
  <2>2. Stays(p)'
    BY DEF Stays
  <2>3. tree'[p] = setting'.tree[p]
    BY <2>2 DEF Untouched
  <2> QED BY <2>1, <2>3
<1>4. CASE nodes[n].type = "-links"
  <2>1. n \in 1..Len(nodes)
    <3>1. DOMAIN nodes = 1..Len(nodes)
      BY ParserParts DEF Inv, ParserInv
    <3> QED BY <3>1 DEF TestNodes
  <2>2. setting.fresh = {}
    BY <1>4, <2>1, LinksAreWritten DEF Timeless
  <2>3. tree' = tree
    BY <2>2 DEF Untouched
  <2>4. LinkCount(p)' = LinkCount(p)
    BY <2>3 DEF LinkCount
  <2> QED BY <1>1, <1>2, <2>3, <2>4, <1>4 DEF Test
<1>5. CASE nodes[n].type # "-links"
  <2>1. nodes[n].type \in Tests
    BY DEF TestNodes
  <2> QED BY <1>1, <1>2, <1>3, <1>5, <2>1 DEF Test, Tests, UidOf
<1> QED BY <1>4, <1>5

\* So the expression holds of it as before.
LEMMA HoldsKept ==
  ASSUME Inv, Shape, Untouched, Untouched',
         UNCHANGED <<argv, path_count, nodes, value, setting>>,
         Timeless, NEW i, NEW p \in DOMAIN setting.tree, Stays(p)
  PROVE  Holds(value, p, TextOf(i, p))' = Holds(value, p, TextOf(i, p))
<1>1. TestNodes' = TestNodes
  BY DEF TestNodes
<1>2. \A n \in TestNodes : Test(nodes[n], p, TextOf(i, p))' = Test(nodes[n], p, TextOf(i, p))
  BY TestKept
<1>3. Outcome(p, TextOf(i, p))' = Outcome(p, TextOf(i, p))
  BY <1>1, <1>2 DEF Outcome
<1> QED BY <1>3 DEF Holds

\* What was reported stays reported.
LEMMA ReportedStays ==
  ASSUME Inv, Shape, Untouched, Untouched',
         UNCHANGED <<argv, path_count, nodes, value, setting>>,
         Timeless, NEW i, NEW p \in DOMAIN setting.tree, Stays(p),
         \A t : Copies(t) > 0 => Copies(t)' > 0,
         Reported(i, p)
  PROVE  Reported(i, p)'
<1>1. TextOf(i, p)' = TextOf(i, p)
  BY DEF TextOf, Operands
<1>2. Holds(value, p, TextOf(i, p))' = Holds(value, p, TextOf(i, p))
  BY HoldsKept
<1>3. Copies(TextOf(i, p)) > 0 => Copies(TextOf(i, p))' > 0
  BY <1>1
<1> QED BY <1>2, <1>3 DEF Reported

\* The sequence t is s with the elements of A in the place of the last one.
Replaces(s, t, A) ==
  /\ \A k \in DOMAIN t : t[k] \in A \/ (k \in DOMAIN s /\ t[k] = s[k])
  /\ \A k \in DOMAIN s : k = Len(s) \/ (k \in DOMAIN t /\ t[k] = s[k])
  /\ \A a \in A : \E k \in DOMAIN t : t[k] = a

\* What do_find does to its stack: a return, a step, and a step and a call.
LEMMA StackReplaces ==
  ASSUME NEW S, NEW s \in Seq(S), s # <<>>
  PROVE  /\ Replaces(s, Front(s), {})
         /\ \A a \in S : Replaces(s, Append(Front(s), a), {a})
         /\ \A a, b \in S : Replaces(s, Append(Append(Front(s), a), b), {a, b})
<1> DEFINE f == Front(s)
<1>1. /\ f \in Seq(S) /\ Len(f) = Len(s) - 1 /\ Len(s) >= 1 /\ Len(s) \in Nat
      /\ \A i \in 1..Len(f) : f[i] = s[i]
      /\ DOMAIN s = 1..Len(s) /\ DOMAIN f = 1..Len(f)
  BY FrontAndLast
<1> HIDE DEF f
<1>2. \A k \in DOMAIN s : k = Len(s) \/ (k \in DOMAIN f /\ f[k] = s[k])
  BY <1>1
<1>3. \A k \in DOMAIN f : k \in DOMAIN s /\ f[k] = s[k]
  BY <1>1
<1>4. ASSUME NEW g \in Seq(S), NEW A, NEW a \in S, Replaces(s, g, A)
      PROVE  Replaces(s, Append(g, a), A \cup {a})
  <2> DEFINE h == Append(g, a)
  <2>1. /\ Len(g) \in Nat /\ DOMAIN g = 1..Len(g) /\ DOMAIN h = 1..(Len(g) + 1)
        /\ h[Len(g) + 1] = a /\ \A i \in 1..Len(g) : h[i] = g[i]
    OBVIOUS
  <2> HIDE DEF h
  <2>2. \A k \in DOMAIN h : (k \in DOMAIN g /\ h[k] = g[k]) \/ h[k] = a
    BY <2>1
  <2>3. \A k \in DOMAIN g : k \in DOMAIN h /\ h[k] = g[k]
    BY <2>1
  <2>4. \E k \in DOMAIN h : h[k] = a
    BY <2>1
  <2>5. Replaces(s, h, A \cup {a})
    <3>1. \A k \in DOMAIN h : h[k] \in A \cup {a} \/ (k \in DOMAIN s /\ h[k] = s[k])
      BY <1>4, <2>2 DEF Replaces
    <3>2. \A k \in DOMAIN s : k = Len(s) \/ (k \in DOMAIN h /\ h[k] = s[k])
      BY <1>4, <2>3 DEF Replaces
    <3>3. \A b \in A \cup {a} : \E k \in DOMAIN h : h[k] = b
      BY <1>4, <2>3, <2>4 DEF Replaces
    <3> QED BY <3>1, <3>2, <3>3 DEF Replaces
  <2> QED BY <2>5 DEF h
<1>5. Replaces(s, f, {})
  BY <1>2, <1>3 DEF Replaces
<1>6. ASSUME NEW a \in S PROVE Append(f, a) \in Seq(S) /\ Replaces(s, Append(f, a), {a})
  BY <1>1, <1>4, <1>5
<1>7. ASSUME NEW a \in S, NEW b \in S PROVE Replaces(s, Append(Append(f, a), b), {a, b})
  <2> DEFINE g == Append(f, a)
  <2>1. g \in Seq(S) /\ Replaces(s, g, {a})
    BY <1>6
  <2> HIDE DEF g
  <2>2. Replaces(s, Append(g, b), {a} \cup {b})
    BY <1>4, <2>1
  <2>3. {a} \cup {b} = {a, b}
    OBVIOUS
  <2> QED BY <2>2, <2>3 DEF g
<1> QED BY <1>5, <1>6, <1>7 DEF f

\* A step of do_find that is on its way leaves the others on theirs.
LEMMA CourseKept ==
  ASSUME Course, UNCHANGED <<argv, path_count, operand>>,
         NEW A, Replaces(stack, stack', A), \A a \in A : OnCourse(a)
  PROVE  Course'
<1>1. \A i, p : TextOf(i, p)' = TextOf(i, p)
  BY DEF TextOf, Operands
<1>2. Operands' = Operands /\ operand' = operand
  BY DEF Operands
<1>3. \A k \in DOMAIN stack' : OnCourse(stack'[k])
  BY DEF Course, Replaces
<1> QED BY <1>1, <1>2, <1>3 DEF Course, OnCourse

\* And what it owed is done, or owed by what takes its place.
LEMMA CoveredKept ==
  ASSUME Inv, Shape, Untouched, Untouched', Covered,
         UNCHANGED <<argv, path_count, nodes, value, setting, operand>>,
         ret' = 0 => ret = 0,
         \A t : Copies(t) > 0 => Copies(t)' > 0,
         NEW A, Replaces(stack, stack', A),
         ASSUME NEW p \in Below(operand), Stays(p), ret' = 0, ~Refused("opendir"), Timeless,
                stack # <<>>, Owes(Top, p)
         PROVE  Reported(operand, p)' \/ \E a \in A : Owes(a, p)
  PROVE  Covered'
<1>1. /\ Refused("opendir")' = Refused("opendir") /\ Timeless' = Timeless
      /\ \A p : Stays(p)' = Stays(p)
      /\ \A i : Below(i)' = Below(i)
  BY DEF Refused, Timeless, Stays, Below, Operands
<1> SUFFICES ASSUME ret' = 0, ~Refused("opendir"), Timeless,
                    NEW i \in 1..operand, NEW p \in Below(i), Stays(p)
             PROVE  Reported(i, p)' \/ (i = operand /\ \E k \in DOMAIN stack' : Owes(stack'[k], p))
  BY <1>1 DEF Covered
<1>2. p \in DOMAIN setting.tree
  BY DEF Stays
<1>3. Reported(i, p) \/ (i = operand /\ \E k \in DOMAIN stack : Owes(stack[k], p))
  BY DEF Covered
<1>4. CASE Reported(i, p)
  BY <1>2, <1>4, ReportedStays
<1>5. ASSUME i = operand, NEW k \in DOMAIN stack, Owes(stack[k], p)
      PROVE  Reported(i, p)' \/ \E j \in DOMAIN stack' : Owes(stack'[j], p)
  <2>1. CASE k \in DOMAIN stack' /\ stack'[k] = stack[k]
    BY <1>5, <2>1
  <2>2. CASE k = Len(stack)
    <3>1. stack # <<>> /\ Top = stack[k]
      BY <2>2 DEF Top, Last, Inv, WalkOK
    <3>2. Reported(operand, p)' \/ \E a \in A : Owes(a, p)
      BY <1>5, <3>1
    <3> QED BY <1>5, <3>2 DEF Replaces
  <2> QED BY <2>1, <2>2 DEF Replaces
<1> QED BY <1>3, <1>4, <1>5

\* Other programs touch only what is fresh, or lies in it.
LEMMA UntouchedNext ==
  ASSUME Inv, Untouched, [Next]_vars
  PROVE  Untouched'
<1>1. CASE UNCHANGED <<setting, tree>>
  BY <1>1 DEF Untouched, Stays
<1>2. CASE \E q \in setting.fresh : Create(q) \/ Vanish(q)
  <2>1. PICK q \in setting.fresh : Create(q) \/ Vanish(q)
    BY <1>2
  <2>2. setting' = setting /\ setting.fresh # {}
    BY <2>1 DEF Create, Vanish
  <2>3. ASSUME NEW p \in DOMAIN setting.tree, Stays(p)
        PROVE  p \in DOMAIN tree' /\ tree'[p] = setting.tree[p]
    <3>1. p \in DOMAIN tree /\ tree[p] = setting.tree[p]
      BY <2>3 DEF Untouched
    <3>2. q # p
      <4>1. p \in Seq(Name)
        BY DEF Inv, WalkOK, Setting, IsTree, Path
      <4>2. IsPrefix(p, p)
        BY <4>1, PrefixElements
      <4> QED BY <2>3, <4>2 DEF Stays
    <3>3. CASE Create(q)
      BY <3>1, <3>2, <3>3 DEF Create, With
    <3>4. CASE Vanish(q)
      BY <3>1, <3>2, <3>4 DEF Vanish, Without
    <3> QED BY <2>1, <3>3, <3>4
  <2> QED BY <2>2, <2>3 DEF Untouched, Stays
<1>3. UNCHANGED <<setting, tree>> \/ \E q \in setting.fresh : Create(q) \/ Vanish(q)
  <2>1. CASE Step
    BY <2>1 DEF Step, Parse, walk, NextOperand, LstatFails, LstatDone, OpendirDone, OpendirFails,
       ReaddirEntry, ReaddirEnd, WalkEnds, GiveUp
  <2>2. CASE UNCHANGED vars
    BY <2>2 DEF vars, walk
  <2> QED BY <2>1, <2>2 DEF Next, Done
<1> QED BY <1>1, <1>2, <1>3

\* What lstat() and check_node leave in out.
LEMMA Prints ==
  ASSUME Inv, Shape, Phases, LstatDone
  PROVE  LET c == CheckNode(value, Top.path, Top.text)
         IN  /\ \A t \in DOMAIN out' : out'[t] \in Nat
             /\ \A t : Copies(t) > 0 => Copies(t)' > 0
             /\ \A t : t = Top.text /\ c.truth => Copies(t)' > 0
<1> DEFINE c == CheckNode(value, Top.path, Top.text)
           text == Top.text
<1>1. c.puts \in Nat /\ (c.truth => c.puts > 0)
  <2>1. PrintsLast(nodes, value) /\ Ordered(nodes) /\ Whole(nodes)
    BY ParserParts DEF LstatDone, Busy, Shape, Inv, ParserInv
  <2> QED BY <2>1, RootPrints
<1>2. out' = IF c.puts = 0 THEN out ELSE [t \in DOMAIN out \cup {text} |->
                     Copies(t) + IF t = text THEN c.puts ELSE 0]
  BY DEF LstatDone
<1> HIDE DEF c, text
<1>3. \A t : Copies(t) \in Nat
  BY DEF Copies, Phases
<1>4. \A t \in DOMAIN out' : out'[t] \in Nat
  BY <1>1, <1>2, <1>3 DEF Phases
<1>5. ASSUME NEW t, Copies(t) > 0 PROVE Copies(t)' > 0
  <2>1. t \in DOMAIN out
    BY <1>5 DEF Copies
  <2> QED BY <1>1, <1>2, <1>3, <1>5, <2>1 DEF Copies
<1>6. ASSUME NEW t, t = text, c.truth PROVE Copies(t)' > 0
  <2>1. out' = [w \in DOMAIN out \cup {text} |-> Copies(w) + IF w = text THEN c.puts ELSE 0] /\ c.puts > 0
    BY <1>1, <1>2, <1>6
  <2>2. out'[t] = Copies(t) + c.puts /\ t \in DOMAIN out'
    BY <1>6, <2>1
  <2>3. Copies(t) \in Nat
    BY <1>3
  <2> QED BY <1>1, <2>1, <2>2, <2>3 DEF Copies
<1> QED BY <1>4, <1>5, <1>6 DEF c, text

\* The operands are taken one after the other, once the expression is there.
LEMMA PhasesNext ==
  ASSUME Inv, Shape, Phases, [Next]_vars, Inv'
  PROVE  Phases'
<1>0. /\ operand \in Nat /\ Len(Operands) \in Nat /\ Len(Operands)' \in Nat
      /\ operand \in 0..Len(Operands) /\ \A t \in DOMAIN out : out[t] \in Nat
      /\ mode \notin {"parsed", "exited"} => operand = 0
      /\ stack # <<>> => operand # 0 /\ mode = "parsed"
      /\ mode = "exited" /\ ret = 0 => operand = Len(Operands)
  BY OperandsAreWords DEF Inv, ParserInv, Phases
<1>1. CASE Parse
  <2>1. mode \notin {"parsed", "exited"} /\ mode' # "exited" /\ UNCHANGED walk
    BY <1>1 DEF Parse, ParseStep, SkipPath, NoExpression, BeginExpression, ParseFails, ParseSucceeds,
     ExprMissing, ExprParen, ExprNot, PrimaryUnknown, PrimaryBare, PrimaryWithArgument,
     PrimaryBadArgument, NullGoesUp, NotDone, ParenDone, ParenUnmatched,
     AndGoesOn, AndDone, OrGoesOn, OrDone, Return, ParseOrList, Returning
  <2> QED BY <1>0, <2>1 DEF Phases, walk
<1>2. ASSUME UNCHANGED <<argv, path_count, operand, mode>>, ret' = 0 => ret = 0,
             mode = "parsed" \/ stack' = stack,
             stack' # <<>> => stack # <<>>,
             \A t \in DOMAIN out' : out'[t] \in Nat
      PROVE  Phases'
  BY <1>0, <1>2 DEF Phases, Operands
<1>3. CASE NextOperand
  <2>1. /\ mode = "parsed" /\ mode' = mode /\ Operands' = Operands /\ operand < Len(Operands)
        /\ operand' = operand + 1 /\ UNCHANGED <<out, ret>>
    BY <1>3 DEF NextOperand, Operands, parser
  <2> QED BY <1>0, <2>1 DEF Phases
<1>4. CASE LstatFails \/ OpendirDone \/ OpendirFails \/ ReaddirEntry \/ ReaddirEnd
  BY <1>0, <1>2, <1>4 DEF LstatFails, OpendirDone, OpendirFails, ReaddirEntry, ReaddirEnd, Busy, parser
<1>5. CASE LstatDone
  <2>1. /\ UNCHANGED <<argv, path_count, operand, mode>> /\ mode = "parsed" /\ stack # <<>>
        /\ ret' = 0 => ret = 0
    BY <1>5 DEF LstatDone, Busy, parser
  <2>2. \A t \in DOMAIN out' : out'[t] \in Nat
    BY <1>5, Prints
  <2> QED BY <1>2, <2>1, <2>2
<1>6. CASE WalkEnds
  BY <1>0, <1>6 DEF WalkEnds, walk, Phases, Operands
<1>7. CASE GiveUp
  <2>1. /\ mode = "failed" /\ mode' = "exited" /\ ret' = 1
        /\ UNCHANGED <<argv, path_count, operand, stack, out>>
    BY <1>7 DEF GiveUp
  <2>2. Operands' = Operands /\ stack = <<>>
    BY <1>0, <2>1 DEF Operands
  <2> QED BY <1>0, <2>1, <2>2 DEF Phases
<1>8. CASE \E q \in setting.fresh : Create(q) \/ Vanish(q)
  <2>1. /\ UNCHANGED <<argv, path_count, operand, mode>> /\ ret' = ret
        /\ stack' = stack /\ out' = out
    BY <1>8 DEF Create, Vanish, parser
  <2> QED BY <1>0, <1>2, <2>1
<1>9. CASE UNCHANGED vars
  <2>1. UNCHANGED <<argv, path_count, operand, mode, ret, stack, out>>
    BY <1>9 DEF vars, walk, parser
  <2>2. stack' = stack /\ out' = out /\ ret' = ret
    BY <2>1
  <2> QED BY <1>0, <1>2, <2>1, <2>2
<1> QED BY <1>1, <1>3, <1>4, <1>5, <1>6, <1>7, <1>8, <1>9 DEF Next, Step, Done

\* What the step of an activation on its way may rely on.
LEMMA TopIsOnCourse ==
  ASSUME Inv, Phases, Course, Untouched, stack # <<>>
  PROVE  /\ stack \in Seq(Activation) /\ Top \in Activation /\ Top.path \in Path
         /\ operand \in 1..Len(Operands) /\ OnCourse(Top)
         /\ \A p : Stays(p) => p \in DOMAIN tree
         /\ \A p : /\ Stays(p) /\ IsPrefix(Top.path, p) /\ p # Top.path
                   => /\ IsDir(tree, Top.path) /\ p[Len(Top.path) + 1] \in Entries(tree, Top.path)
                      /\ IsPrefix(Append(Top.path, p[Len(Top.path) + 1]), p)
<1>1. stack \in Seq(Activation) /\ IsTree(tree)
  BY DEF Inv, WalkOK
<1>2. Top \in Activation
  BY TopOfStack DEF Inv
<1>3. Top.path \in Path
  BY <1>2 DEF Activation
<1>4. operand \in 1..Len(Operands)
  BY OperandsAreWords DEF Phases, Inv, ParserInv
<1>5. OnCourse(Top)
  <2>1. Len(stack) \in DOMAIN stack /\ Top = stack[Len(stack)]
    BY <1>1 DEF Top, Last
  <2> QED BY <2>1 DEF Course
<1>6. \A p : Stays(p) => p \in DOMAIN tree
  BY DEF Stays, Untouched
<1> QED BY <1>1, <1>2, <1>3, <1>4, <1>5, <1>6, StepDown

\* lstat() and check_node(): what it is called for is reported or gone, and what lies
\* below is owed still.
LEMMA LstatCovers ==
  ASSUME Inv, Shape, Untouched, Untouched', Phases, Course, Covered, LstatFails \/ LstatDone
  PROVE  Course' /\ Covered'
<1>0. /\ stack # <<>> /\ mode = "parsed" /\ Top.at = "lstat"
      /\ UNCHANGED <<argv, path_count, nodes, value, setting, operand, tree>>
      /\ ret' = 0 => ret = 0
  BY DEF LstatFails, LstatDone, Busy, parser
<1>1. /\ stack \in Seq(Activation) /\ Top \in Activation /\ Top.path \in Path
      /\ operand \in 1..Len(Operands) /\ OnCourse(Top)
      /\ \A p : Stays(p) => p \in DOMAIN tree
      /\ \A p : /\ Stays(p) /\ IsPrefix(Top.path, p) /\ p # Top.path
                => IsDir(tree, Top.path)
  BY <1>0, TopIsOnCourse
<1>2. CASE LstatFails
  <2>1. stack' = Front(stack) /\ ret' = 1 /\ out' = out
    BY <1>2 DEF LstatFails
  <2>2. Replaces(stack, stack', {})
    BY <1>0, <1>1, <2>1, StackReplaces
  <2>3. Course'
    BY <1>0, <2>2, CourseKept
  <2>4. \A t : Copies(t) > 0 => Copies(t)' > 0
    BY <2>1 DEF Copies
  <2>5. ret' # 0
    BY <2>1
  <2>6. Covered'
    BY <1>0, <2>2, <2>4, <2>5, CoveredKept
  <2> QED BY <2>3, <2>6
<1>3. CASE LstatDone
  <2> DEFINE c == CheckNode(value, Top.path, Top.text)
             next == [Top EXCEPT !.at = "opendir"]
             A == IF IsDir(tree, Top.path) THEN {next} ELSE {}
  <2>1. next \in Activation /\ next.path = Top.path /\ next.text = Top.text /\ next.at = "opendir"
        /\ next.seen = Top.seen
    BY <1>1 DEF Activation
  <2>2. Replaces(stack, stack', A)
    <3> HIDE DEF next
    <3>1. stack' = IF IsDir(tree, Top.path) THEN Append(Front(stack), next) ELSE Front(stack)
      BY <1>3 DEF LstatDone, next
    <3> QED BY <1>0, <1>1, <2>1, <3>1, StackReplaces
  <2>3. OnCourse(next)
    BY <1>0, <1>1, <2>1 DEF OnCourse
  <2>4. Course'
    <3> HIDE DEF next
    <3>1. \A a \in A : OnCourse(a)
      BY <2>3
    <3> HIDE DEF A
    <3> QED BY <1>0, <2>2, <3>1, CourseKept
  <2>5. /\ \A t : Copies(t) > 0 => Copies(t)' > 0
        /\ \A t : t = Top.text /\ c.truth => Copies(t)' > 0
    BY <1>3, Prints
  <2>6. ASSUME NEW p \in Below(operand), Stays(p), ret' = 0, ~Refused("opendir"), Timeless,
               stack # <<>>, Owes(Top, p)
        PROVE  Reported(operand, p)' \/ \E a \in A : Owes(a, p)
    <3>1. IsPrefix(Top.path, p)
      BY <2>6 DEF Owes
    <3>2. CASE p = Top.path
      <4>1. TextOf(operand, p) = Top.text
        BY <1>1, <3>2 DEF OnCourse
      <4>2. c.truth = Holds(value, p, Top.text)
        <5>1. Ordered(nodes) /\ Whole(nodes) /\ value \in 1..Len(nodes)
          BY <1>0, ParserParts DEF Shape, Inv, ParserInv, PrintsLast
        <5> QED BY <3>2, <5>1, CheckDecides
      <4>3. Reported(operand, p)'
        <5>1. TextOf(operand, p)' = Top.text
          BY <1>0, <4>1 DEF TextOf, Operands
        <5>2. operand' = operand /\ p \in DOMAIN setting.tree
          BY <1>0, <2>6 DEF Stays
        <5>3. Holds(value, p, TextOf(operand, p))' = Holds(value, p, TextOf(operand, p))
          <6> DEFINE i == operand
          <6>1. i' = i
            BY <5>2
          <6>2. \A j : Holds(value, p, TextOf(j, p))' = Holds(value, p, TextOf(j, p))
            BY <1>0, <2>6, <5>2, HoldsKept
          <6> QED BY <6>1, <6>2
        <5> QED BY <2>5, <4>1, <4>2, <5>1, <5>3 DEF Reported
      <4> QED BY <4>3
    <3>3. CASE p # Top.path
      <4>1. IsDir(tree, Top.path)
        BY <1>1, <2>6, <3>1, <3>3
      <4>2. Owes(next, p)
        BY <2>1, <3>1, <3>3 DEF Owes
      <4> QED BY <4>1, <4>2
    <3> QED BY <3>2, <3>3
  <2>7. Covered'
    <3> HIDE DEF A, c
    <3> QED BY <1>0, <2>2, <2>5, <2>6, CoveredKept
  <2> QED BY <2>4, <2>7
<1> QED BY <1>2, <1>3

\* opendir(): it can only fail for what is gone, and the snapshot has what stays.
LEMMA OpendirCovers ==
  ASSUME Inv, Shape, Untouched, Untouched', Phases, Course, Covered, OpendirDone \/ OpendirFails
  PROVE  Course' /\ Covered'
<1>0. /\ stack # <<>> /\ mode = "parsed" /\ Top.at = "opendir"
      /\ UNCHANGED <<argv, path_count, nodes, value, setting, operand, tree>>
      /\ ret' = 0 => ret = 0
      /\ out' = out
  BY DEF OpendirDone, OpendirFails, Busy, parser
<1>1. /\ stack \in Seq(Activation) /\ Top \in Activation /\ Top.path \in Path
      /\ operand \in 1..Len(Operands) /\ OnCourse(Top)
      /\ \A p : /\ Stays(p) /\ IsPrefix(Top.path, p) /\ p # Top.path
                => /\ IsDir(tree, Top.path) /\ p[Len(Top.path) + 1] \in Entries(tree, Top.path)
  BY <1>0, TopIsOnCourse
<1>2. \A t : Copies(t) > 0 => Copies(t)' > 0
  BY <1>0 DEF Copies
<1>3. CASE OpendirFails
  <2>1. stack' = Front(stack) /\ (~IsDir(tree, Top.path) \/ Refused("opendir"))
    BY <1>3 DEF OpendirFails
  <2>2. Replaces(stack, stack', {})
    BY <1>0, <1>1, <2>1, StackReplaces
  <2>3. Course'
    BY <1>0, <2>2, CourseKept
  <2>4. ASSUME NEW p \in Below(operand), Stays(p), ret' = 0, ~Refused("opendir"), Timeless,
               stack # <<>>, Owes(Top, p)
        PROVE  FALSE
    BY <1>0, <1>1, <2>1, <2>4 DEF Owes
  <2>5. Covered'
    BY <1>0, <1>2, <2>2, <2>4, CoveredKept
  <2> QED BY <2>3, <2>5
<1>4. CASE OpendirDone
  <2> DEFINE next == [Top EXCEPT !.at = "readdir", !.snap = Entries(tree, Top.path) \cup Dots]
  <2>1. next \in Activation /\ next.path = Top.path /\ next.text = Top.text /\ next.at = "readdir"
        /\ next.seen = Top.seen /\ next.snap = Entries(tree, Top.path) \cup Dots
    BY <1>1 DEF Activation, Entries
  <2> HIDE DEF next
  <2>2. Replaces(stack, stack', {next})
    <3>1. stack' = Append(Front(stack), next)
      BY <1>4 DEF OpendirDone, next
    <3> QED BY <1>0, <1>1, <2>1, <3>1, StackReplaces
  <2>3. OnCourse(next)
    BY <1>1, <2>1 DEF OnCourse
  <2>4. Course'
    BY <1>0, <2>2, <2>3, CourseKept
  <2>5. ASSUME NEW p \in Below(operand), Stays(p), ret' = 0, ~Refused("opendir"), Timeless,
               stack # <<>>, Owes(Top, p)
        PROVE  Owes(next, p)
    <3>1. IsPrefix(Top.path, p) /\ p # Top.path
      BY <1>0, <2>5 DEF Owes
    <3>2. p[Len(Top.path) + 1] \in Entries(tree, Top.path)
      BY <1>1, <2>5, <3>1
    <3>3. Top.seen = {}
      BY <1>0, <1>1 DEF OnCourse
    <3> QED BY <2>1, <3>1, <3>2, <3>3 DEF Owes
  <2>6. Covered'
    BY <1>0, <1>2, <2>2, <2>5, CoveredKept
  <2> QED BY <2>4, <2>6
<1> QED BY <1>3, <1>4

\* readdir(): what stays comes at some time, and its activation takes over.
LEMMA ReaddirCovers ==
  ASSUME Inv, Shape, Untouched, Untouched', Phases, Course, Covered, ReaddirEntry \/ ReaddirEnd
  PROVE  Course' /\ Covered'
<1>0. /\ stack # <<>> /\ mode = "parsed" /\ Top.at = "readdir"
      /\ UNCHANGED <<argv, path_count, nodes, value, setting, operand, tree>>
      /\ ret' = 0 => ret = 0
      /\ out' = out
  BY DEF ReaddirEntry, ReaddirEnd, Busy, parser
<1>1. /\ stack \in Seq(Activation) /\ Top \in Activation /\ Top.path \in Path
      /\ operand \in 1..Len(Operands) /\ OnCourse(Top)
      /\ \A p : /\ Stays(p) /\ IsPrefix(Top.path, p) /\ p # Top.path
                => /\ IsDir(tree, Top.path) /\ p[Len(Top.path) + 1] \in Entries(tree, Top.path)
                   /\ IsPrefix(Append(Top.path, p[Len(Top.path) + 1]), p)
  BY <1>0, TopIsOnCourse
<1>2. \A t : Copies(t) > 0 => Copies(t)' > 0
  BY <1>0 DEF Copies
<1>3. ASSUME NEW p, Stays(p), Owes(Top, p)
      PROVE  /\ IsPrefix(Top.path, p) /\ p # Top.path
             /\ p[Len(Top.path) + 1] \in Entries(tree, Top.path)
             /\ p[Len(Top.path) + 1] \in Top.snap \ Top.seen
             /\ IsPrefix(Append(Top.path, p[Len(Top.path) + 1]), p)
  BY <1>0, <1>1, <1>3 DEF Owes
<1>4. CASE ReaddirEnd
  <2>1. stack' = Front(stack) /\ Pending(tree, Top.path, Top) = {}
    BY <1>4 DEF ReaddirEnd
  <2>2. Replaces(stack, stack', {})
    BY <1>0, <1>1, <2>1, StackReplaces
  <2>3. Course'
    BY <1>0, <2>2, CourseKept
  <2>4. ASSUME NEW p \in Below(operand), Stays(p), ret' = 0, ~Refused("opendir"), Timeless,
               stack # <<>>, Owes(Top, p)
        PROVE  FALSE
    <3>1. p[Len(Top.path) + 1] \in Pending(tree, Top.path, Top)
      BY <1>3, <2>4 DEF Pending, Readable
    <3> QED BY <2>1, <3>1
  <2>5. Covered'
    BY <1>0, <1>2, <2>2, <2>4, CoveredKept
  <2> QED BY <2>3, <2>5
<1>5. CASE ReaddirEntry
  <2>1. PICK n \in Readable(tree, Top.path, Top) :
          LET read == Append(Front(stack), [Top EXCEPT !.seen = @ \cup {n}])
          IN  stack' = IF n \in Dots THEN read
                       ELSE Append(read, Call(Append(Top.path, n), FullPath(Top.text, n)))
    BY <1>5 DEF ReaddirEntry
  <2> DEFINE rest == [Top EXCEPT !.seen = @ \cup {n}]
             call == Call(Append(Top.path, n), FullPath(Top.text, n))
  <2>2. /\ rest \in Activation /\ rest.path = Top.path /\ rest.text = Top.text /\ rest.at = "readdir"
        /\ rest.seen = Top.seen \cup {n} /\ rest.snap = Top.snap
    <3>1. rest \in Activation
      BY <1>1, EntryIsActivation
    <3> QED BY <1>0, <1>1, <3>1 DEF Activation
  <2>3. OnCourse(rest)
    BY <1>1, <2>2 DEF OnCourse
  <2>4. CASE n \in Dots
    <3> HIDE DEF rest
    <3>1. stack' = Append(Front(stack), rest)
      BY <2>1, <2>4 DEF rest
    <3>2. Replaces(stack, stack', {rest})
      BY <1>0, <1>1, <2>2, <3>1, StackReplaces
    <3>3. Course'
      BY <1>0, <2>3, <3>2, CourseKept
    <3>4. ASSUME NEW p \in Below(operand), Stays(p), ret' = 0, ~Refused("opendir"), Timeless,
                 stack # <<>>, Owes(Top, p)
          PROVE  Owes(rest, p)
      <4>1. p[Len(Top.path) + 1] # n
        BY <1>3, <2>4, <3>4, NameAssumption DEF Entries, Dots
      <4> QED BY <1>3, <2>2, <3>4, <4>1 DEF Owes
    <3>5. Covered'
      BY <1>0, <1>2, <3>2, <3>4, CoveredKept
    <3> QED BY <3>3, <3>5
  <2>5. CASE n \notin Dots
    <3>1. n \in Name
      BY <1>1, <2>5 DEF Readable, Entries, Activation
    <3>2. /\ call \in Activation /\ call.path = Append(Top.path, n) /\ call.at = "lstat"
          /\ call.text = FullPath(Top.text, n) /\ call.seen = {}
      <4>1. call \in Activation
        BY <1>1, <2>5, EntryIsActivation
      <4> QED BY <4>1 DEF Call
    <3>3. OnCourse(call)
      <4>1. IsPrefix(Leads[Operands[operand]], Top.path) /\ Top.text = TextOf(operand, Top.path)
        BY <1>1 DEF OnCourse
      <4>2. Operands[operand] \in Word
        BY <1>1, OperandsAreWords DEF Inv, ParserInv
      <4>3. Leads[Operands[operand]] \in Seq(Name) /\ Top.path \in Seq(Name)
        BY <1>1, <4>2, FindAssumption DEF Path
      <4>4. IsPrefix(Leads[Operands[operand]], Append(Top.path, n))
        BY <3>1, <4>1, <4>3, PrefixOfEntry
      <4>5. TextOf(operand, Append(Top.path, n)) = FullPath(Top.text, n)
        BY <1>1, <3>1, <4>1, TextGrows DEF Inv, ParserInv
      <4> HIDE DEF call
      <4> QED BY <3>2, <4>4, <4>5 DEF OnCourse
    <3> HIDE DEF rest, call
    <3>4. stack' = Append(Append(Front(stack), rest), call)
      BY <2>1, <2>5 DEF rest, call
    <3>5. Replaces(stack, stack', {rest, call})
      BY <1>0, <1>1, <2>2, <3>2, <3>4, StackReplaces
    <3>6. Course'
      <4>1. \A a \in {rest, call} : OnCourse(a)
        BY <2>3, <3>3
      <4> QED BY <1>0, <3>5, <4>1, CourseKept
    <3>7. ASSUME NEW p \in Below(operand), Stays(p), ret' = 0, ~Refused("opendir"), Timeless,
                 stack # <<>>, Owes(Top, p)
          PROVE  \E a \in {rest, call} : Owes(a, p)
      <4>1. CASE p[Len(Top.path) + 1] = n
        <5>1. Owes(call, p)
          BY <1>3, <3>2, <3>7, <4>1 DEF Owes
        <5> QED BY <5>1
      <4>2. CASE p[Len(Top.path) + 1] # n
        <5>1. Owes(rest, p)
          BY <1>3, <2>2, <3>7, <4>2 DEF Owes
        <5> QED BY <5>1
      <4> QED BY <4>1, <4>2
    <3>8. Covered'
      BY <1>0, <1>2, <3>5, <3>7, CoveredKept
    <3> QED BY <3>6, <3>8
  <2> QED BY <2>4, <2>5
<1> QED BY <1>4, <1>5

\* The next operand.
LEMMA OperandCovers ==
  ASSUME Inv, Shape, Untouched, Untouched', Phases, Covered, NextOperand
  PROVE  Course' /\ Covered'
<1> DEFINE i == operand + 1
           start == Leads[Operands[i]]
           call == Call(start, Spell[Operands[i]])
<1>0. /\ stack = <<>> /\ stack' = <<call>> /\ operand' = i /\ operand < Len(Operands)
      /\ UNCHANGED <<argv, path_count, nodes, value, setting, tree, ret, out>>
  BY DEF NextOperand, parser
<1>1. i \in 1..Len(Operands) /\ operand \in Nat /\ i \notin 1..operand
  BY <1>0, OperandsAreWords DEF Inv, ParserInv, WalkOK
<1>2. start \in Seq(Name)
  BY <1>1, OperandsAreWords, FindAssumption DEF Inv, ParserInv, Path
<1>3. call.path = start /\ call.text = Spell[Operands[i]] /\ call.at = "lstat" /\ call.seen = {}
  BY DEF Call
<1>4. /\ Operands' = Operands /\ \A j, p : TextOf(j, p)' = TextOf(j, p)
      /\ Refused("opendir")' = Refused("opendir") /\ Timeless' = Timeless
      /\ \A p : Stays(p)' = Stays(p)
      /\ \A j : Below(j)' = Below(j)
  BY <1>0 DEF Operands, TextOf, Refused, Timeless, Stays, Below
<1>5. Course'
  <2>1. IsPrefix(start, start)
    BY <1>2, PrefixElements
  <2>2. TextOf(i, start) = Spell[Operands[i]]
    <3>1. Rest(i, start) = <<>>
      BY <1>2 DEF Rest
    <3> HIDE DEF start, i
    <3> QED BY <3>1, TextIs
  <2> HIDE DEF call, start, i
  <2>3. DOMAIN stack' = {1} /\ stack'[1] = call
    BY <1>0
  <2>4. /\ IsPrefix(Leads[Operands'[operand']], call.path)
        /\ call.text = TextOf(i, call.path)
    BY <1>0, <1>3, <1>4, <2>1, <2>2 DEF start
  <2> QED BY <1>0, <1>3, <1>4, <2>3, <2>4 DEF Course, OnCourse
<1>6. ASSUME ret = 0, ~Refused("opendir"), Timeless, NEW j \in 1..i, NEW p \in Below(j), Stays(p)
      PROVE  Reported(j, p)' \/ (j = i /\ \E k \in DOMAIN stack' : Owes(stack'[k], p))
  <2>1. CASE j = i
    <3>1. IsPrefix(start, p)
      BY <2>1 DEF Below
    <3>2. Owes(call, p)
      BY <1>3, <3>1 DEF Owes
    <3> HIDE DEF call
    <3>3. 1 \in DOMAIN stack' /\ stack'[1] = call
      BY <1>0
    <3> QED BY <2>1, <3>2, <3>3
  <2>2. CASE j \in 1..operand
    <3>1. Reported(j, p)
      BY <1>0, <1>6, <2>2 DEF Covered
    <3>2. \A t : Copies(t) > 0 => Copies(t)' > 0
      BY <1>0 DEF Copies
    <3>3. p \in DOMAIN setting.tree
      BY <1>6 DEF Stays
    <3> QED BY <1>0, <1>6, <3>1, <3>2, <3>3, ReportedStays
  <2> QED BY <1>1, <2>1, <2>2
<1>7. Covered'
  <2> HIDE DEF i
  <2> QED BY <1>0, <1>4, <1>6 DEF Covered
<1> QED BY <1>5, <1>7

\* Whatever leaves do_find alone.
LEMMA OthersCover ==
  ASSUME Inv, Shape, Untouched, Untouched', Phases, Course, Covered,
         UNCHANGED <<argv, path_count, nodes, value, setting, operand, stack, out>>,
         ret' = 0 => ret = 0
  PROVE  Course' /\ Covered'
<1> DEFINE A == IF stack = <<>> THEN {} ELSE {Top}
<1>1. /\ Replaces(stack, stack', A) /\ \A a \in A : OnCourse(a)
      /\ stack # <<>> => Top \in A
  <2>1. CASE stack = <<>>
    BY <2>1 DEF Replaces
  <2>2. CASE stack # <<>>
    <3>1. stack \in Seq(Activation) /\ OnCourse(Top)
      BY <2>2, TopIsOnCourse
    <3>2. Len(stack) \in DOMAIN stack /\ Top = stack[Len(stack)]
      BY <2>2, <3>1 DEF Top, Last
    <3>3. A = {Top} /\ stack' = stack
      BY <2>2
    <3>4. \E k \in DOMAIN stack : stack[k] = Top
      BY <3>2
    <3> HIDE DEF A
    <3> QED BY <3>1, <3>3, <3>4 DEF Replaces
  <2> QED BY <2>1, <2>2
<1>2. \A t : Copies(t) > 0 => Copies(t)' > 0
  BY DEF Copies
<1> HIDE DEF A
<1>3. Course'
  BY <1>1, CourseKept
<1>4. ASSUME NEW p \in Below(operand), Stays(p), ret' = 0, ~Refused("opendir"), Timeless,
             stack # <<>>, Owes(Top, p)
      PROVE  \E a \in A : Owes(a, p)
  BY <1>1, <1>4
<1> QED BY <1>1, <1>2, <1>3, <1>4, CoveredKept

\* All of it together.
Search == Shape /\ Untouched /\ Phases /\ Course /\ Covered

\* The walk leaves the expression as it is.
LEMMA ShapeNext ==
  ASSUME Inv, Shape, [Next]_vars
  PROVE  Shape'
<1>1. CASE Parse
  BY <1>1, ParseShape DEF Parse, Inv
<1>2. CASE ~Parse
  <2>1. UNCHANGED <<argv, nodes, value, has_action>> /\ (mode' = mode \/ mode' = "exited")
    <3>1. CASE Step
      BY <1>2, <3>1 DEF Step, NextOperand, LstatFails, LstatDone, OpendirDone, OpendirFails,
         ReaddirEntry, ReaddirEnd, WalkEnds, GiveUp, parser
    <3>2. CASE \E q \in setting.fresh : Create(q) \/ Vanish(q)
      BY <3>2 DEF Create, Vanish, parser
    <3>3. CASE UNCHANGED vars
      BY <3>3 DEF vars, parser
    <3> QED BY <3>1, <3>2, <3>3 DEF Next, Done
  <2> QED BY <2>1 DEF Shape
<1> QED BY <1>1, <1>2

\* The invariant holds at the start.
LEMMA SearchInit == Init => Search
<1> SUFFICES ASSUME Init PROVE Search
  OBVIOUS
<1>1. /\ nodes = <<>> /\ has_action = 0 /\ mode = "paths" /\ tree = setting.tree
      /\ operand = 0 /\ stack = <<>> /\ out = <<>> /\ ret = 0 /\ Inv
  BY InitInv DEF Init, ParseInit
<1>2. Shape
  BY <1>1 DEF Shape, Whole, Written
<1>3. Untouched
  BY <1>1 DEF Untouched, Stays
<1>4. Phases
  BY <1>1, OperandsAreWords DEF Phases, Inv, ParserInv
<1>5. Course /\ Covered
  BY <1>1 DEF Course, Covered
<1> QED BY <1>2, <1>3, <1>4, <1>5 DEF Search

\* And every step keeps it.
LEMMA SearchNext ==
  ASSUME Inv, Search, [Next]_vars, Inv'
  PROVE  Search'
<1>1. Shape' /\ Untouched' /\ Phases'
  BY ShapeNext, UntouchedNext, PhasesNext DEF Search
<1>2. CASE Parse
  <2>1. mode \notin {"parsed", "exited"} /\ UNCHANGED walk
    BY <1>2 DEF Parse, ParseStep, SkipPath, NoExpression, BeginExpression, ParseFails, ParseSucceeds,
     ExprMissing, ExprParen, ExprNot, PrimaryUnknown, PrimaryBare, PrimaryWithArgument,
     PrimaryBadArgument, NullGoesUp, NotDone, ParenDone, ParenUnmatched,
     AndGoesOn, AndDone, OrGoesOn, OrDone, Returning
  <2>2. operand' = 0 /\ stack' = <<>>
    BY <2>1 DEF Search, Phases, walk
  <2>3. Course' /\ Covered'
    BY <2>2 DEF Course, Covered
  <2> QED BY <1>1, <2>3 DEF Search
<1>3. ASSUME UNCHANGED <<argv, path_count, nodes, value, setting, operand, stack, out>>, ret' = 0 => ret = 0
      PROVE  Course' /\ Covered'
  BY <1>1, <1>3, OthersCover DEF Search
<1>4. CASE Step /\ ~Parse
  <2>1. CASE WalkEnds \/ GiveUp
    <3>1. /\ UNCHANGED <<argv, path_count, nodes, value, setting, operand, stack, out>>
          /\ ret' = 0 => ret = 0
      BY <2>1 DEF WalkEnds, GiveUp, walk
    <3> QED BY <1>1, <1>3, <3>1 DEF Search
  <2>2. CASE ~(WalkEnds \/ GiveUp)
    <3>1. Course' /\ Covered'
      BY <1>1, <1>4, <2>2, LstatCovers, OpendirCovers, ReaddirCovers, OperandCovers DEF Search, Step
    <3> QED BY <1>1, <3>1 DEF Search
  <2> QED BY <2>1, <2>2
<1>5. CASE (\E q \in setting.fresh : Create(q) \/ Vanish(q)) \/ UNCHANGED vars
  <2>1. /\ UNCHANGED <<argv, path_count, nodes, value, setting, operand, stack, out>>
        /\ ret' = ret
    BY <1>5 DEF Create, Vanish, vars, walk, parser
  <2> QED BY <1>1, <1>3, <2>1 DEF Search
<1> QED BY <1>2, <1>4, <1>5 DEF Next, Done

\* An exit status of 0 means that every entry which no other program touched, and
\* of which the expression holds, has been written: for any expression, any tree
\* and whatever else comes and goes in it while do_find reads its directories.
THEOREM FindsStaying == Spec => []FindsWhatStays
<1>1. Inv /\ Search => FindsWhatStays
  <2> SUFFICES ASSUME Inv, Search, mode = "exited", ret = 0, ~Refused("opendir"), Timeless,
                      NEW i \in DOMAIN Operands, NEW p \in Below(i),
                      Stays(p), Holds(value, p, TextOf(i, p))
               PROVE  Copies(TextOf(i, p)) > 0
    BY DEF FindsWhatStays
  <2>1. i \in 1..operand /\ stack = <<>>
    BY OperandsAreWords DEF Search, Phases, Inv, ParserInv
  <2>2. Reported(i, p)
    BY <2>1 DEF Search, Covered
  <2> QED BY <2>2 DEF Reported
<1>2. Inv /\ Search /\ [Next]_vars => Inv' /\ Search'
  BY NextInv, SearchNext
<1>3. Init => Inv /\ Search
  BY InitInv, SearchInit
<1> QED BY <1>1, <1>2, <1>3, PTL DEF Spec

-------------------------------------------------------------------------------
(***************************************************************************)
(* And nothing else.  What check_node prints can be counted, a line leads  *)
(* back to one path, and do_find comes to no path twice for an operand.    *)
(***************************************************************************)
\* The -print nodes of an expression.
PrintNodes == {n \in DOMAIN nodes : nodes[n].type = "-print"}

\* Under a node whose parts are apart, check_node prints at most once for each -print:
\* it comes to no node twice.
LEMMA PutsBounded ==
  ASSUME Ordered(nodes), Whole(nodes), NEW path, NEW text
  PROVE  /\ IsFiniteSet(PrintNodes) /\ Cardinality(PrintNodes) \in Nat
         /\ \A k \in 1..Len(nodes) :
              (\A n \in Sub(nodes, k) : Apart(nodes, n)) =>
                CheckNode(k, path, text).puts <= Cardinality(PrintNodes \cap Sub(nodes, k))
<1> DEFINE n == Len(nodes)
           C(k) == CheckNode(k, path, text)
           Under(k) == PrintNodes \cap Sub(nodes, k)
           Split(k) == \A m \in Sub(nodes, k) : Apart(nodes, m)
           Good(m) == \A k \in 1..m : Split(k) => C(k).puts <= Cardinality(Under(k))
           S == {m \in Nat : m <= n => Good(m)}
<1>0. n \in Nat /\ DOMAIN nodes = 1..n
  BY Children
<1>1. IsFiniteSet(PrintNodes)
  <2>1. IsFiniteSet(1..n)
    BY <1>0, FS_Interval
  <2>2. PrintNodes \in SUBSET (1..n)
    BY <1>0 DEF PrintNodes
  <2> QED BY <2>1, <2>2, FS_Subset
<1>2. \A A, B : A \subseteq B /\ B \subseteq PrintNodes =>
        /\ IsFiniteSet(A) /\ Cardinality(A) \in Nat /\ Cardinality(B) \in Nat
        /\ Cardinality(A) <= Cardinality(B)
  <2> SUFFICES ASSUME NEW A, NEW B, A \subseteq B, B \subseteq PrintNodes
               PROVE  /\ IsFiniteSet(A) /\ Cardinality(A) \in Nat /\ Cardinality(B) \in Nat
                      /\ Cardinality(A) <= Cardinality(B)
    OBVIOUS
  <2>1. IsFiniteSet(B)
    BY <1>1, FS_Subset
  <2>2. IsFiniteSet(A) /\ Cardinality(A) <= Cardinality(B)
    BY <2>1, FS_Subset
  <2> QED BY <2>1, <2>2, FS_CardinalityType
<1>3. \A k \in 1..n :
        Checked(nodes[k].type, C(k), C(nodes[k].left), C(nodes[k].right), Test(nodes[k], path, text))
  <2>1. \A k \in 1..Len(nodes) : nodes[k].type \in Tests => Test(nodes[k], path, text) \in BOOLEAN
    BY TestIsBoolean
  <2> QED BY <2>1, CheckIs
<1>4. \A k : Under(k) \subseteq PrintNodes
  OBVIOUS
<1> HIDE DEF C, Under
<1>5. 0 \in S
  OBVIOUS
<1>6. ASSUME NEW m \in Nat, m \in S PROVE m + 1 \in S
  <2> SUFFICES ASSUME m + 1 <= n, Split(m + 1)
               PROVE  C(m + 1).puts <= Cardinality(Under(m + 1))
    <3>1. m <= n \/ ~(m + 1 <= n)
      BY <1>0
    <3>2. \A j \in 1..(m + 1) : j \in 1..m \/ j = m + 1
      OBVIOUS
    <3> HIDE DEF n, Split
    <3> QED BY <1>6, <3>1, <3>2
  <2> DEFINE k == m + 1
             l == nodes[k].left
             r == nodes[k].right
             type == nodes[k].type
             t == Test(nodes[k], path, text)
  <2>1. k \in 1..n /\ Good(m)
    BY <1>0, <1>6
  <2>2. l \in 0..m /\ r \in 0..m /\ Sub(nodes, k) = {k} \cup Sub(nodes, l) \cup Sub(nodes, r)
    <3>1. l \in 0..(k - 1) /\ r \in 0..(k - 1) /\ k - 1 = m
      BY <2>1, Children
    <3> QED BY <2>1, <3>1, SubIs
  <2>3. /\ type \in Operator => l \in 1..m
        /\ type \in {"and", "or"} => r \in 1..m
    BY <2>1, <2>2 DEF Whole, Operator
  <2>4. Apart(nodes, k) /\ Split(l) /\ Split(r)
    BY <2>2
  <2>5. /\ type \in Operator => C(l).puts <= Cardinality(Under(l)) /\ C(l) \in Results
        /\ type \in {"and", "or"} => C(r).puts <= Cardinality(Under(r)) /\ C(r) \in Results
    <3>1. 1..m \subseteq 1..n
      BY <2>1
    <3>2. \A j \in 1..m : C(j) \in Results /\ (Split(j) => C(j).puts <= Cardinality(Under(j)))
      BY <1>3, <2>1, <3>1 DEF Checked
    <3> HIDE DEF l, r, type, Split, Good, n
    <3> QED BY <2>3, <2>4, <3>2 DEF Operator
  <2>6. Checked(type, C(k), C(l), C(r), t)
    BY <1>3, <2>1
  <2>7. /\ Under(l) \subseteq Under(k) /\ Under(r) \subseteq Under(k)
        /\ Under(l) \cap Under(r) = {}
    BY <2>2, <2>4 DEF Under, Apart
  <2>8. type = "-print" => k \in Under(k)
    BY <1>0, <2>1, <2>2 DEF Under, PrintNodes
  <2> HIDE DEF k, l, r, type, t, n, Good, Split
  <2>9. /\ Cardinality(Under(k)) \in Nat /\ Cardinality(Under(l)) \in Nat /\ Cardinality(Under(r)) \in Nat
        /\ Cardinality(Under(l)) <= Cardinality(Under(k))
        /\ IsFiniteSet(Under(l)) /\ IsFiniteSet(Under(r)) /\ IsFiniteSet(Under(k))
    BY <1>2, <1>4, <2>7
  <2>10. Cardinality(Under(l)) + Cardinality(Under(r)) <= Cardinality(Under(k))
    <3>1. Cardinality(Under(l) \cup Under(r)) = Cardinality(Under(l)) + Cardinality(Under(r)) - Cardinality({})
      BY <2>7, <2>9, FS_Union
    <3>2. Cardinality({}) = 0
      BY FS_EmptySet
    <3>3. Under(l) \cup Under(r) \subseteq Under(k) /\ Under(k) \subseteq PrintNodes
      BY <1>4, <2>7
    <3>4. Cardinality(Under(l) \cup Under(r)) <= Cardinality(Under(k))
      BY <1>2, <3>3
    <3> QED BY <2>9, <3>1, <3>2, <3>4
  <2>11. type = "-print" => Cardinality(Under(k)) >= 1
    <3>1. ASSUME k \in Under(k) PROVE Cardinality(Under(k)) # 0
      BY <2>9, <3>1, FS_EmptySet
    <3> QED BY <2>8, <2>9, <3>1
  <2>12. C(k).puts <= Cardinality(Under(k))
    <3> DEFINE cl == C(l)
               cr == C(r)
               ck == C(k)
               ul == Cardinality(Under(l))
               ur == Cardinality(Under(r))
               uk == Cardinality(Under(k))
    <3>1. /\ uk \in Nat /\ ul \in Nat /\ ur \in Nat /\ ul <= uk /\ ul + ur <= uk
          /\ type = "-print" => uk >= 1
          /\ type \in Operator => cl.puts <= ul /\ cl \in Results
          /\ type \in {"and", "or"} => cr.puts <= ur /\ cr \in Results
          /\ Checked(type, ck, cl, cr, t)
      BY <2>5, <2>6, <2>9, <2>10, <2>11
    <3> HIDE DEF cl, cr, ck, ul, ur, uk
    <3> SUFFICES ck.puts <= uk
      BY DEF ck, uk
    <3>2. CASE type = "not"
      <4>1. ck.puts = cl.puts
        BY <3>1, <3>2, Zenon DEF Checked
      <4> QED BY <3>1, <3>2, <4>1 DEF Operator, Results
    <3>3. CASE type \in {"and", "or"}
      <4>1. cl.puts \in Nat /\ cr.puts \in Nat /\ cl.puts <= ul /\ cr.puts <= ur
        BY <3>1, <3>3 DEF Results, Operator
      <4>2. ck = cl \/ ck = Then(cl, cr)
        <5>1. CASE type = "and"
          BY <3>1, <5>1 DEF Checked
        <5>2. CASE type = "or"
          BY <3>1, <5>2 DEF Checked
        <5> QED BY <3>3, <5>1, <5>2
      <4>3. Then(cl, cr).puts = cl.puts + cr.puts
        BY DEF Then, Result
      <4> QED BY <3>1, <4>1, <4>2, <4>3
    <3>4. CASE type = "-print"
      <4>1. ck = Result(TRUE, 1, FALSE)
        BY <3>1, <3>4, Zenon DEF Checked
      <4>2. ck.puts = 1
        BY <4>1 DEF Result
      <4> QED BY <3>1, <3>4, <4>2
    <3>5. CASE type \notin Operator \cup {"-print"}
      <4>1. ck.puts = 0
        BY <3>1, <3>5 DEF Checked
      <4> QED BY <3>1, <4>1
    <3> QED BY <3>2, <3>3, <3>4, <3>5 DEF Operator
  <2> QED BY <2>12 DEF k
<1>7. Good(n)
  <2> HIDE DEF Good
  <2>1. Nat \subseteq S
    <3> HIDE DEF S
    <3> QED BY <1>5, <1>6, InductionOnSet
  <2> QED BY <1>0, <2>1
<1>8. Cardinality(PrintNodes) \in Nat
  BY <1>1, FS_CardinalityType
<1> QED BY <1>1, <1>7, <1>8 DEF C, Under

\* With one -print, the one that is last, what check_node prints the expression holds of.
LEMMA PutsOnlyTrue ==
  ASSUME Ordered(nodes), Whole(nodes), PrintsLast(nodes, value), NEW path, NEW text,
         \A n \in Sub(nodes, value) : Apart(nodes, n)
  PROVE  LET c == CheckNode(value, path, text)
         IN  /\ c.puts \in Nat /\ c.puts <= Cardinality(PrintNodes)
             /\ Cardinality(PrintNodes) = 1 /\ c.puts > 0 => c.truth
<1> DEFINE C(k) == CheckNode(k, path, text)
           l == nodes[value].left
           r == nodes[value].right
           type == nodes[value].type
<1>0. /\ value \in 1..Len(nodes) /\ DOMAIN nodes = 1..Len(nodes) /\ Len(nodes) \in Nat
      /\ Sub(nodes, value) = {value} \cup Sub(nodes, l) \cup Sub(nodes, r)
  BY Children, SubIs DEF PrintsLast
<1>1. \A k \in 1..Len(nodes) :
        Checked(nodes[k].type, C(k), C(nodes[k].left), C(nodes[k].right), Test(nodes[k], path, text))
  <2>1. \A k \in 1..Len(nodes) : nodes[k].type \in Tests => Test(nodes[k], path, text) \in BOOLEAN
    BY TestIsBoolean
  <2> QED BY <2>1, CheckIs
<1>2. \A k \in 1..Len(nodes) : C(k).puts \in Nat
  BY <1>1 DEF Checked, Results
<1>3. /\ IsFiniteSet(PrintNodes) /\ Cardinality(PrintNodes) \in Nat
      /\ \A k \in 1..Len(nodes) :
           (\A n \in Sub(nodes, k) : Apart(nodes, n)) => C(k).puts <= Cardinality(PrintNodes \cap Sub(nodes, k))
  BY PutsBounded
<1>4. C(value).puts <= Cardinality(PrintNodes)
  <2>1. C(value).puts <= Cardinality(PrintNodes \cap Sub(nodes, value))
    BY <1>0, <1>3
  <2> HIDE DEF C
  <2>2. PrintNodes \cap Sub(nodes, value) \in SUBSET PrintNodes
    OBVIOUS
  <2>3. /\ Cardinality(PrintNodes \cap Sub(nodes, value)) <= Cardinality(PrintNodes)
        /\ Cardinality(PrintNodes \cap Sub(nodes, value)) \in Nat
    BY <1>3, <2>2, FS_Subset, FS_CardinalityType
  <2>4. C(value).puts \in Nat
    BY <1>0, <1>2
  <2> QED BY <1>3, <2>1, <2>3, <2>4
<1>5. Checked(type, C(value), C(l), C(r), Test(nodes[value], path, text))
  BY <1>0, <1>1
<1>6. ASSUME Cardinality(PrintNodes) = 1, C(value).puts > 0
      PROVE  C(value).truth
  <2>1. CASE type = "-print"
    <3>1. C(value) = Result(TRUE, 1, FALSE)
      BY <1>5, <2>1 DEF Checked
    <3> HIDE DEF C
    <3> QED BY <3>1 DEF Result
  <2>2. CASE type # "-print"
    <3>1. type = "and" /\ r \in 1..Len(nodes) /\ nodes[r].type = "-print" /\ l \in 1..Len(nodes)
      <4>1. type = "and" /\ r \in 1..Len(nodes) /\ nodes[r].type = "-print"
        BY <2>2 DEF PrintsLast
      <4>2. l \in 0..(value - 1) /\ l # 0
        BY <1>0, <4>1, Children DEF Whole
      <4> QED BY <1>0, <4>1, <4>2
    <3>2. C(r) = Result(TRUE, 1, FALSE)
      BY <1>1, <3>1 DEF Checked
    <3>3. C(value) = IF C(l).truth THEN Then(C(l), C(r)) ELSE C(l)
      BY <1>5, <3>1 DEF Checked
    <3>4. PrintNodes \cap Sub(nodes, l) = {}
      <4>1. r \in Sub(nodes, r) /\ r \in PrintNodes
        BY <1>0, <3>1, SubIs DEF PrintNodes
      <4>2. Sub(nodes, l) \cap Sub(nodes, r) = {}
        BY <1>0 DEF Apart
      <4>3. \A x \in PrintNodes : x = r
        <5>1. PICK y : PrintNodes = {y}
          BY <1>3, <1>6, FS_Singleton
        <5> QED BY <4>1, <5>1
      <4> HIDE DEF l, r
      <4> QED BY <4>1, <4>2, <4>3
    <3>5. C(l).puts = 0
      <4>1. \A n \in Sub(nodes, l) : Apart(nodes, n)
        BY <1>0
      <4>2. C(l).puts <= Cardinality(PrintNodes \cap Sub(nodes, l)) /\ C(l).puts \in Nat
        BY <1>2, <1>3, <3>1, <4>1
      <4>3. Cardinality(PrintNodes \cap Sub(nodes, l)) = 0
        BY <3>4, FS_EmptySet
      <4> HIDE DEF C, l
      <4> QED BY <4>2, <4>3
    <3> HIDE DEF C, l, r
    <3>6. C(l).truth
      <4>1. CASE C(l).truth
        BY <4>1
      <4>2. CASE ~C(l).truth
        <5>1. C(value) = C(l)
          BY <3>3, <4>2
        <5> QED BY <1>6, <3>5, <5>1
      <4> QED BY <4>1, <4>2
    <3>7. C(value).truth = C(r).truth
      BY <3>3, <3>6 DEF Then, Result
    <3> QED BY <3>2, <3>7 DEF Result
  <2> QED BY <2>1, <2>2
<1> QED BY <1>0, <1>2, <1>4, <1>6 DEF C

(***************************************************************************)
(* What a text leads to.  The kernel takes a line to one place: the text   *)
(* of an operand where Leads says, and the full path of an entry that is   *)
(* or may be in a directory to that entry.                                 *)
(***************************************************************************)
Places(s) == DOMAIN s.tree \cup s.fresh

Resolves(s) ==
  \E leads \in [Seq(Char) -> Path] :
    /\ \A w \in Word : leads[Spell[w]] = Leads[w]
    /\ \A t \in Seq(Char), n \in Name :
         Append(leads[t], n) \in Places(s) => leads[FullPath(t, n)] = Append(leads[t], n)

\* A path that can be there, with all that it lies in.
Real(p) == p \in Path /\ \A k \in 0..Len(p) : SubSeq(p, 1, k) \in Places(setting)

\* What is in the tree, at first or now, can be there.
LEMMA InTreeIsReal ==
  ASSUME NEW t, IsTree(t), DOMAIN t \subseteq Places(setting), NEW p \in DOMAIN t
  PROVE  Real(p)
<1>1. p \in Path /\ p \in Seq(Name)
  BY DEF IsTree, Path
<1>2. ASSUME NEW k \in 0..Len(p) PROVE SubSeq(p, 1, k) \in Places(setting)
  <2>1. SubSeq(p, 1, k) \in Path /\ IsPrefix(SubSeq(p, 1, k), p)
    BY <1>1, PartOfPath DEF Path
  <2>2. SubSeq(p, 1, k) \in DOMAIN t
    BY <2>1, AboveIsDir DEF Exists
  <2> QED BY <2>2
<1> QED BY <1>1, <1>2 DEF Real

\* The line of a path leads back to the path.
LEMMA LineLeadsBack ==
  ASSUME ParserOK, NEW leads \in [Seq(Char) -> Path],
         \A w \in Word : leads[Spell[w]] = Leads[w],
         \A t \in Seq(Char), n \in Name :
           Append(leads[t], n) \in Places(setting) => leads[FullPath(t, n)] = Append(leads[t], n),
         NEW i \in 1..Len(Operands), NEW p, Real(p), IsPrefix(Leads[Operands[i]], p)
  PROVE  leads[TextOf(i, p)] = p
<1> DEFINE start == Leads[Operands[i]]
           word == Spell[Operands[i]]
           part(k) == SubSeq(p, 1, k)
           T == {k \in Nat : Len(start) + k <= Len(p) =>
                   /\ TextOf(i, part(Len(start) + k)) \in Seq(Char)
                   /\ leads[TextOf(i, part(Len(start) + k))] = part(Len(start) + k)}
<1>0. /\ Operands[i] \in Word /\ word \in Seq(Char)
      /\ start \in Seq(Name) /\ p \in Seq(Name) /\ p \in Path
      /\ leads[word] = start
  BY OperandsAreWords, FindAssumption, WordAssumption DEF Real, Path
<1>1. /\ Len(start) \in Nat /\ Len(p) \in Nat /\ Len(start) <= Len(p)
      /\ part(Len(start)) = start
  BY <1>0, PrefixIsPart
<1>2. TextOf(i, start) = word
  <2>1. Rest(i, start) = <<>>
    BY <1>0 DEF Rest
  <2> HIDE DEF start
  <2> QED BY <2>1, TextIs
<1>3. 0 \in T
  <2>1. Len(start) + 0 = Len(start)
    <3> HIDE DEF start
    <3> QED BY <1>1
  <2>2. TextOf(i, part(Len(start) + 0)) = word /\ part(Len(start) + 0) = start
    <3> HIDE DEF start, part, word
    <3> QED BY <1>1, <1>2, <2>1
  <2> HIDE DEF start, part, word
  <2> QED BY <1>0, <2>2
<1>4. ASSUME NEW k \in Nat, k \in T PROVE k + 1 \in T
  <2> DEFINE m == Len(start) + k
             q == part(m)
             n == p[m + 1]
             text == TextOf(i, q)
  <2> SUFFICES ASSUME m + 1 <= Len(p)
               PROVE  /\ TextOf(i, part(m + 1)) \in Seq(Char)
                      /\ leads[TextOf(i, part(m + 1))] = part(m + 1)
    <3>1. Len(start) + (k + 1) = m + 1
      <4> HIDE DEF start, part, T
      <4> QED BY <1>1
    <3> HIDE DEF m, part, start
    <3> QED BY <3>1
  <2>1. m \in Nat /\ m < Len(p) /\ m + 1 \in 0..Len(p) /\ m \in 0..Len(p)
    BY <1>1
  <2>2. text \in Seq(Char) /\ leads[text] = q
    <3>1. m <= Len(p)
      BY <2>1
    <3> HIDE DEF part
    <3> QED BY <1>4, <3>1
  <2>3. q \in Seq(Name) /\ q \in Path /\ n \in Name /\ part(m + 1) = Append(q, n)
    BY <1>0, <2>1, OneMore DEF Path
  <2>4. IsPrefix(start, q)
    <3>1. /\ Len(q) = m /\ \A j \in 1..m : q[j] = p[j]
      BY <1>0, <2>1, PartOfPath
    <3>2. \A j \in 1..Len(start) : start[j] = p[j]
      <4> HIDE DEF start, part, T, q, m, text, n
      <4>1. IsPrefix(start, p) <=> Len(start) <= Len(p) /\ \A j \in 1..Len(start) : start[j] = p[j]
        BY <1>0, PrefixElements
      <4>2. IsPrefix(start, p)
        BY DEF start
      <4> QED BY <4>1, <4>2
    <3>3. Len(start) <= m
      <4> HIDE DEF start, part, T, q
      <4> QED BY <1>1
    <3> HIDE DEF q, m, start, part, T, text, n
    <3>4. \A j \in 1..Len(start) : j \in 1..m
      BY <1>1, <2>1, <3>3
    <3>5. Len(start) <= Len(q) /\ \A j \in 1..Len(start) : start[j] = q[j]
      BY <3>1, <3>2, <3>3, <3>4
    <3> QED BY <1>0, <2>3, <3>5, PrefixElements
  <2>5. part(m + 1) \in Places(setting)
    BY <2>1 DEF Real
  <2>6. TextOf(i, Append(q, n)) = FullPath(text, n)
    <3> HIDE DEF q, n
    <3> QED BY <2>3, <2>4, TextGrows
  <2>7. FullPath(text, n) \in Seq(Char)
    <3>1. Spell[n] \in Seq(Char) /\ "/" \in Char
      BY <2>3, NameEnds, FindAssumption
    <3> HIDE DEF text, n
    <3> QED BY <2>2, <3>1 DEF FullPath
  <2> HIDE DEF m, q, n, text, part
  <2>8. leads[FullPath(text, n)] = Append(q, n)
    BY <2>2, <2>3, <2>5
  <2> QED BY <2>3, <2>6, <2>7, <2>8
<1>5. Len(p) - Len(start) \in T
  <2>1. Nat \subseteq T
    <3> HIDE DEF T
    <3> QED BY <1>3, <1>4, InductionOnSet
  <2> HIDE DEF T
  <2> QED BY <1>1, <2>1
<1>6. Len(start) + (Len(p) - Len(start)) = Len(p) /\ part(Len(p)) = p
  BY <1>0, <1>1, SubSeqFull
<1> HIDE DEF part, start
<1> QED BY <1>1, <1>5, <1>6

\* So a line stands for one path, whichever operand it comes from.
LEMMA OneLineOnePath ==
  ASSUME ParserOK, Resolves(setting),
         NEW i \in 1..Len(Operands), NEW p, Real(p), IsPrefix(Leads[Operands[i]], p),
         NEW j \in 1..Len(Operands), NEW q, Real(q), IsPrefix(Leads[Operands[j]], q),
         TextOf(i, p) = TextOf(j, q)
  PROVE  p = q
<1>1. PICK leads \in [Seq(Char) -> Path] :
        /\ \A w \in Word : leads[Spell[w]] = Leads[w]
        /\ \A t \in Seq(Char), n \in Name :
             Append(leads[t], n) \in Places(setting) => leads[FullPath(t, n)] = Append(leads[t], n)
  BY DEF Resolves
<1>2. leads[TextOf(i, p)] = p /\ leads[TextOf(j, q)] = q
  BY <1>1, LineLeadsBack
<1> QED BY <1>2

(***************************************************************************)
(* The stack: each activation but the last is reading its directory, and   *)
(* the next lies below the entry it has read.                              *)
(***************************************************************************)
Under(a, b) == /\ a.at = "readdir" /\ IsPrefix(a.path, b.path) /\ a.path # b.path
               /\ b.path[Len(a.path) + 1] \in a.seen

Chain(s) == \A k, m \in DOMAIN s : k < m => Under(s[k], s[m])

\* One activation more.
LEMMA ChainPush ==
  ASSUME NEW s \in Seq(Activation), NEW a \in Activation, Chain(s),
         \A k \in DOMAIN s : Under(s[k], a)
  PROVE  Chain(Append(s, a))
<1> DEFINE t == Append(s, a)
<1>1. /\ Len(s) \in Nat /\ DOMAIN s = 1..Len(s) /\ DOMAIN t = 1..(Len(s) + 1)
      /\ t[Len(s) + 1] = a /\ \A k \in 1..Len(s) : t[k] = s[k]
  OBVIOUS
<1> HIDE DEF t
<1> SUFFICES ASSUME NEW k \in DOMAIN t, NEW m \in DOMAIN t, k < m PROVE Under(t[k], t[m])
  BY DEF Chain, t
<1>2. k \in DOMAIN s /\ t[k] = s[k]
  BY <1>1
<1>3. CASE m \in DOMAIN s
  BY <1>1, <1>2, <1>3 DEF Chain
<1>4. CASE m \notin DOMAIN s
  <2>1. t[m] = a
    BY <1>1, <1>4
  <2> QED BY <1>2, <2>1
<1> QED BY <1>3, <1>4

\* What lies below a directory lies below all it lies in.
LEMMA UnderEntry ==
  ASSUME NEW a \in Activation, NEW b \in Activation, NEW c \in Activation, NEW n \in Name,
         Under(a, b), c.path = Append(b.path, n)
  PROVE  Under(a, c)
<1>1. a.path \in Seq(Name) /\ b.path \in Seq(Name) /\ c.path \in Seq(Name)
  BY DEF Activation, Path
<1>2. IsPrefix(a.path, b.path) /\ a.path # b.path
  BY DEF Under
<1>3. IsPrefix(a.path, c.path)
  BY <1>1, <1>2, PrefixOfEntry
<1>4. /\ Len(a.path) \in Nat /\ Len(b.path) \in Nat /\ Len(a.path) < Len(b.path)
  <2>1. Len(a.path) \in 0..Len(b.path) /\ a.path = SubSeq(b.path, 1, Len(a.path))
    BY <1>1, <1>2, PrefixIsPart
  <2>2. Len(a.path) # Len(b.path)
    BY <1>1, <1>2, <2>1, SubSeqFull
  <2> QED BY <1>1, <2>1, <2>2
<1>5. Len(c.path) = Len(b.path) + 1 /\ c.path[Len(a.path) + 1] = b.path[Len(a.path) + 1]
  BY <1>1, <1>4
<1>6. a.path # c.path
  BY <1>4, <1>5
<1> QED BY <1>3, <1>5, <1>6 DEF Under

\* A return, a step, and a step and a call.
LEMMA ChainSteps ==
  ASSUME NEW s \in Seq(Activation), s # <<>>, Chain(s)
  PROVE  /\ Chain(Front(s))
         /\ \A a \in Activation : a.path = Last(s).path => Chain(Append(Front(s), a))
         /\ \A a, b \in Activation, n \in Name :
              /\ a.path = Last(s).path /\ a.at = "readdir" /\ n \in a.seen
              /\ b.path = Append(a.path, n)
              => Chain(Append(Append(Front(s), a), b))
<1> DEFINE f == Front(s)
<1>1. /\ f \in Seq(Activation) /\ Len(f) = Len(s) - 1 /\ Len(s) >= 1 /\ Len(s) \in Nat
      /\ \A i \in 1..Len(f) : f[i] = s[i]
      /\ DOMAIN s = 1..Len(s) /\ DOMAIN f = 1..Len(f)
      /\ Last(s) = s[Len(s)] /\ Last(s) \in Activation
  BY FrontAndLast DEF Last
<1> HIDE DEF f
<1>2. \A k \in DOMAIN f : k \in DOMAIN s /\ f[k] = s[k] /\ k < Len(s) /\ Len(s) \in DOMAIN s
  BY <1>1
<1>3. \A k \in DOMAIN f : Under(f[k], Last(s)) /\ f[k] \in Activation
  BY <1>1, <1>2 DEF Chain
<1>4. Chain(f)
  BY <1>2 DEF Chain
<1>5. ASSUME NEW a \in Activation, a.path = Last(s).path
      PROVE  Chain(Append(f, a)) /\ \A k \in DOMAIN f : Under(f[k], a)
  <2>1. \A k \in DOMAIN f : Under(f[k], a)
    BY <1>3, <1>5 DEF Under
  <2> QED BY <1>1, <1>4, <2>1, ChainPush
<1>6. ASSUME NEW a \in Activation, NEW b \in Activation, NEW n \in Name,
             a.path = Last(s).path, a.at = "readdir", n \in a.seen, b.path = Append(a.path, n)
      PROVE  Chain(Append(Append(f, a), b))
  <2> DEFINE g == Append(f, a)
  <2>1. /\ g \in Seq(Activation) /\ Chain(g)
        /\ \A k \in DOMAIN g : g[k] = a \/ (k \in DOMAIN f /\ g[k] = f[k])
    BY <1>1, <1>5, <1>6
  <2>2. Under(a, b)
    <3>1. a.path \in Seq(Name)
      BY DEF Activation, Path
    <3>2. Len(b.path) = Len(a.path) + 1 /\ b.path[Len(a.path) + 1] = n
      BY <1>6, <3>1
    <3>3. IsPrefix(a.path, a.path)
      BY <3>1, PrefixElements
    <3>4. IsPrefix(a.path, b.path)
      BY <1>6, <3>1, <3>3, PrefixOfEntry
    <3>5. a.path # b.path
      BY <3>1, <3>2
    <3> QED BY <1>6, <3>2, <3>4, <3>5 DEF Under
  <2>3. \A k \in DOMAIN f : Under(f[k], b)
    BY <1>3, <1>5, <1>6, UnderEntry
  <2> HIDE DEF g
  <2>4. \A k \in DOMAIN g : Under(g[k], b)
    BY <2>1, <2>2, <2>3
  <2>5. Chain(Append(g, b))
    BY <2>1, <2>4, ChainPush
  <2> QED BY <2>5 DEF g
<1> QED BY <1>4, <1>5, <1>6 DEF f

(***************************************************************************)
(* The inductive invariant behind FindsNothingElse: an operand has been    *)
(* taken for a line when it has a path with that line which no activation  *)
(* may come to any more, and each operand taken for a line has had it      *)
(* printed once at most for each -print.                                   *)
(***************************************************************************)
MayReach(act, q) == /\ IsPrefix(act.path, q)
                    /\ act.at # "lstat" => q # act.path
                    /\ act.at = "readdir" => q[Len(act.path) + 1] \notin act.seen

Passed(q) == \A k \in DOMAIN stack : ~MayReach(stack[k], q)

Taken(t) == {i \in 1..operand : \E p \in Below(i) : /\ Real(p) /\ TextOf(i, p) = t
                                                    /\ i = operand => Passed(p)}

Known == setting \in Settings /\ DOMAIN tree \subseteq Places(setting)

HoldsOf(t) ==
  Timeless /\ Cardinality(PrintNodes) = 1 =>
    \A i \in DOMAIN Operands : \A p \in Below(i) :
      TextOf(i, p) = t /\ Stays(p) => Holds(value, p, TextOf(i, p))

Accountable(t) == /\ Taken(t) # {}
                  /\ out[t] <= Cardinality(PrintNodes) * Cardinality(Taken(t))
                  /\ HoldsOf(t)

Ledger == \A t \in DOMAIN out : Accountable(t)

Trail == Known /\ Chain(stack) /\ Ledger

\* An operand is taken for good.
LEMMA TakenKept ==
  ASSUME Inv, Phases, UNCHANGED <<argv, path_count, setting>>,
         operand' = operand \/ operand' = operand + 1,
         NEW A, operand' = operand => Replaces(stack, stack', A),
         \A a \in A : stack # <<>> /\ \A q \in Path : MayReach(a, q) => MayReach(Top, q)
  PROVE  \A t : Taken(t) \subseteq Taken(t)'
<1> SUFFICES ASSUME NEW t, NEW i \in Taken(t) PROVE i \in Taken(t)'
  OBVIOUS
<1>1. PICK p \in Below(i) : Real(p) /\ TextOf(i, p) = t /\ (i = operand => Passed(p))
  BY DEF Taken
<1>2. /\ i \in 1..operand /\ operand \in Nat
  BY DEF Taken, Inv, WalkOK
<1>3. /\ Operands' = Operands /\ \A j, q : TextOf(j, q)' = TextOf(j, q)
      /\ \A j : Below(j)' = Below(j)
      /\ \A q : Real(q)' = Real(q)
  BY DEF Operands, TextOf, Below, Real, Places
<1>4. CASE operand' = operand + 1
  <2>1. i \in 1..(operand + 1) /\ i # operand + 1
    BY <1>2
  <2> QED BY <1>1, <1>3, <1>4, <2>1 DEF Taken
<1>5. CASE operand' = operand
  <2>1. ASSUME Passed(p) PROVE Passed(p)'
    <3> SUFFICES ASSUME NEW k \in DOMAIN stack', MayReach(stack'[k], p) PROVE FALSE
      BY DEF Passed, MayReach
    <3>1. CASE k \in DOMAIN stack /\ stack'[k] = stack[k]
      BY <2>1, <3>1 DEF Passed
    <3>2. CASE stack'[k] \in A
      <4>1. MayReach(Top, p) /\ stack # <<>> /\ stack \in Seq(Activation)
        BY <1>1, <3>2 DEF Inv, WalkOK, Real
      <4>2. Len(stack) \in DOMAIN stack /\ Top = stack[Len(stack)]
        BY <4>1 DEF Top, Last
      <4> QED BY <2>1, <4>1, <4>2 DEF Passed
    <3> QED BY <1>5, <3>1, <3>2 DEF Replaces
  <2>2. i = operand => Passed(p)'
    BY <1>1, <2>1
  <2>3. i \in 1..operand'
    BY <1>2, <1>5
  <2> QED BY <1>1, <1>3, <1>5, <2>2, <2>3 DEF Taken
<1> QED BY <1>4, <1>5

\* What is said of a line that was printed stays true.
LEMMA HoldsOfKept ==
  ASSUME Inv, Shape, Untouched, Untouched', UNCHANGED <<argv, path_count, nodes, value, setting>>
  PROVE  \A t : HoldsOf(t) => HoldsOf(t)'
<1> SUFFICES ASSUME NEW t, HoldsOf(t) PROVE HoldsOf(t)'
  OBVIOUS
<1>1. /\ Operands' = Operands /\ \A j, q : TextOf(j, q)' = TextOf(j, q)
      /\ \A j : Below(j)' = Below(j)
      /\ \A q : Stays(q)' = Stays(q)
      /\ Timeless' = Timeless /\ PrintNodes' = PrintNodes
  BY DEF Operands, TextOf, Below, Stays, Timeless, PrintNodes
<1>2. ASSUME Timeless, Cardinality(PrintNodes) = 1, NEW i \in DOMAIN Operands, NEW p \in Below(i),
             TextOf(i, p) = t, Stays(p)
      PROVE  Holds(value, p, TextOf(i, p))'
  <2>1. Holds(value, p, TextOf(i, p))
    BY <1>2 DEF HoldsOf
  <2>2. p \in DOMAIN setting.tree
    BY <1>2 DEF Stays
  <2>3. Holds(value, p, TextOf(i, p))' = Holds(value, p, TextOf(i, p))
    BY <1>2, <2>2, HoldsKept
  <2> QED BY <2>1, <2>3
<1> QED BY <1>1, <1>2 DEF HoldsOf

\* Operands can be counted.
LEMMA UpTo ==
  ASSUME NEW n \in Nat, NEW S \in SUBSET (1..n)
  PROVE  IsFiniteSet(S) /\ Cardinality(S) \in Nat
<1>1. IsFiniteSet(1..n)
  BY FS_Interval
<1> QED BY <1>1, FS_Subset, FS_CardinalityType

\* More of what is counted, and no less of it.
LEMMA ProductGrows ==
  ASSUME NEW a \in Nat, NEW b \in Nat, NEW c \in Nat, b <= c
  PROVE  a * b \in Nat /\ a * b <= a * c /\ a * (b + 1) = a * b + a
<1>1. PICK d \in Nat : c = b + d
  <2>1. c - b \in Nat /\ c = b + (c - b)
    OBVIOUS
  <2> QED BY <2>1
<1>2. a * c = a * b + a * d /\ a * d \in Nat /\ a * b \in Nat
  BY <1>1
<1> QED BY <1>2

\* A line that is not printed again is accounted for as before.
LEMMA AccountKept ==
  ASSUME Inv, Inv', Shape, Untouched, Untouched', Phases, Ledger,
         UNCHANGED <<argv, path_count, nodes, value, setting>>,
         NEW t \in DOMAIN out, out'[t] = out[t], Taken(t) \subseteq Taken(t)'
  PROVE  Accountable(t)'
<1>1. Accountable(t)
  BY DEF Ledger
<1>2. HoldsOf(t)'
  BY <1>1, HoldsOfKept DEF Accountable
<1>3. Taken(t)' # {}
  BY <1>1 DEF Accountable
<1>4. PrintNodes' = PrintNodes /\ Cardinality(PrintNodes) \in Nat
  <2>1. Ordered(nodes) /\ Whole(nodes)
    BY ParserParts DEF Inv, ParserInv, Shape
  <2> QED BY <2>1, PutsBounded DEF PrintNodes
<1>5. /\ Cardinality(Taken(t)) \in Nat /\ IsFiniteSet(Taken(t)) /\ Cardinality(Taken(t)') \in Nat
      /\ IsFiniteSet(Taken(t)')
  <2>1. operand \in Nat /\ operand' \in Nat
    BY DEF Inv, WalkOK
  <2>2. Taken(t) \in SUBSET (1..operand) /\ Taken(t)' \in SUBSET (1..operand')
    BY DEF Taken
  <2> QED BY <2>1, <2>2, UpTo
<1>6. Cardinality(Taken(t)) <= Cardinality(Taken(t)')
  <2>1. Taken(t) \in SUBSET (Taken(t)')
    OBVIOUS
  <2> QED BY <1>5, <2>1, FS_Subset
<1>7. out[t] <= Cardinality(PrintNodes) * Cardinality(Taken(t)) /\ out[t] \in Nat
  BY <1>1 DEF Accountable, Phases
<1>8. out[t] <= Cardinality(PrintNodes) * Cardinality(Taken(t)')
  <2> DEFINE a == Cardinality(PrintNodes)
             b == Cardinality(Taken(t))
             c == Cardinality(Taken(t)')
  <2>1. a \in Nat /\ b \in Nat /\ c \in Nat /\ b <= c
    BY <1>4, <1>5, <1>6
  <2>2. out[t] <= a * b /\ out[t] \in Nat
    BY <1>7
  <2> HIDE DEF a, b, c
  <2>3. out[t] <= a * c
    <3>1. a * b \in Nat /\ a * b <= a * c /\ a * c \in Nat
      BY <2>1, ProductGrows
    <3> QED BY <2>2, <3>1
  <2> QED BY <2>3 DEF a, c
<1> QED BY <1>2, <1>3, <1>4, <1>8 DEF Accountable


\* What lies below an entry lies below the directory, and comes after the entry.
LEMMA LongerPrefix ==
  ASSUME NEW p \in Seq(Name), NEW n \in Name, NEW q \in Seq(Name), IsPrefix(Append(p, n), q)
  PROVE  IsPrefix(p, q) /\ q # p /\ q[Len(p) + 1] = n
<1> DEFINE r == Append(p, n)
<1>1. r \in Seq(Name) /\ Len(r) = Len(p) + 1 /\ r[Len(p) + 1] = n /\ Len(p) \in Nat
      /\ \A i \in 1..Len(p) : r[i] = p[i]
  OBVIOUS
<1> HIDE DEF r
<1>2. Len(r) <= Len(q) /\ \A i \in 1..Len(r) : r[i] = q[i]
  <2>1. IsPrefix(r, q)
    BY DEF r
  <2> QED BY <1>1, <2>1, PrefixElements
<1>3. Len(q) \in Nat /\ Len(p) < Len(q) /\ q[Len(p) + 1] = n /\ \A i \in 1..Len(p) : p[i] = q[i]
  BY <1>1, <1>2
<1>4. Len(p) <= Len(q) /\ q # p
  BY <1>1, <1>3
<1>5. IsPrefix(p, q)
  BY <1>3, <1>4, PrefixElements
<1> QED BY <1>3, <1>4, <1>5

\* What do_find does to its stack: the activations stay nested, and may come to no
\* path that the one they take the place of might not have come to.
StackMoves ==
  \E A : /\ Replaces(stack, stack', A) /\ Chain(stack')
         /\ \A a \in A : \A q \in Path : MayReach(a, q) => MayReach(Top, q)

\* A return, and a step on the same directory.
LEMMA TopMoves ==
  ASSUME Inv, Chain(stack), stack # <<>>,
         \/ stack' = Front(stack)
         \/ \E a \in Activation : /\ stack' = Append(Front(stack), a) /\ a.path = Top.path
                                  /\ \A q \in Path : MayReach(a, q) => MayReach(Top, q)
  PROVE  StackMoves
<1>1. stack \in Seq(Activation)
  BY DEF Inv, WalkOK
<1>2. CASE stack' = Front(stack)
  <2>1. Replaces(stack, stack', {}) /\ Chain(stack')
    BY <1>1, <1>2, StackReplaces, ChainSteps
  <2> QED BY <2>1 DEF StackMoves
<1>3. ASSUME NEW a \in Activation, stack' = Append(Front(stack), a), a.path = Top.path,
             \A q \in Path : MayReach(a, q) => MayReach(Top, q)
      PROVE  StackMoves
  <2>1. Replaces(stack, stack', {a}) /\ Chain(stack')
    BY <1>1, <1>3, StackReplaces, ChainSteps DEF Top
  <2>2. \A b \in {a} : \A q \in Path : MayReach(b, q) => MayReach(Top, q)
    BY <1>3
  <2> QED BY <2>1, <2>2 DEF StackMoves
<1> QED BY <1>2, <1>3

\* lstat(), opendir() and the end of readdir().
LEMMA CallMoves ==
  ASSUME Inv, Phases, Untouched, Course, Chain(stack),
         LstatFails \/ LstatDone \/ OpendirDone \/ OpendirFails \/ ReaddirEnd
  PROVE  StackMoves
<1>0. stack # <<>>
  BY DEF LstatFails, LstatDone, OpendirDone, OpendirFails, ReaddirEnd, Busy
<1>1. Top \in Activation /\ OnCourse(Top)
  BY <1>0, TopIsOnCourse
<1>2. ASSUME stack' = Front(stack) PROVE StackMoves
  BY <1>0, <1>2, TopMoves
<1>3. ASSUME NEW a \in Activation, stack' = Append(Front(stack), a), a.path = Top.path,
             \A q \in Path : MayReach(a, q) => MayReach(Top, q)
      PROVE  StackMoves
  BY <1>0, <1>3, TopMoves
<1>4. CASE LstatFails \/ OpendirFails \/ ReaddirEnd
  <2>1. stack' = Front(stack)
    BY <1>4 DEF LstatFails, OpendirFails, ReaddirEnd
  <2> QED BY <1>2, <2>1
<1>5. CASE LstatDone
  <2> DEFINE next == [Top EXCEPT !.at = "opendir"]
  <2>1. next \in Activation /\ next.path = Top.path /\ next.at = "opendir" /\ Top.at = "lstat"
    BY <1>1, <1>5 DEF Activation, LstatDone, Busy
  <2>2. stack' = Append(Front(stack), next) \/ stack' = Front(stack)
    BY <1>5 DEF LstatDone
  <2> HIDE DEF next
  <2>3. \A q \in Path : MayReach(next, q) => MayReach(Top, q)
    BY <2>1 DEF MayReach
  <2> QED BY <1>2, <1>3, <2>1, <2>2, <2>3
<1>6. CASE OpendirDone
  <2> DEFINE next == [Top EXCEPT !.at = "readdir", !.snap = Entries(tree, Top.path) \cup Dots]
  <2>1. /\ next \in Activation /\ next.path = Top.path /\ next.at = "readdir" /\ next.seen = {}
        /\ Top.at = "opendir"
    <3>1. Top.at = "opendir"
      BY <1>6 DEF OpendirDone, Busy
    <3>2. Top.seen = {}
      BY <1>1, <3>1 DEF OnCourse
    <3> QED BY <1>1, <3>1, <3>2 DEF Activation, Entries
  <2>2. stack' = Append(Front(stack), next)
    BY <1>6 DEF OpendirDone
  <2> HIDE DEF next
  <2>3. \A q \in Path : MayReach(next, q) => MayReach(Top, q)
    BY <2>1 DEF MayReach
  <2> QED BY <1>3, <2>1, <2>2, <2>3
<1> QED BY <1>4, <1>5, <1>6

\* readdir().
LEMMA EntryMoves ==
  ASSUME Inv, Phases, Untouched, Course, Chain(stack), ReaddirEntry
  PROVE  StackMoves
<1>0. stack # <<>> /\ Top.at = "readdir" /\ stack \in Seq(Activation)
  BY DEF ReaddirEntry, Busy, Inv, WalkOK
<1>1. Top \in Activation /\ Top.path \in Seq(Name)
  BY <1>0, TopIsOnCourse DEF Path
<1>2. PICK n \in Readable(tree, Top.path, Top) :
        LET read == Append(Front(stack), [Top EXCEPT !.seen = @ \cup {n}])
        IN  stack' = IF n \in Dots THEN read
                     ELSE Append(read, Call(Append(Top.path, n), FullPath(Top.text, n)))
  BY DEF ReaddirEntry
<1> DEFINE rest == [Top EXCEPT !.seen = @ \cup {n}]
           call == Call(Append(Top.path, n), FullPath(Top.text, n))
<1>3. /\ rest \in Activation /\ rest.path = Top.path /\ rest.at = "readdir"
      /\ rest.seen = Top.seen \cup {n} /\ n \notin Top.seen
  <2>1. rest \in Activation
    BY <1>1, EntryIsActivation
  <2> QED BY <1>0, <1>1, <2>1 DEF Activation, Readable
<1>4. \A q \in Path : MayReach(rest, q) => MayReach(Top, q)
  <2> HIDE DEF rest
  <2> QED BY <1>0, <1>3 DEF MayReach
<1>5. CASE n \in Dots
  <2>1. stack' = Append(Front(stack), rest)
    BY <1>2, <1>5
  <2> HIDE DEF rest
  <2> QED BY <1>0, <1>3, <1>4, <2>1, TopMoves
<1>6. CASE n \notin Dots
  <2>1. n \in Name
    BY <1>1, <1>6 DEF Readable, Entries, Activation
  <2>2. call \in Activation /\ call.path = Append(Top.path, n) /\ call.at = "lstat"
    <3>1. call \in Activation
      BY <1>1, <1>6, EntryIsActivation
    <3> QED BY <3>1 DEF Call
  <2>3. stack' = Append(Append(Front(stack), rest), call)
    BY <1>2, <1>6
  <2> HIDE DEF rest, call
  <2>4. \A q \in Path : MayReach(call, q) => MayReach(Top, q)
    <3> SUFFICES ASSUME NEW q \in Path, MayReach(call, q) PROVE MayReach(Top, q)
      OBVIOUS
    <3>1. IsPrefix(Append(Top.path, n), q)
      BY <2>2 DEF MayReach
    <3>2. /\ IsPrefix(Top.path, q) /\ q # Top.path /\ q[Len(Top.path) + 1] = n
      BY <1>1, <2>1, <3>1, LongerPrefix DEF Path
    <3> QED BY <1>0, <1>3, <3>2 DEF MayReach
  <2>5. Replaces(stack, stack', {rest, call})
    BY <1>0, <1>3, <2>2, <2>3, StackReplaces
  <2>6. Chain(stack')
    <3>1. /\ rest.path = Last(stack).path /\ rest.at = "readdir" /\ n \in rest.seen
          /\ call.path = Append(rest.path, n)
      BY <1>3, <2>2 DEF Top
    <3> QED BY <1>0, <1>3, <2>1, <2>2, <2>3, <3>1, ChainSteps
  <2>7. \A a \in {rest, call} : \A q \in Path : MayReach(a, q) => MayReach(Top, q)
    BY <1>4, <2>4
  <2> QED BY <2>5, <2>6, <2>7 DEF StackMoves
<1> QED BY <1>5, <1>6


\* What lstat() and check_node print is accounted for.
LEMMA LedgerPrints ==
  ASSUME Inv, Inv', HeapInv, Shape, Untouched, Untouched', Phases, Course,
         Known, Chain(stack), Ledger, Resolves(setting), LstatDone,
         \A t : Taken(t) \subseteq Taken(t)'
  PROVE  Ledger'
<1>p. PICK i, path, text : i = operand /\ path = Top.path /\ text = Top.text
  OBVIOUS
<1> DEFINE c == CheckNode(value, path, text)
           next == [Top EXCEPT !.at = "opendir"]
<1>0. /\ stack # <<>> /\ mode = "parsed" /\ Top.at = "lstat" /\ path \in DOMAIN tree
      /\ UNCHANGED <<argv, path_count, nodes, value, setting, operand, tree>>
      /\ stack \in Seq(Activation)
      /\ stack' = Append(Front(stack), next) \/ stack' = Front(stack)
  BY <1>p DEF LstatDone, Busy, parser, Exists, Inv, WalkOK
<1>1. /\ Top \in Activation /\ path \in Path /\ i \in 1..Len(Operands)
      /\ IsPrefix(Leads[Operands[i]], path) /\ text = TextOf(i, path)
  BY <1>p, <1>0, TopIsOnCourse DEF OnCourse
<1>2. IsTree(tree) /\ IsTree(setting.tree) /\ ParserOK
  BY DEF Inv, ParserInv, WalkOK, Setting
<1>3. Real(path) /\ path \in Below(i)
  <2>1. path \in Places(setting)
    BY <1>0 DEF Known
  <2>2. Real(path)
    BY <1>0, <1>2, InTreeIsReal DEF Known
  <2> QED BY <1>1, <2>1, <2>2 DEF Below, Places
<1>4. \A k \in DOMAIN Front(stack) : k \in DOMAIN stack /\ Front(stack)[k] = stack[k] /\ Under(stack[k], Top)
  <2> DEFINE f == Front(stack)
  <2>1. /\ Len(f) = Len(stack) - 1 /\ Len(stack) >= 1 /\ Len(stack) \in Nat
        /\ \A k \in 1..Len(f) : f[k] = stack[k]
        /\ DOMAIN stack = 1..Len(stack) /\ DOMAIN f = 1..Len(f)
        /\ Top = stack[Len(stack)]
    BY <1>0, FrontAndLast DEF Top, Last
  <2> HIDE DEF f
  <2>2. \A k \in DOMAIN f : k \in DOMAIN stack /\ f[k] = stack[k] /\ k < Len(stack) /\ Len(stack) \in DOMAIN stack
    BY <2>1
  <2>3. \A k \in DOMAIN f : k \in DOMAIN stack /\ f[k] = stack[k] /\ Under(stack[k], Top)
    BY <2>1, <2>2 DEF Chain
  <2> QED BY <2>3 DEF f
<1>5. i \notin Taken(text)
  <2> SUFFICES ASSUME NEW p \in Below(i), Real(p), TextOf(i, p) = text, Passed(p) PROVE FALSE
    BY <1>p DEF Taken
  <2>1. p = path
    <3>1. IsPrefix(Leads[Operands[i]], p)
      BY DEF Below
    <3> QED BY <1>1, <1>2, <1>3, <3>1, OneLineOnePath
  <2>2. Len(stack) \in DOMAIN stack /\ Top = stack[Len(stack)]
    BY <1>0 DEF Top, Last
  <2>3. MayReach(Top, path)
    <3>1. IsPrefix(path, path)
      BY <1>1, PrefixElements DEF Path
    <3> QED BY <1>p, <1>0, <3>1 DEF MayReach
  <2> QED BY <2>1, <2>2, <2>3 DEF Passed
<1>6. i \in Taken(text)'
  <2>1. next.at = "opendir" /\ next.path = path /\ next \in Activation
    BY <1>p, <1>1 DEF Activation
  <2> HIDE DEF next
  <2>2. ~MayReach(next, path)
    BY <2>1 DEF MayReach
  <2>3. \A k \in DOMAIN Front(stack) : ~MayReach(Front(stack)[k], path)
    BY <1>p, <1>4 DEF MayReach, Under
  <2>4. \A k \in DOMAIN stack' : ~MayReach(stack'[k], path)
    <3>1. CASE stack' = Front(stack)
      BY <2>3, <3>1
    <3>2. CASE stack' = Append(Front(stack), next)
      <4>1. Front(stack) \in Seq(Activation)
        BY <1>0, FrontAndLast
      <4> DEFINE f == Front(stack)
      <4> HIDE DEF f
      <4>2. \A k \in DOMAIN Append(f, next) : Append(f, next)[k] = next \/ (k \in DOMAIN f /\ Append(f, next)[k] = f[k])
        BY <2>1, <4>1 DEF f
      <4> QED BY <2>2, <2>3, <3>2, <4>2 DEF f
    <3> QED BY <1>0, <3>1, <3>2 DEF next
  <2>5. i \in 1..operand'
    BY <1>p, <1>0, <1>1 DEF Inv, WalkOK
  <2>6. Below(i)' = Below(i) /\ TextOf(i, path)' = text /\ Real(path)'
    <3>1. /\ Operands' = Operands /\ \A j, q : TextOf(j, q)' = TextOf(j, q)
          /\ \A j : Below(j)' = Below(j)
          /\ \A q : Real(q)' = Real(q)
      BY <1>0 DEF Operands, TextOf, Below, Real, Places
    <3> QED BY <1>0, <1>1, <1>3, <3>1
  <2> QED BY <1>3, <2>4, <2>5, <2>6 DEF Taken, Passed, MayReach
<1>7. /\ c.puts \in Nat /\ c.puts <= Cardinality(PrintNodes)
      /\ Cardinality(PrintNodes) = 1 /\ c.puts > 0 => c.truth
      /\ Ordered(nodes) /\ Whole(nodes) /\ value \in 1..Len(nodes)
  <2>1. Ordered(nodes) /\ Whole(nodes) /\ PrintsLast(nodes, value)
    BY <1>0, ParserParts DEF Shape, Inv, ParserInv
  <2>2. \A n \in Sub(nodes, value) : Apart(nodes, n)
    BY <1>0 DEF HeapInv, Held, Now
  <2> QED BY <2>1, <2>2, PutsOnlyTrue DEF PrintsLast
<1>8. out' = IF c.puts = 0 THEN out ELSE [t \in DOMAIN out \cup {text} |->
                     Copies(t) + IF t = text THEN c.puts ELSE 0]
  BY <1>p DEF LstatDone
<1>9. ASSUME c.puts > 0 PROVE HoldsOf(text)
  <2> SUFFICES ASSUME Timeless, Cardinality(PrintNodes) = 1, NEW j \in DOMAIN Operands,
                      NEW p \in Below(j), TextOf(j, p) = text, Stays(p)
               PROVE  Holds(value, p, TextOf(j, p))
    BY DEF HoldsOf
  <2>1. Real(p)
    <3>1. p \in DOMAIN setting.tree /\ DOMAIN setting.tree \subseteq Places(setting)
      BY DEF Stays, Places
    <3> QED BY <1>2, <3>1, InTreeIsReal
  <2>2. p = path
    <3>1. IsPrefix(Leads[Operands[j]], p) /\ j \in 1..Len(Operands)
      BY <1>2, OperandsAreWords DEF Below
    <3> QED BY <1>1, <1>2, <1>3, <2>1, <3>1, OneLineOnePath
  <2>3. c.truth = Holds(value, path, text)
    BY <1>7, CheckDecides
  <2> HIDE DEF c
  <2> QED BY <1>7, <1>9, <2>2, <2>3
<1>10. Cardinality(PrintNodes) \in Nat /\ PrintNodes' = PrintNodes
  BY <1>0, <1>7, PutsBounded DEF PrintNodes
<1>11. Cardinality(Taken(text)) \in Nat /\ Cardinality(Taken(text)') \in Nat
       /\ Cardinality(Taken(text)) + 1 <= Cardinality(Taken(text)')
  <2> DEFINE A == Taken(text)
             B == Taken(text)'
  <2>1. /\ IsFiniteSet(A) /\ Cardinality(A) \in Nat
        /\ IsFiniteSet(B) /\ Cardinality(B) \in Nat
    <3>1. operand \in Nat /\ operand' \in Nat
      BY DEF Inv, WalkOK
    <3>2. A \in SUBSET (1..operand) /\ B \in SUBSET (1..operand')
      BY DEF Taken
    <3> QED BY <3>1, <3>2, UpTo
  <2>2. A \subseteq B /\ i \in B /\ i \notin A
    BY <1>5, <1>6
  <2> HIDE DEF A, B
  <2>3. IsFiniteSet(A \cup {i}) /\ Cardinality(A \cup {i}) = Cardinality(A) + 1
    BY <2>1, <2>2, FS_AddElement
  <2>4. A \cup {i} \in SUBSET B
    BY <2>2
  <2>5. Cardinality(A \cup {i}) <= Cardinality(B)
    BY <2>1, <2>4, FS_Subset
  <2> QED BY <2>1, <2>3, <2>5 DEF A, B
<1> HIDE DEF c, next
<1>12. CASE c.puts = 0
  <2>1. out' = out
    BY <1>8, <1>12
  <2> SUFFICES ASSUME NEW t \in DOMAIN out PROVE Accountable(t)'
    BY <2>1 DEF Ledger
  <2> QED BY <1>0, <2>1, AccountKept
<1>13. CASE c.puts > 0
  <2>1. out' = [t \in DOMAIN out \cup {text} |-> Copies(t) + IF t = text THEN c.puts ELSE 0]
    BY <1>8, <1>13
  <2>2. \A t : Copies(t) \in Nat
    BY DEF Copies, Phases
  <2>3. ASSUME NEW t \in DOMAIN out, t # text PROVE Accountable(t)'
    <3>1. out'[t] = out[t]
      BY <2>1, <2>2, <2>3 DEF Copies
    <3> QED BY <1>0, <3>1, AccountKept
  <2>4. Accountable(text)'
    <3>1. HoldsOf(text)'
      BY <1>0, <1>9, <1>13, HoldsOfKept
    <3>2. Taken(text)' # {}
      BY <1>6
    <3> DEFINE a == Cardinality(PrintNodes)
               b == Cardinality(Taken(text))
               d == Cardinality(Taken(text)')
    <3>3. Copies(text) <= a * b
      <4>1. CASE text \in DOMAIN out
        BY <4>1 DEF Ledger, Accountable, Copies
      <4>2. CASE text \notin DOMAIN out
        <5>1. a \in Nat /\ b \in Nat
          BY <1>10, <1>11
        <5> HIDE DEF a, b
        <5>2. a * b \in Nat
          BY <5>1
        <5> QED BY <4>2, <5>2 DEF Copies
      <4> QED BY <4>1, <4>2
    <3>4. a \in Nat /\ b \in Nat /\ d \in Nat /\ b + 1 <= d /\ c.puts \in Nat /\ c.puts <= a
      BY <1>7, <1>10, <1>11
    <3>5. out'[text] = Copies(text) + c.puts
      BY <2>1
    <3>6. Copies(text) \in Nat
      BY <2>2
    <3> HIDE DEF a, b, d
    <3>7. out'[text] <= a * d
      <4>1. a * (b + 1) = a * b + a /\ a * b \in Nat
        <5>1. b <= b
          BY <3>4
        <5> QED BY <3>4, <5>1, ProductGrows
      <4>2. a * (b + 1) <= a * d /\ a * (b + 1) \in Nat
        <5>1. b + 1 \in Nat
          BY <3>4
        <5> QED BY <3>4, <5>1, ProductGrows
      <4>3. a * d \in Nat
        BY <3>4
      <4> QED BY <3>3, <3>4, <3>5, <3>6, <4>1, <4>2, <4>3
    <3>8. out'[text] <= Cardinality(PrintNodes') * Cardinality(Taken(text)')
      BY <1>10, <3>7 DEF a, d
    <3> QED BY <3>1, <3>2, <3>8 DEF Accountable
  <2>5. DOMAIN out' = DOMAIN out \cup {text}
    BY <2>1
  <2> QED BY <2>3, <2>4, <2>5 DEF Ledger
<1> QED BY <1>7, <1>12, <1>13



\* Whatever is in the tree was there, or another program may have made it.
LEMMA KnownNext ==
  ASSUME Known, [Next]_vars
  PROVE  Known'
<1>1. CASE UNCHANGED <<setting, tree>>
  BY <1>1 DEF Known, Places
<1>2. CASE \E q \in setting.fresh : Create(q) \/ Vanish(q)
  <2>1. PICK q \in setting.fresh : Create(q) \/ Vanish(q)
    BY <1>2
  <2>2. setting' = setting /\ DOMAIN tree' \subseteq DOMAIN tree \cup {q}
    BY <2>1 DEF Create, Vanish, With, Without
  <2> QED BY <2>2 DEF Known, Places
<1>3. UNCHANGED <<setting, tree>> \/ \E q \in setting.fresh : Create(q) \/ Vanish(q)
  <2>1. CASE Step
    BY <2>1 DEF Step, Parse, walk, NextOperand, LstatFails, LstatDone, OpendirDone, OpendirFails,
       ReaddirEntry, ReaddirEnd, WalkEnds, GiveUp
  <2>2. CASE UNCHANGED vars
    BY <2>2 DEF vars, walk
  <2> QED BY <2>1, <2>2 DEF Next, Done
<1> QED BY <1>1, <1>2, <1>3

\* Every step keeps the accounts.
LEMMA TrailNext ==
  ASSUME Inv, Inv', HeapInv, Search, Trail, Resolves(setting), [Next]_vars
  PROVE  Trail'
<1>0. /\ Known' /\ Untouched' /\ Shape /\ Untouched /\ Phases /\ Course
      /\ Known /\ Chain(stack) /\ Ledger
      /\ operand \in Nat
  BY KnownNext, UntouchedNext DEF Search, Trail, Inv, WalkOK
<1>1. CASE Parse
  <2>1. mode \notin {"parsed", "exited"} /\ UNCHANGED walk
    BY <1>1 DEF Parse, ParseStep, SkipPath, NoExpression, BeginExpression, ParseFails, ParseSucceeds,
     ExprMissing, ExprParen, ExprNot, PrimaryUnknown, PrimaryBare, PrimaryWithArgument,
     PrimaryBadArgument, NullGoesUp, NotDone, ParenDone, ParenUnmatched,
     AndGoesOn, AndDone, OrGoesOn, OrDone, Returning
  <2>2. operand = 0 /\ out' = out /\ stack' = stack
    BY <1>0, <2>1 DEF Phases, walk
  <2>3. \A t : Taken(t) = {}
    BY <2>2 DEF Taken
  <2>4. DOMAIN out = {}
    BY <1>0, <2>3 DEF Ledger, Accountable
  <2> QED BY <1>0, <2>2, <2>4 DEF Trail, Ledger
<1>2. ASSUME UNCHANGED <<argv, path_count, nodes, value, setting, out>>,
             operand' = operand \/ operand' = operand + 1, Chain(stack'),
             NEW A, operand' = operand => Replaces(stack, stack', A),
             \A a \in A : stack # <<>> /\ \A q \in Path : MayReach(a, q) => MayReach(Top, q)
      PROVE  Trail'
  <2>1. \A t : Taken(t) \subseteq Taken(t)'
    BY <1>0, <1>2, TakenKept
  <2>2. \A t \in DOMAIN out : Accountable(t)'
    BY <1>0, <1>2, <2>1, AccountKept
  <2> QED BY <1>0, <1>2, <2>2 DEF Trail, Ledger
<1>3. ASSUME UNCHANGED <<argv, path_count, nodes, value, setting, operand, stack, out>>
      PROVE  Trail'
  <2>1. Replaces(stack, stack', {}) /\ Chain(stack')
    BY <1>0, <1>3 DEF Replaces
  <2>2. \A a \in {} : stack # <<>> /\ \A q \in Path : MayReach(a, q) => MayReach(Top, q)
    OBVIOUS
  <2> QED BY <1>2, <1>3, <2>1, <2>2
<1>4. CASE NextOperand
  <2>1. /\ UNCHANGED <<argv, path_count, nodes, value, setting, out>> /\ operand' = operand + 1
        /\ \E call : stack' = <<call>>
    BY <1>4 DEF NextOperand, parser
  <2>2. Chain(stack')
    BY <2>1 DEF Chain
  <2>3. operand' # operand
    BY <1>0, <2>1
  <2>4. \A a \in {} : stack # <<>> /\ \A q \in Path : MayReach(a, q) => MayReach(Top, q)
    OBVIOUS
  <2> QED BY <1>2, <2>1, <2>2, <2>3, <2>4
<1>5. CASE LstatFails \/ LstatDone \/ OpendirDone \/ OpendirFails \/ ReaddirEntry \/ ReaddirEnd
  <2>1. StackMoves
    BY <1>0, <1>5, CallMoves, EntryMoves
  <2>2. PICK A : /\ Replaces(stack, stack', A) /\ Chain(stack')
                 /\ \A a \in A : \A q \in Path : MayReach(a, q) => MayReach(Top, q)
    BY <2>1 DEF StackMoves
  <2>3. /\ UNCHANGED <<argv, path_count, nodes, value, setting, operand>> /\ stack # <<>>
        /\ LstatDone \/ out' = out
    BY <1>5 DEF LstatFails, LstatDone, OpendirDone, OpendirFails, ReaddirEntry, ReaddirEnd, Busy, parser
  <2>4. CASE LstatDone
    <3>1. \A t : Taken(t) \subseteq Taken(t)'
      BY <1>0, <2>2, <2>3, TakenKept
    <3>2. Ledger'
      BY <1>0, <2>4, <3>1, LedgerPrints
    <3> QED BY <1>0, <2>2, <3>2 DEF Trail
  <2>5. CASE out' = out
    BY <1>2, <2>2, <2>3, <2>5
  <2> QED BY <2>3, <2>4, <2>5
<1>6. CASE WalkEnds \/ GiveUp
  BY <1>3, <1>6 DEF WalkEnds, GiveUp, walk
<1>7. CASE (\E q \in setting.fresh : Create(q) \/ Vanish(q)) \/ UNCHANGED vars
  <2>1. UNCHANGED <<argv, path_count, nodes, value, setting, operand, stack, out>>
    BY <1>7 DEF Create, Vanish, vars, walk, parser
  <2> QED BY <1>3, <2>1
<1> QED BY <1>1, <1>4, <1>5, <1>6, <1>7 DEF Next, Step, Done

\* Nothing else is written: every line is the path of an entry below an operand, no
\* more often than that operand was given and the expression prints, and with the
\* one -print at its end only if the expression holds, if the kernel takes each line
\* to one place: for any expression, any tree and whatever comes and goes in it.
THEOREM FindsOnlyThat ==
  ASSUME \A s \in Settings : Resolves(s)
  PROVE  Spec => []FindsNothingElse
<1> DEFINE All == Inv /\ HeapInv /\ Search /\ Trail
<1>1. Init => All
  <2> SUFFICES ASSUME Init PROVE All
    OBVIOUS
  <2>1. HeapInv
    BY InitHeld
  <2>2. Trail
    BY DEF Init, Trail, Known, Chain, Ledger, Places
  <2> QED BY <2>1, <2>2, InitInv, SearchInit
<1>2. All /\ [Next]_vars => All'
  <2> SUFFICES ASSUME All, [Next]_vars PROVE All'
    OBVIOUS
  <2>1. Inv'
    BY NextInv
  <2>2. HeapInv'
    BY NextHeld DEF Inv
  <2>3. Search'
    BY <2>1, SearchNext
  <2>4. Trail'
    BY <2>1, TrailNext DEF Trail, Known
  <2> QED BY <2>1, <2>2, <2>3, <2>4
<1>3. All => FindsNothingElse
  <2> SUFFICES ASSUME All, mode = "exited", NEW t \in DOMAIN out
               PROVE  LET sources == {i \in DOMAIN Operands : \E p \in Below(i) : TextOf(i, p) = t}
                      IN  /\ sources # {}
                          /\ out[t] <= Cardinality(PrintNodes) * Cardinality(sources)
                          /\ Timeless /\ Cardinality(PrintNodes) = 1 =>
                               \A i \in sources : \A p \in Below(i) :
                                 TextOf(i, p) = t /\ Stays(p) => Holds(value, p, t)
    BY DEF FindsNothingElse, PrintNodes
  <2> DEFINE sources == {i \in DOMAIN Operands : \E p \in Below(i) : TextOf(i, p) = t}
             a == Cardinality(PrintNodes)
             b == Cardinality(Taken(t))
             d == Cardinality(sources)
  <2>1. Accountable(t)
    BY DEF Trail, Ledger
  <2>2. /\ Taken(t) \subseteq sources /\ sources \in SUBSET (1..Len(Operands))
        /\ Len(Operands) \in Nat
    <3>1. operand \in 0..Len(Operands) /\ Len(Operands) \in Nat /\ DOMAIN Operands = 1..Len(Operands)
      BY OperandsAreWords DEF Search, Phases, Inv, ParserInv
    <3>2. 1..operand \subseteq DOMAIN Operands
      BY <3>1
    <3> QED BY <3>1, <3>2 DEF Taken
  <2>3. a \in Nat
    <3>1. Ordered(nodes) /\ Whole(nodes)
      BY ParserParts DEF Inv, ParserInv, Search, Shape
    <3> QED BY <3>1, PutsBounded
  <2>4. b \in Nat /\ d \in Nat /\ b <= d
    <3>1. IsFiniteSet(sources) /\ d \in Nat
      <4> HIDE DEF sources
      <4> QED BY <2>2, UpTo
    <3>2. Taken(t) \in SUBSET sources
      BY <2>2
    <3> HIDE DEF sources
    <3> QED BY <3>1, <3>2, FS_Subset, FS_CardinalityType
  <2>5. out[t] <= a * b /\ out[t] \in Nat
    BY <2>1 DEF Accountable, Search, Phases
  <2>6. out[t] <= a * d
    <3> HIDE DEF a, b, d
    <3>1. a * b \in Nat /\ a * b <= a * d /\ a * d \in Nat
      BY <2>3, <2>4, ProductGrows
    <3> QED BY <2>5, <3>1
  <2>7. sources # {}
    BY <2>1, <2>2 DEF Accountable
  <2>8. ASSUME Timeless, a = 1, NEW i \in sources, NEW p \in Below(i), TextOf(i, p) = t, Stays(p)
        PROVE  Holds(value, p, t)
    BY <2>1, <2>8 DEF Accountable, HoldsOf
  <2> QED BY <2>6, <2>7, <2>8
<1>4. Init /\ [][Next]_vars => []All
  BY <1>1, <1>2, PTL
<1> QED BY <1>3, <1>4, PTL DEF Spec

(***************************************************************************)
(* glob_match is right for every pattern and every string: it returns 1    *)
(* only for strings that match and 0 only for strings that do not.         *)
(***************************************************************************)

(***************************************************************************)
(* Cuts: how they begin, grow at the end, lose their first piece and give  *)
(* a '*' more or less.                                                     *)
(***************************************************************************)

\* Nothing of the pattern matches nothing of the string.
LEMMA NothingSpans ==
  ASSUME NEW p, NEW t, Len(t) \in Nat, NEW i \in Int, NEW a \in 1..(Len(t) + 1)
  PROVE  Spans(p, t, i, a, i, a)
<1> DEFINE cut == [k \in i..i |-> a]
<1>1. cut \in Cuts(p, t, i, i)
  BY DEF Cuts
<1>2. cut[i] = a
  OBVIOUS
<1> QED BY <1>1, <1>2 DEF Spans

\* What matches up to a place of the pattern grows by a piece for that place.
LEMMA SpansGrow ==
  ASSUME NEW p, NEW t, Len(t) \in Nat, NEW i \in Int, NEW j \in Int, i <= j,
         NEW a, NEW b, NEW c \in 1..(Len(t) + 1),
         Spans(p, t, i, a, j, b), MayHave(p, t, j, b, c)
  PROVE  Spans(p, t, i, a, j + 1, c)
<1>1. PICK cut \in Cuts(p, t, i, j) : cut[i] = a /\ cut[j] = b
  BY DEF Spans
<1> DEFINE longer == [k \in i..(j + 1) |-> IF k = j + 1 THEN c ELSE cut[k]]
<1>2. longer \in [i..(j + 1) -> 1..(Len(t) + 1)]
  BY <1>1 DEF Cuts
<1>3. ASSUME NEW k \in i..j PROVE MayHave(p, t, k, longer[k], longer[k + 1])
  <2>1. CASE k = j
    BY <1>1, <2>1
  <2>2. CASE k # j
    <3>1. k \in i..(j - 1) /\ longer[k] = cut[k] /\ longer[k + 1] = cut[k + 1]
      BY <2>2
    <3> QED BY <1>1, <3>1 DEF Cuts
  <2> QED BY <2>1, <2>2
<1>4. longer \in Cuts(p, t, i, j + 1)
  <2>1. i..((j + 1) - 1) = i..j
    OBVIOUS
  <2> QED BY <1>2, <1>3, <2>1 DEF Cuts
<1>5. longer[i] = a /\ longer[j + 1] = c
  BY <1>1
<1> QED BY <1>4, <1>5 DEF Spans

\* A '*' may take a piece that starts anywhere before the piece that follows.
LEMMA StarMayStart ==
  ASSUME NEW p, NEW t, Len(t) \in Nat, NEW i \in Int, NEW j \in Int,
         NEW cut \in Cuts(p, t, i, j), NEW k \in i..(j - 1), p[k] = "*",
         NEW a \in 1..(Len(t) + 1), a <= cut[k + 1]
  PROVE  Spans(p, t, k, a, j, cut[j])
<1> DEFINE other == [m \in k..j |-> IF m = k THEN a ELSE cut[m]]
<1>1. other \in [k..j -> 1..(Len(t) + 1)]
  BY DEF Cuts
<1>2. ASSUME NEW m \in k..(j - 1) PROVE MayHave(p, t, m, other[m], other[m + 1])
  <2>1. m + 1 \in k..j /\ m + 1 # k /\ other[m + 1] = cut[m + 1]
    OBVIOUS
  <2>2. CASE m = k
    BY <2>1, <2>2 DEF MayHave
  <2>3. CASE m # k
    <3>1. m \in i..(j - 1) /\ other[m] = cut[m]
      BY <2>3
    <3> QED BY <2>1, <3>1 DEF Cuts
  <2> QED BY <2>2, <2>3
<1>3. other[k] = a /\ other[j] = cut[j]
  OBVIOUS
<1> QED BY <1>1, <1>2, <1>3 DEF Cuts, Spans

\* A match goes on behind its first piece.
LEMMA SpansTail ==
  ASSUME NEW p, NEW t, Len(t) \in Nat, NEW i \in Int, NEW j \in Int, i < j,
         NEW cut \in Cuts(p, t, i, j)
  PROVE  /\ cut[i + 1] \in 1..(Len(t) + 1)
         /\ MayHave(p, t, i, cut[i], cut[i + 1])
         /\ Spans(p, t, i + 1, cut[i + 1], j, cut[j])
<1> DEFINE tail == [m \in (i + 1)..j |-> cut[m]]
<1>1. cut[i + 1] \in 1..(Len(t) + 1) /\ MayHave(p, t, i, cut[i], cut[i + 1])
  BY DEF Cuts
<1>2. tail \in [(i + 1)..j -> 1..(Len(t) + 1)]
  BY DEF Cuts
<1>3. ASSUME NEW m \in (i + 1)..(j - 1) PROVE MayHave(p, t, m, tail[m], tail[m + 1])
  <2>1. m \in i..(j - 1) /\ tail[m] = cut[m] /\ tail[m + 1] = cut[m + 1]
    OBVIOUS
  <2> QED BY <2>1 DEF Cuts
<1>4. tail[i + 1] = cut[i + 1] /\ tail[j] = cut[j]
  OBVIOUS
<1> QED BY <1>1, <1>2, <1>3, <1>4 DEF Cuts, Spans

-------------------------------------------------------------------------------
\* The arguments are sequences of some length.
LEMMA Arguments ==
  ASSUME GlobTypeOK
  PROVE  /\ pattern \in Seq(Char) /\ Len(pattern) \in Nat
         /\ string \in Seq(Char) /\ Len(string) \in Nat
BY InputsAssumption DEF GlobTypeOK

\* The pointers start inside the arguments.
LEMMA InitTypeOK == GlobInit => GlobTypeOK
BY InputsAssumption DEF GlobInit, GlobTypeOK

\* And every turn of the loop leaves them there.
LEMMA NextTypeOK == GlobTypeOK /\ [GlobNext]_match => GlobTypeOK'
<1> SUFFICES ASSUME GlobTypeOK, [GlobNext]_match PROVE GlobTypeOK'
  OBVIOUS
<1>0. Len(pattern) \in Nat /\ Len(string) \in Nat
  BY Arguments
<1> USE DEF GlobTypeOK, arguments
<1>1. CASE Advance
  BY <1>0, <1>1 DEF Advance, Takes, GlobLeft, StrLeft
<1>2. CASE Star
  BY <1>0, <1>2 DEF Star, GlobLeft
<1>3. CASE Retry
  BY <1>0, <1>3 DEF Retry, CanRetry
<1>4. CASE Reject
  BY <1>4 DEF Reject
<1>5. CASE Succeed
  BY <1>5 DEF Succeed
<1>6. CASE UNCHANGED match
  BY <1>6 DEF match
<1> QED BY <1>1, <1>2, <1>3, <1>4, <1>5, <1>6 DEF GlobNext

\* The pointers of glob_match never leave its arguments.
THEOREM PointersStay == GlobSpec => []GlobTypeOK
<1>1. QED BY InitTypeOK, NextTypeOK, PTL DEF GlobSpec

-------------------------------------------------------------------------------
(***************************************************************************)
(* The steps of the loop.                                                  *)
(***************************************************************************)

\* When the switch is left by a break, no match goes on from here.
LEMMA MismatchEnds ==
  ASSUME GlobTypeOK, Mismatch
  PROVE  ~MatchesFrom(pattern, string, glob, str)
<1> SUFFICES ASSUME MatchesFrom(pattern, string, glob, str) PROVE FALSE
  OBVIOUS
<1>0. Len(pattern) \in Nat /\ Len(string) \in Nat
  BY Arguments
<1>1. PICK cut \in Cuts(pattern, string, glob, Len(pattern) + 1) :
        cut[glob] = str /\ cut[Len(pattern) + 1] = Len(string) + 1
  BY DEF MatchesFrom, Spans
<1>2. CASE GlobLeft
  <2>1. /\ cut[glob + 1] \in 1..(Len(string) + 1)
        /\ MayHave(pattern, string, glob, str, cut[glob + 1])
    BY <1>0, <1>1, <1>2, SpansTail DEF GlobTypeOK, GlobLeft
  <2>2. pattern[glob] # "*"
    BY <1>2 DEF Mismatch
  <2>3. Takes
    BY <1>2, <2>1, <2>2 DEF MayHave, Takes, StrLeft
  <2> QED BY <2>3 DEF Mismatch
<1>3. CASE ~GlobLeft
  <2>1. glob = Len(pattern) + 1
    BY <1>0, <1>3 DEF GlobTypeOK, GlobLeft
  <2>2. str = Len(string) + 1
    BY <1>1, <2>1
  <2> QED BY <1>0, <1>3, <2>2 DEF Mismatch, Looping, StrLeft
<1> QED BY <1>2, <1>3

\* A match in which the last '*' takes more can be had from here as well.
LEMMA StarNeedsNoEarlier ==
  ASSUME GlobTypeOK, Complete, NoLater, StarSound, Matches(pattern, string),
         GlobLeft, pattern[glob] = "*"
  PROVE  MatchesFrom(pattern, string, glob, str)
<1> SUFFICES ASSUME ~MatchesFrom(pattern, string, glob, str) PROVE FALSE
  OBVIOUS
<1>0. Len(pattern) \in Nat /\ Len(string) \in Nat
  BY Arguments
<1>1. glob_start # 0 /\ MatchesFrom(pattern, string, glob_start, str_start + 1)
  BY DEF Complete
<1>2. PICK cut \in Cuts(pattern, string, glob_start, Len(pattern) + 1) :
        cut[glob_start] = str_start + 1 /\ cut[Len(pattern) + 1] = Len(string) + 1
  BY <1>1 DEF MatchesFrom, Spans
<1>3. cut[glob] >= str
  BY <1>1, <1>2 DEF NoLater
<1>4. glob \in glob_start..((Len(pattern) + 1) - 1)
  BY <1>0, <1>1 DEF GlobTypeOK, StarSound, GlobLeft
<1>5. cut[glob] <= cut[glob + 1]
  BY <1>2, <1>4 DEF Cuts, MayHave
<1>6. str <= cut[glob + 1]
  <2>1. glob \in glob_start..(Len(pattern) + 1) /\ glob + 1 \in glob_start..(Len(pattern) + 1)
    BY <1>0, <1>4 DEF GlobTypeOK
  <2>2. cut[glob] \in 1..(Len(string) + 1) /\ cut[glob + 1] \in 1..(Len(string) + 1)
    BY <1>2, <2>1 DEF Cuts
  <2> QED BY <1>0, <1>3, <1>5, <2>2 DEF GlobTypeOK
<1>7. Spans(pattern, string, glob, str, Len(pattern) + 1, cut[Len(pattern) + 1])
  BY <1>0, <1>2, <1>4, <1>6, StarMayStart DEF GlobTypeOK
<1> QED BY <1>2, <1>7 DEF MatchesFrom

\* A character that both have in common.
LEMMA AdvanceGreedy ==
  ASSUME GlobTypeOK, Greedy, Advance
  PROVE  Greedy'
<1>0. /\ Len(pattern) \in Nat /\ Len(string) \in Nat
      /\ pattern' = pattern /\ string' = string /\ result' = result /\ result = "none"
      /\ glob_start' = glob_start /\ str_start' = str_start
      /\ glob' = glob + 1 /\ str' = str + 1
  BY Arguments DEF Advance, Looping, arguments
<1>1. /\ glob \in 1..Len(pattern) /\ str \in 1..Len(string) /\ pattern[glob] # "*"
      /\ \A a, b : MayHave(pattern, string, glob, a, b) => b = a + 1
      /\ MayHave(pattern, string, glob, str, str + 1)
  BY <1>0 DEF Advance, Takes, GlobLeft, StrLeft, GlobTypeOK, MayHave
<1>2. Sound'
  <2>1. Spans(pattern, string, 1, 1, glob, str)
    BY <1>1 DEF Greedy, Sound
  <2>2. Spans(pattern, string, 1, 1, glob + 1, str + 1)
    BY <1>0, <1>1, <2>1, SpansGrow
  <2> QED BY <1>0, <1>1, <2>2 DEF Sound
<1>3. StarSound'
  BY <1>0, <1>1 DEF Greedy, StarSound, GlobTypeOK
<1>4. Complete'
  <2>1. ASSUME MatchesFrom(pattern, string, glob, str)
        PROVE  MatchesFrom(pattern, string, glob + 1, str + 1)
    <3>1. PICK cut \in Cuts(pattern, string, glob, Len(pattern) + 1) :
            cut[glob] = str /\ cut[Len(pattern) + 1] = Len(string) + 1
      BY <2>1 DEF MatchesFrom, Spans
    <3>2. /\ MayHave(pattern, string, glob, cut[glob], cut[glob + 1])
          /\ Spans(pattern, string, glob + 1, cut[glob + 1], Len(pattern) + 1, cut[Len(pattern) + 1])
      BY <1>0, <1>1, <3>1, SpansTail
    <3>3. cut[glob + 1] = str + 1
      BY <1>1, <3>1, <3>2
    <3> QED BY <3>1, <3>2, <3>3 DEF MatchesFrom
  <2> QED BY <1>0, <2>1 DEF Greedy, Complete
<1>5. NoLater'
  <2> SUFFICES ASSUME glob_start # 0,
                      NEW cut \in Cuts(pattern, string, glob_start, Len(pattern) + 1),
                      cut[glob_start] = str_start + 1
               PROVE  cut[glob + 1] >= str + 1
    BY <1>0 DEF NoLater
  <2>1. cut[glob] >= str
    BY DEF Greedy, NoLater
  <2>2. glob \in glob_start..((Len(pattern) + 1) - 1)
    BY <1>0, <1>1 DEF Greedy, StarSound, GlobTypeOK
  <2>3. cut[glob + 1] = cut[glob] + 1 /\ cut[glob] \in Int
    BY <1>0, <1>1, <2>2 DEF Cuts
  <2> QED BY <1>1, <2>1, <2>3
<1>6. Correct'
  BY <1>0 DEF Correct
<1> QED BY <1>2, <1>3, <1>4, <1>5, <1>6 DEF Greedy

\* A new '*', behind which the one before is forgotten.
LEMMA StarGreedy ==
  ASSUME GlobTypeOK, Greedy, Star
  PROVE  Greedy'
<1>0. /\ Len(pattern) \in Nat /\ Len(string) \in Nat
      /\ pattern' = pattern /\ string' = string /\ result' = result /\ result = "none"
      /\ glob_start' = glob /\ str_start' = str
      /\ glob' = glob + 1 /\ str' = str
  BY Arguments DEF Star, Looping, arguments
<1>1. /\ glob \in 1..Len(pattern) /\ str \in 1..(Len(string) + 1) /\ pattern[glob] = "*"
      /\ \A a, b : MayHave(pattern, string, glob, a, b) <=> a <= b
  BY <1>0 DEF Star, GlobLeft, GlobTypeOK, MayHave
<1>2. Sound' /\ StarSound'
  <2>1. PICK b \in 1..str : Spans(pattern, string, 1, 1, glob, b)
    BY DEF Greedy, Sound
  <2>2. Spans(pattern, string, 1, 1, glob + 1, str)
    BY <1>0, <1>1, <2>1, SpansGrow
  <2> QED BY <1>0, <1>1, <2>1, <2>2 DEF Sound, StarSound
<1>3. Complete'
  <2> SUFFICES ASSUME Matches(pattern, string)
               PROVE  \/ MatchesFrom(pattern, string, glob + 1, str)
                      \/ str <= Len(string) /\ MatchesFrom(pattern, string, glob, str + 1)
    BY <1>0, <1>1 DEF Complete
  <2>1. MatchesFrom(pattern, string, glob, str)
    BY <1>1, StarNeedsNoEarlier DEF Greedy, Star
  <2>2. PICK cut \in Cuts(pattern, string, glob, Len(pattern) + 1) :
          cut[glob] = str /\ cut[Len(pattern) + 1] = Len(string) + 1
    BY <2>1 DEF MatchesFrom, Spans
  <2>3. /\ cut[glob + 1] \in 1..(Len(string) + 1) /\ cut[glob + 1] >= str
        /\ Spans(pattern, string, glob + 1, cut[glob + 1], Len(pattern) + 1, cut[Len(pattern) + 1])
    BY <1>0, <1>1, <2>2, SpansTail
  <2>4. CASE cut[glob + 1] = str
    BY <2>2, <2>3, <2>4 DEF MatchesFrom
  <2>5. CASE cut[glob + 1] # str
    <3>1. str + 1 <= cut[glob + 1] /\ str <= Len(string) /\ str + 1 \in 1..(Len(string) + 1)
      BY <1>0, <1>1, <2>3, <2>5
    <3>2. Spans(pattern, string, glob, str + 1, Len(pattern) + 1, cut[Len(pattern) + 1])
      BY <1>0, <1>1, <2>2, <3>1, StarMayStart
    <3> QED BY <2>2, <3>1, <3>2 DEF MatchesFrom
  <2> QED BY <2>4, <2>5
<1>4. NoLater'
  <2> SUFFICES ASSUME NEW cut \in Cuts(pattern, string, glob, Len(pattern) + 1),
                      cut[glob] = str + 1
               PROVE  cut[glob + 1] >= str
    BY <1>0 DEF NoLater
  <2>1. cut[glob] <= cut[glob + 1] /\ cut[glob + 1] \in Int
    BY <1>0, <1>1 DEF Cuts
  <2> QED BY <1>1, <2>1
<1>5. Correct'
  BY <1>0 DEF Correct
<1> QED BY <1>2, <1>3, <1>4, <1>5 DEF Greedy

\* A mismatch, for which the last '*' takes one character more.
LEMMA RetryGreedy ==
  ASSUME GlobTypeOK, Greedy, Retry
  PROVE  Greedy'
<1>0. /\ Len(pattern) \in Nat /\ Len(string) \in Nat
      /\ pattern' = pattern /\ string' = string /\ result' = result /\ result = "none"
      /\ glob_start' = glob_start /\ str_start' = str_start + 1
      /\ glob' = glob_start /\ str' = str_start + 1
  BY Arguments DEF Retry, Mismatch, Looping, arguments
<1>1. /\ glob_start \in 1..Len(pattern) /\ str_start \in 1..Len(string)
      /\ pattern[glob_start] = "*"
  BY <1>0 DEF Greedy, StarSound, Retry, CanRetry, GlobTypeOK
<1>2. Sound' /\ StarSound'
  <2>1. PICK b \in 1..str_start : Spans(pattern, string, 1, 1, glob_start, b)
    BY <1>1 DEF Greedy, StarSound
  <2>2. b \in 1..(str_start + 1)
    BY <1>1
  <2>3. Sound'
    BY <1>0, <1>1, <2>1, <2>2 DEF Sound, GlobLeft
  <2>4. StarSound'
    BY <1>0, <1>1, <2>1, <2>2 DEF StarSound
  <2> QED BY <2>3, <2>4
<1>3. Complete'
  <2>1. ~MatchesFrom(pattern, string, glob, str)
    BY MismatchEnds DEF Retry
  <2> QED BY <1>0, <2>1 DEF Greedy, Complete
<1>4. NoLater'
  BY <1>0, <1>1 DEF NoLater
<1>5. Correct'
  BY <1>0 DEF Correct
<1> QED BY <1>2, <1>3, <1>4, <1>5 DEF Greedy

\* A step that only sets the result.
LEMMA ResultGreedy ==
  ASSUME Greedy, UNCHANGED <<arguments, glob, str, glob_start, str_start>>, Correct'
  PROVE  Greedy'
BY DEF Greedy, Sound, StarSound, Complete, NoLater, GlobLeft, arguments

\* Nothing has been matched at first.
LEMMA InitGreedy == GlobInit => Greedy
<1> SUFFICES ASSUME GlobInit PROVE Greedy
  OBVIOUS
<1>1. Len(pattern) \in Nat /\ Len(string) \in Nat
  BY InitTypeOK, Arguments
<1>2. Spans(pattern, string, 1, 1, 1, 1)
  BY <1>1, NothingSpans
<1> QED BY <1>1, <1>2 DEF GlobInit, Greedy, Sound, StarSound, Complete, NoLater, Correct, Matches

\* Every turn of the loop keeps the invariant.
LEMMA NextGreedy == GlobTypeOK /\ Greedy /\ [GlobNext]_match => Greedy'
<1> SUFFICES ASSUME GlobTypeOK, Greedy, [GlobNext]_match PROVE Greedy'
  OBVIOUS
<1>0. Len(pattern) \in Nat /\ Len(string) \in Nat
  BY Arguments
<1>1. CASE Advance
  BY <1>1, AdvanceGreedy
<1>2. CASE Star
  BY <1>2, StarGreedy
<1>3. CASE Retry
  BY <1>3, RetryGreedy
<1>4. CASE Reject
  <2>1. ~MatchesFrom(pattern, string, glob, str)
    BY <1>4, MismatchEnds DEF Reject
  <2>2. ~(glob_start # 0 /\ str_start <= Len(string))
    BY <1>4 DEF Reject, CanRetry, GlobTypeOK
  <2>3. ~Matches(pattern, string)
    BY <2>1, <2>2 DEF Greedy, Complete
  <2>4. Correct'
    BY <1>4, <2>3 DEF Reject, Correct, arguments
  <2> QED BY <1>4, <2>4, ResultGreedy DEF Reject
<1>5. CASE Succeed
  <2>1. glob = Len(pattern) + 1 /\ str = Len(string) + 1 /\ ~GlobLeft
    BY <1>0, <1>5 DEF Succeed, GlobLeft, StrLeft, GlobTypeOK
  <2>2. Matches(pattern, string)
    BY <2>1 DEF Greedy, Sound, Matches, MatchesFrom
  <2>3. Correct'
    BY <1>5, <2>2 DEF Succeed, Correct, arguments
  <2> QED BY <1>5, <2>3, ResultGreedy DEF Succeed
<1>6. CASE UNCHANGED match
  <2>1. Correct'
    BY <1>6 DEF match, Greedy, Correct
  <2> QED BY <1>6, <2>1, ResultGreedy DEF match, arguments
<1> QED BY <1>1, <1>2, <1>3, <1>4, <1>5, <1>6 DEF GlobNext

\* The inductive invariant: what lies behind the pointers matches, and the last
\* '*' is the only one that may have to take more.
THEOREM GreedyInvariant == GlobSpec => []Greedy
<1>1. QED BY InitGreedy, NextGreedy, PointersStay, PTL DEF GlobSpec

\* glob_match returns 1 exactly for the strings that match the pattern, for all
\* patterns and strings whatever their length.
THEOREM MatchIsCorrect == GlobSpec => []Correct
<1>1. Greedy => Correct
  BY DEF Greedy
<1> QED BY <1>1, GreedyInvariant, PTL

\* Matches, by which Find models its calls of glob_match, is what it returns.
THEOREM MatchesIsMeant ==
  GlobSpec => [](result # "none" => (result = "1" <=> Matches(pattern, string)))
<1>1. GlobTypeOK /\ Correct => (result # "none" => (result = "1" <=> Matches(pattern, string)))
  BY DEF GlobTypeOK, Correct
<1> QED BY <1>1, PointersStay, MatchIsCorrect, PTL
===============================================================================
