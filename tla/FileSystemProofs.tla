--------------------------- MODULE FileSystemProofs ---------------------------
(***************************************************************************)
(* Facts about paths, trees and sequences of sequences that the proofs     *)
(* about the utilities cite.                                               *)
(***************************************************************************)
EXTENDS FileSystem, SequenceTheorems, WellFoundedInduction, TLAPS

\* Appending to a sequence and taking the last element off undo each other:
\* what push and pop on the activations of a recursive function rely on.
LEMMA FrontOfAppend ==
  ASSUME NEW S, NEW s \in Seq(S), NEW e \in S
  PROVE  /\ Append(s, e) \in Seq(S) /\ Append(s, e) # <<>>
         /\ Front(Append(s, e)) = s
         /\ Last(Append(s, e)) = e
  BY DEF Front, Last

\* A sequence that is not empty is its front with its last element.
LEMMA FrontAndLast ==
  ASSUME NEW S, NEW s \in Seq(S), s # <<>>
  PROVE  /\ Front(s) \in Seq(S) /\ Last(s) \in S
         /\ Len(Front(s)) = Len(s) - 1 /\ Len(s) >= 1
         /\ s = Append(Front(s), Last(s))
         /\ \A i \in 1..(Len(s) - 1) : Front(s)[i] = s[i]
<1>1. Len(s) \in Nat /\ Len(s) >= 1 /\ DOMAIN s = 1..Len(s)
  OBVIOUS
<1>2. \A i \in 1..Len(s) : s[i] \in S
  OBVIOUS
<1>3. /\ Front(s) \in Seq(S) /\ Len(Front(s)) = Len(s) - 1
      /\ \A i \in 1..(Len(s) - 1) : Front(s)[i] = s[i]
  BY <1>1, <1>2 DEF Front
<1>4. Last(s) \in S
  BY <1>1, <1>2 DEF Last
<1>5. s = Append(Front(s), Last(s))
  <2> DEFINE f == Front(s)
             e == Last(s)
  <2>1. f \in Seq(S) /\ e \in S /\ Len(f) = Len(s) - 1
    BY <1>3, <1>4
  <2>2. \A i \in 1..(Len(s) - 1) : f[i] = s[i]
    BY <1>3
  <2>3. e = s[Len(s)]
    BY DEF Last
  <2> HIDE DEF f, e
  <2>4. /\ Append(f, e) \in Seq(S) /\ Len(Append(f, e)) = Len(f) + 1
        /\ \A i \in 1..Len(f) : Append(f, e)[i] = f[i]
        /\ Append(f, e)[Len(f) + 1] = e
    BY <2>1
  <2>5. \A i \in 1..Len(s) : s[i] = Append(f, e)[i]
    BY <1>1, <2>1, <2>2, <2>3, <2>4
  <2>6. s = Append(f, e)
    <3>1. Len(s) = Len(Append(f, e))
      BY <1>1, <2>1, <2>4
    <3> QED
      BY <3>1, <2>4, <2>5, SeqEqual, Zenon
  <2> QED
    BY <2>6 DEF f, e
<1> QED
  BY <1>1, <1>3, <1>4, <1>5

\* The path of an entry lies below whatever its directory lies below.
LEMMA PrefixOfEntry ==
  ASSUME NEW S, NEW top \in Seq(S), NEW s \in Seq(S), NEW e \in S, IsPrefix(top, s)
  PROVE  IsPrefix(top, Append(s, e))
  BY DEF IsPrefix

\* unlink of a file or link, and rmdir of an empty directory, leave a tree.
LEMMA WithoutIsTree ==
  ASSUME NEW t, NEW p, IsTree(t), CanUnlink(t, p) \/ CanRmdir(t, p)
  PROVE  IsTree(Without(t, p))
<1> DEFINE u == Without(t, p)
<1>1. DOMAIN u = DOMAIN t \ {p} /\ \A q \in DOMAIN u : u[q] = t[q]
  BY DEF Without
<1>2. p # <<>>
  BY DEF CanUnlink, CanRmdir, IsTree
<1>3. IsDir(u, <<>>)
  BY <1>1, <1>2 DEF IsTree, IsDir, Exists
<1>4. ASSUME NEW q \in DOMAIN u
      PROVE  /\ q \in Path
             /\ q # <<>> => IsDir(u, Front(q))
             /\ IsLink(u, q) => u[q].to \in Path /\ ~IsLink(u, u[q].to)
  <2>1. q \in DOMAIN t /\ q \in Path
    BY <1>1 DEF IsTree
  <2>2. q # <<>> => IsDir(u, Front(q))
    <3> SUFFICES ASSUME q # <<>> PROVE IsDir(u, Front(q))
      OBVIOUS
    <3>1. IsDir(t, Front(q))
      BY <2>1 DEF IsTree
    <3>2. Front(q) # p
      <4> SUFFICES ASSUME Front(q) = p PROVE FALSE
        OBVIOUS
      <4>1. Last(q) \in Name /\ q = Append(p, Last(q))
        BY <2>1, FrontAndLast DEF Path
      <4>2. Last(q) \in Entries(t, p)
        BY <2>1, <4>1 DEF Entries, Exists
      <4> QED
        BY <3>1, <4>2 DEF CanUnlink, CanRmdir
    <3> QED
      BY <1>1, <3>1, <3>2 DEF IsDir, Exists
  <2>3. IsLink(u, q) => u[q].to \in Path /\ ~IsLink(u, u[q].to)
    BY <1>1, <2>1 DEF IsTree, IsLink, Exists
  <2> QED
    BY <2>1, <2>2, <2>3
<1>5. u = [q \in DOMAIN u |-> u[q]]
  BY DEF Without
<1> HIDE DEF u
<1>6. IsTree(u)
  BY <1>3, <1>4, <1>5 DEF IsTree
<1> QED
  BY <1>6 DEF u

\* A new file or directory in an existing directory leaves a tree.
LEMMA WithIsTree ==
  ASSUME NEW t, NEW p \in Path, NEW node, IsTree(t), CanMake(t, p),
         node.kind \in {"dir", "file"}
  PROVE  IsTree(With(t, p, node))
<1> DEFINE u == With(t, p, node)
<1>1. /\ DOMAIN u = DOMAIN t \cup {p}
      /\ \A q \in DOMAIN t : u[q] = t[q]
      /\ u[p] = node
  BY DEF With, CanMake, Exists
<1>2. node.kind # "link"
  OBVIOUS
<1>3. \A q : IsDir(t, q) => IsDir(u, q)
  BY <1>1 DEF IsDir, Exists
<1>4. \A q : IsLink(u, q) => IsLink(t, q) /\ u[q] = t[q]
  BY <1>1, <1>2 DEF IsLink, Exists
<1>5. ASSUME NEW q \in DOMAIN u
      PROVE  /\ q \in Path
             /\ q # <<>> => IsDir(u, Front(q))
             /\ IsLink(u, q) => u[q].to \in Path /\ ~IsLink(u, u[q].to)
  <2>1. CASE q \in DOMAIN t
    BY <1>3, <1>4, <2>1 DEF IsTree
  <2>2. CASE q = p
    BY <1>1, <1>2, <1>3, <2>2 DEF CanMake, IsLink
  <2> QED
    BY <1>1, <2>1, <2>2
<1>6. u = [q \in DOMAIN u |-> u[q]]
  BY DEF With
<1> HIDE DEF u
<1>7. IsTree(u)
  BY <1>3, <1>5, <1>6 DEF IsTree
<1> QED
  BY <1>7 DEF u

-------------------------------------------------------------------------------
\* A set of natural numbers that is not empty has a least element.
LEMMA LeastElement ==
  ASSUME NEW T, T \subseteq Nat, T # {}
  PROVE  \E x \in T : \A y \in T : x <= y
<1> DEFINE R == OpToRel(<, Nat)
<1>1. PICK x \in T : \A y \in T : ~(<<y, x>> \in R)
  <2>1. IsWellFoundedOn(R, Nat)
    BY NatLessThanWellFounded
  <2> HIDE DEF R
  <2> QED
    BY <2>1, WFMin
<1>2. \A a, b \in Nat : b < a => <<b, a>> \in R
  BY DEF OpToRel
<1> HIDE DEF R
<1>3. ASSUME NEW y \in T PROVE x <= y
  <2>1. x \in Nat /\ y \in Nat
    OBVIOUS
  <2>2. ~(y < x)
    BY <1>1, <1>2, <2>1, Zenon
  <2> QED
    BY <2>1, <2>2
<1> QED
  BY <1>3

\* Induction, for the numbers in a set: what the proofs below use where the
\* fact to be shown is about sequences of any length.
LEMMA InductionOnSet ==
  ASSUME NEW S, 0 \in S, \A n \in Nat : n \in S => n + 1 \in S
  PROVE  Nat \subseteq S
<1> SUFFICES ASSUME Nat \ S # {} PROVE FALSE
  OBVIOUS
<1>1. PICK x \in Nat \ S : \A y \in Nat \ S : x <= y
  BY LeastElement
<1>2. x - 1 \in Nat /\ x - 1 \notin S
  BY <1>1
<1> QED
  BY <1>1, <1>2

\* What it is to be a prefix, element by element.
LEMMA PrefixElements ==
  ASSUME NEW S, NEW s \in Seq(S), NEW t \in Seq(S)
  PROVE  IsPrefix(s, t) <=> Len(s) <= Len(t) /\ \A i \in 1..Len(s) : s[i] = t[i]
<1>1. /\ Len(s) \in Nat /\ Len(t) \in Nat
      /\ SubSeq(s, 1, Len(s)) = s
  BY SubSeqFull
<1>2. CASE Len(s) <= Len(t)
  <2>1. /\ SubSeq(t, 1, Len(s)) \in Seq(S) /\ Len(SubSeq(t, 1, Len(s))) = Len(s)
        /\ \A i \in 1..Len(s) : SubSeq(t, 1, Len(s))[i] = t[i]
    BY <1>1, <1>2
  <2> DEFINE u == SubSeq(t, 1, Len(s))
  <2> HIDE DEF u
  <2>2. (\A i \in 1..Len(s) : s[i] = u[i]) => s = u
    BY <2>1, SeqEqual, Zenon DEF u
  <2> QED
    BY <1>1, <1>2, <2>1, <2>2 DEF IsPrefix, u
<1> QED
  BY <1>1, <1>2 DEF IsPrefix

\* Every path is a prefix of itself.
LEMMA PrefixOfItself ==
  ASSUME NEW S, NEW s \in Seq(S)
  PROVE  IsPrefix(s, s)
  BY PrefixElements

\* Being a prefix is transitive.
LEMMA PrefixTransitive ==
  ASSUME NEW S, NEW r \in Seq(S), NEW s \in Seq(S), NEW t \in Seq(S),
         IsPrefix(r, s), IsPrefix(s, t)
  PROVE  IsPrefix(r, t)
<1>1. Len(r) <= Len(s) /\ \A i \in 1..Len(r) : r[i] = s[i]
  BY PrefixElements
<1>2. Len(s) <= Len(t) /\ \A i \in 1..Len(s) : s[i] = t[i]
  BY PrefixElements
<1>3. Len(r) \in Nat /\ Len(s) \in Nat /\ Len(t) \in Nat
  OBVIOUS
<1>4. Len(r) <= Len(t) /\ \A i \in 1..Len(r) : r[i] = t[i]
  BY <1>1, <1>2, <1>3
<1> QED
  BY <1>4, PrefixElements

\* Of two prefixes of one path the longer lies below the shorter.
LEMMA PrefixesNest ==
  ASSUME NEW S, NEW r \in Seq(S), NEW s \in Seq(S), NEW t \in Seq(S),
         IsPrefix(r, t), IsPrefix(s, t), Len(r) <= Len(s)
  PROVE  IsPrefix(r, s)
<1>1. Len(r) <= Len(t) /\ \A i \in 1..Len(r) : r[i] = t[i]
  BY PrefixElements
<1>2. Len(s) <= Len(t) /\ \A i \in 1..Len(s) : s[i] = t[i]
  BY PrefixElements
<1>3. Len(r) \in Nat /\ Len(s) \in Nat
  OBVIOUS
<1>4. \A i \in 1..Len(r) : r[i] = s[i]
  BY <1>1, <1>2, <1>3
<1> QED
  BY <1>4, PrefixElements

\* The first directories on the way to a path are a prefix of it.
LEMMA PartOfPath ==
  ASSUME NEW S, NEW p \in Seq(S), NEW i \in 0..Len(p)
  PROVE  /\ SubSeq(p, 1, i) \in Seq(S) /\ Len(SubSeq(p, 1, i)) = i
         /\ \A j \in 1..i : SubSeq(p, 1, i)[j] = p[j]
         /\ IsPrefix(SubSeq(p, 1, i), p)
<1>1. Len(p) \in Nat /\ i \in Nat /\ i <= Len(p)
  OBVIOUS
<1>2. /\ SubSeq(p, 1, i) \in Seq(S) /\ Len(SubSeq(p, 1, i)) = i
      /\ \A j \in 1..i : SubSeq(p, 1, i)[j] = p[j]
  BY <1>1
<1> DEFINE q == SubSeq(p, 1, i)
<1> HIDE DEF q
<1>3. IsPrefix(q, p)
  BY <1>1, <1>2, PrefixElements DEF q
<1> QED
  BY <1>2, <1>3 DEF q

\* A prefix of a path is that many of its names.
LEMMA PrefixIsPart ==
  ASSUME NEW S, NEW q \in Seq(S), NEW p \in Seq(S), IsPrefix(q, p)
  PROVE  Len(q) \in 0..Len(p) /\ q = SubSeq(p, 1, Len(q))
  BY SubSeqFull DEF IsPrefix

\* The part of a path one name shorter is the directory of the part.
LEMMA FrontOfPart ==
  ASSUME NEW S, NEW p \in Seq(S), NEW i \in 1..Len(p)
  PROVE  SubSeq(p, 1, i) # <<>> /\ Front(SubSeq(p, 1, i)) = SubSeq(p, 1, i - 1)
<1> DEFINE q == SubSeq(p, 1, i)
           r == SubSeq(p, 1, i - 1)
<1>0. Len(p) \in Nat /\ i \in Nat /\ i - 1 \in 0..Len(p) /\ i \in 0..Len(p)
  OBVIOUS
<1>1. /\ q \in Seq(S) /\ Len(q) = i /\ q # <<>>
      /\ \A j \in 1..i : q[j] = p[j]
  BY <1>0
<1>2. /\ r \in Seq(S) /\ Len(r) = i - 1
      /\ \A j \in 1..(i - 1) : r[j] = p[j]
  BY <1>0
<1> HIDE DEF q, r
<1>3. /\ Front(q) \in Seq(S) /\ Len(Front(q)) = i - 1
      /\ \A j \in 1..(i - 1) : Front(q)[j] = q[j]
  BY <1>1, FrontAndLast
<1>4. \A j \in 1..Len(r) : r[j] = Front(q)[j]
  BY <1>0, <1>1, <1>2, <1>3
<1>5. Front(q) = r
  BY <1>2, <1>3, <1>4, SeqEqual
<1> QED
  BY <1>1, <1>5 DEF q, r

\* Whatever a path in a tree leads through is there, and is a directory.
LEMMA PrefixesExist ==
  ASSUME NEW t, IsTree(t), NEW p \in DOMAIN t, NEW i \in 0..Len(p)
  PROVE  Exists(t, SubSeq(p, 1, i)) /\ (i < Len(p) => IsDir(t, SubSeq(p, 1, i)))
<1>0. p \in Path /\ p \in Seq(Name) /\ Len(p) \in Nat
  BY DEF IsTree, Path
<1> DEFINE Good(j) == /\ Exists(t, SubSeq(p, 1, j))
                      /\ j < Len(p) => IsDir(t, SubSeq(p, 1, j))
           S == {n \in Nat : n <= Len(p) => Good(Len(p) - n)}
<1>1. 0 \in S
  <2>1. Len(p) - 0 = Len(p) /\ ~(Len(p) < Len(p))
    BY <1>0
  <2>2. SubSeq(p, 1, Len(p)) = p
    BY <1>0, SubSeqFull
  <2>3. Good(Len(p))
    BY <2>1, <2>2 DEF Exists
  <2> HIDE DEF Good
  <2> QED
    BY <2>1, <2>3
<1>2. ASSUME NEW n \in Nat, n \in S PROVE n + 1 \in S
  <2> SUFFICES ASSUME n + 1 <= Len(p) PROVE Good(Len(p) - (n + 1))
    OBVIOUS
  <2> DEFINE j == Len(p) - n
  <2>1. j \in 1..Len(p) /\ j - 1 = Len(p) - (n + 1)
    BY <1>0
  <2>2. Exists(t, SubSeq(p, 1, j))
    BY <1>0, <1>2
  <2> HIDE DEF j
  <2>3. SubSeq(p, 1, j) # <<>> /\ Front(SubSeq(p, 1, j)) = SubSeq(p, 1, j - 1)
    BY <1>0, <2>1, FrontOfPart
  <2>4. IsDir(t, SubSeq(p, 1, j - 1))
    BY <2>2, <2>3 DEF IsTree, Exists
  <2>5. Good(j - 1)
    BY <2>4 DEF IsDir
  <2> QED
    BY <2>1, <2>5
<1>3. Len(p) - i \in S
  <2> HIDE DEF S
  <2>1. Nat \subseteq S
    BY <1>1, <1>2, InductionOnSet
  <2> QED
    BY <1>0, <2>1
<1> QED
  BY <1>0, <1>3

\* The same, of prefixes: what lies above an entry is a directory.
LEMMA AboveIsDir ==
  ASSUME NEW t, IsTree(t), NEW p \in DOMAIN t, NEW q \in Path, IsPrefix(q, p)
  PROVE  Exists(t, q) /\ (q # p => IsDir(t, q))
<1>1. p \in Seq(Name) /\ q \in Seq(Name) /\ Len(p) \in Nat
  BY DEF IsTree, Path
<1>2. Len(q) \in 0..Len(p) /\ q = SubSeq(p, 1, Len(q))
  BY <1>1, PrefixIsPart
<1>3. Len(q) = Len(p) => q = p
  BY <1>1, <1>2, SubSeqFull
<1>4. /\ Exists(t, SubSeq(p, 1, Len(q)))
      /\ Len(q) < Len(p) => IsDir(t, SubSeq(p, 1, Len(q)))
  BY <1>2, PrefixesExist
<1>5. Len(q) # Len(p) => Len(q) < Len(p)
  BY <1>1, <1>2
<1> QED
  BY <1>2, <1>3, <1>4, <1>5, Zenon

\* A path through something other than a directory does not exist (ENOTDIR).
LEMMA ThroughFileIsGone ==
  ASSUME NEW t, IsTree(t), NEW p, ThroughFile(t, p)
  PROVE  ~Exists(t, p)
<1> SUFFICES ASSUME p \in DOMAIN t PROVE FALSE
  BY DEF Exists
<1>1. PICK i \in 1..(Len(p) - 1) : ~IsDir(t, SubSeq(p, 1, i))
  BY DEF ThroughFile
<1>2. Len(p) \in Nat
  BY DEF IsTree, Path
<1>3. i \in 0..Len(p) /\ i < Len(p)
  BY <1>2
<1> QED
  BY <1>1, <1>3, PrefixesExist

\* Once an entry is gone, so is all that lay below it.
LEMMA GoneWithAllBelow ==
  ASSUME NEW t, IsTree(t), NEW p \in Path, ~Exists(t, p), NEW q \in DOMAIN t
  PROVE  ~IsPrefix(p, q)
  BY AboveIsDir

\* Below an empty directory there is nothing.
LEMMA EmptyHasNothingBelow ==
  ASSUME NEW t, IsTree(t), NEW p \in Path, Entries(t, p) = {}, NEW q \in DOMAIN t,
         IsPrefix(p, q)
  PROVE  q = p
<1> SUFFICES ASSUME q # p PROVE FALSE
  OBVIOUS
<1>1. p \in Seq(Name) /\ q \in Seq(Name) /\ Len(p) \in Nat /\ Len(q) \in Nat
  BY DEF IsTree, Path
<1>2. Len(p) \in 0..Len(q) /\ p = SubSeq(q, 1, Len(p))
  BY <1>1, PrefixIsPart
<1>3. Len(p) # Len(q)
  BY <1>1, <1>2, SubSeqFull
<1> DEFINE i == Len(p) + 1
           r == SubSeq(q, 1, i)
<1>4. i \in 1..Len(q) /\ i \in 0..Len(q) /\ i - 1 = Len(p)
  BY <1>1, <1>2, <1>3
<1>5. r # <<>> /\ Front(r) = p /\ r \in Seq(Name)
  BY <1>1, <1>2, <1>4, FrontOfPart, PartOfPath
<1>6. Exists(t, r)
  BY <1>4, PrefixesExist
<1> HIDE DEF r
<1>7. Last(r) \in Name /\ r = Append(p, Last(r))
  BY <1>5, FrontAndLast
<1> QED
  BY <1>6, <1>7 DEF Entries

-------------------------------------------------------------------------------
(***************************************************************************)
(* FoldLeft, which is a recursion on the set of indices that takes the     *)
(* largest first.                                                          *)
(***************************************************************************)
LEMMA MaxIs ==
  ASSUME NEW n \in Nat, NEW s \in SUBSET (1..n), s # {}
  PROVE  Max(s) \in s /\ \A i \in s : i <= Max(s)
<1> DEFINE T == {k \in Nat : \A r \in SUBSET (1..k) : r # {} => \E x \in r : \A i \in r : i <= x}
<1>1. 0 \in T
  <2>1. \A r \in SUBSET (1..0) : r = {}
    OBVIOUS
  <2> QED  BY <2>1
<1>2. ASSUME NEW k \in Nat, k \in T PROVE k + 1 \in T
  <2> SUFFICES ASSUME NEW r \in SUBSET (1..(k + 1)), r # {} PROVE \E x \in r : \A i \in r : i <= x
    OBVIOUS
  <2>1. CASE k + 1 \in r
    BY <2>1
  <2>2. CASE k + 1 \notin r
    <3>1. r \in SUBSET (1..k)
      BY <2>2
    <3> QED  BY <1>2, <3>1
  <2> QED  BY <2>1, <2>2
<1> HIDE DEF T
<1>3. n \in T
  BY <1>1, <1>2, InductionOnSet
<1>4. \E x \in s : \A i \in s : i <= x
  BY <1>3 DEF T
<1>5. \E x \in s : \A i \in s : x >= i
  BY <1>4
<1> QED  BY <1>5 DEF Max

LEMMA LastIndex ==
  ASSUME NEW n \in Nat, NEW s \in SUBSET (1..(n + 1)), n + 1 \in s
  PROVE  Max(s) = n + 1
<1> DEFINE k == n + 1
<1>1. k \in Nat /\ s \in SUBSET (1..k) /\ s # {}
  OBVIOUS
<1>2. k \in s /\ \A i \in s : i <= k
  OBVIOUS
<1> HIDE DEF k
<1>3. Max(s) \in s /\ \A i \in s : i <= Max(s)
  BY <1>1, MaxIs
<1>4. Max(s) \in Nat
  <2>1. Max(s) \in 1..k
    BY <1>1, <1>3
  <2> QED  BY <2>1
<1>5. Max(s) = k
  BY <1>1, <1>2, <1>3, <1>4
<1> QED  BY <1>5 DEF k

\* f goes through the indices.
FoldsOver(f, n, m, step) ==
  f = [s \in SUBSET (1..n) |-> IF s = {} THEN m ELSE step[<<f[s \ {Max(s)}], Max(s)>>]]

\* There is such a function, and all it gets to is Good.
LEMMA FoldExists ==
  ASSUME NEW n \in Nat, NEW Good, NEW m \in Good, NEW step \in [Good \X (1..n) -> Good]
  PROVE  \E f \in [SUBSET (1..n) -> Good] : FoldsOver(f, n, m, step)
<1> DEFINE Rec(k, g) == [s \in SUBSET (1..k) |-> IF s = {} THEN m ELSE step[<<g[s \ {Max(s)}], Max(s)>>]]
           Is(k) == \E g \in [SUBSET (1..k) -> Good] : g = Rec(k, g)
           T == {k \in Nat : k <= n => Is(k)}
<1>1. 0 \in T
  <2> DEFINE g == [s \in SUBSET (1..0) |-> m]
  <2>1. g = Rec(0, g) /\ g \in [SUBSET (1..0) -> Good]
    OBVIOUS
  <2>2. Is(0)
    BY <2>1
  <2> HIDE DEF Is
  <2> QED  BY <2>2
<1>2. ASSUME NEW k \in Nat, k \in T PROVE k + 1 \in T
  <2> SUFFICES ASSUME k + 1 <= n PROVE Is(k + 1)
    <3> HIDE DEF Is
    <3> QED  OBVIOUS
  <2>0. Is(k)
    <3> HIDE DEF Is
    <3> QED  BY <1>2
  <2>1. PICK f \in [SUBSET (1..k) -> Good] : f = Rec(k, f)
    BY <2>0
  <2> DEFINE g == [s \in SUBSET (1..(k + 1)) |-> IF k + 1 \in s THEN step[<<f[s \ {k + 1}], k + 1>>] ELSE f[s]]
  <2>2. ASSUME NEW s \in SUBSET (1..(k + 1))
        PROVE  g[s] = (IF s = {} THEN m ELSE step[<<g[s \ {Max(s)}], Max(s)>>]) /\ g[s] \in Good
    <3>1. CASE k + 1 \in s
      <4>1. Max(s) = k + 1
        BY <3>1, LastIndex
      <4>2. s \ {k + 1} \in SUBSET (1..(k + 1)) /\ k + 1 \notin s \ {k + 1}
        OBVIOUS
      <4>3. g[s \ {k + 1}] = f[s \ {k + 1}]
        BY <4>2
      <4>4. g[s] = step[<<f[s \ {k + 1}], k + 1>>]
        BY <3>1
      <4>5. s \ {k + 1} \in SUBSET (1..k) /\ k + 1 \in 1..n
        <5>1. \A i \in s \ {k + 1} : i \in 1..k
          OBVIOUS
        <5> QED  BY <5>1
      <4>6. f[s \ {k + 1}] \in Good
        BY <4>5
      <4>7. <<f[s \ {k + 1}], k + 1>> \in Good \X (1..n)
        BY <4>5, <4>6
      <4>8. step[<<f[s \ {k + 1}], k + 1>>] \in Good
        BY <4>7
      <4> HIDE DEF g
      <4> QED  BY <3>1, <4>1, <4>3, <4>4, <4>8
    <3>2. CASE k + 1 \notin s /\ s # {}
      <4>0. ASSUME NEW i \in s PROVE i \in 1..k
        BY <3>2
      <4>1. s \in SUBSET (1..k) /\ s \ {Max(s)} \in SUBSET (1..k)
        BY <4>0
      <4>2. f[s] = step[<<f[s \ {Max(s)}], Max(s)>>] /\ f[s] \in Good
        BY <2>1, <3>2, <4>1
      <4>3. k + 1 \notin s \ {Max(s)} /\ s \ {Max(s)} \in SUBSET (1..(k + 1))
        BY <3>2
      <4>4. g[s] = f[s] /\ g[s \ {Max(s)}] = f[s \ {Max(s)}]
        BY <3>2, <4>3
      <4> HIDE DEF g
      <4> QED  BY <3>2, <4>2, <4>4
    <3>3. CASE s = {}
      <4>1. {} \in SUBSET (1..k) /\ k + 1 \notin {}
        OBVIOUS
      <4>2. f[{}] = m
        BY <2>1, <4>1
      <4>3. g[{}] = m
        BY <4>1, <4>2
      <4> HIDE DEF g
      <4> QED  BY <3>3, <4>3
    <3> QED  BY <3>1, <3>2, <3>3
  <2>3. g = Rec(k + 1, g) /\ g \in [SUBSET (1..(k + 1)) -> Good]
    <3>1. g = [s \in SUBSET (1..(k + 1)) |-> g[s]]
      OBVIOUS
    <3> HIDE DEF g
    <3> QED  BY <2>2, <3>1
  <2> HIDE DEF g, Rec
  <2> QED  BY <2>3
<1>3. n \in T
  <2> HIDE DEF T
  <2> QED  BY <1>1, <1>2, InductionOnSet
<1>4. Is(n)
  <2> HIDE DEF Is
  <2> QED  BY <1>3
<1> QED  BY <1>4 DEF FoldsOver

\* What every step keeps, all steps keep.
LEMMA FoldStays ==
  ASSUME NEW n \in Nat, NEW Good, NEW h, h[{}] \in Good,
         \A k \in 1..n : h[1..k \ {Max(1..k)}] \in Good => h[1..k] \in Good
  PROVE  h[1..n] \in Good
<1> DEFINE T == {k \in Nat : k <= n => h[1..k] \in Good}
<1>1. 0 \in T
  <2>1. 1..0 = {}
    OBVIOUS
  <2> QED  BY <2>1
<1>2. ASSUME NEW k \in Nat, k \in T PROVE k + 1 \in T
  <2> SUFFICES ASSUME k + 1 <= n PROVE h[1..(k + 1)] \in Good
    OBVIOUS
  <2>1. h[1..k] \in Good
    BY <1>2
  <2>2. Max(1..(k + 1)) = k + 1
    <3>1. 1..(k + 1) \in SUBSET (1..(k + 1)) /\ k + 1 \in 1..(k + 1)
      OBVIOUS
    <3> QED  BY <3>1, LastIndex
  <2>3. (1..(k + 1)) \ {k + 1} = 1..k
    <3>1. \A i : i \in (1..(k + 1)) \ {k + 1} <=> i \in 1..k
      OBVIOUS
    <3> QED  BY <3>1
  <2>4. k + 1 \in 1..n
    OBVIOUS
  <2> QED  BY <2>1, <2>2, <2>3, <2>4
<1> HIDE DEF T
<1>3. n \in T
  BY <1>1, <1>2, InductionOnSet
<1> QED  BY <1>3 DEF T

-------------------------------------------------------------------------------
(***************************************************************************)
(* FlattenSeq, which is defined by recursion on the number of sequences.   *)
(***************************************************************************)

\* The recursion has a function that satisfies it.
LEMMA FlatExists ==
  ASSUME NEW S, NEW q \in Seq(Seq(S))
  PROVE  \E f \in [1..Len(q) -> Seq(S)] :
           \A i \in 1..Len(q) : f[i] = IF i = 1 THEN q[i] ELSE f[i - 1] \o q[i]
<1> DEFINE Good(m) == \E f \in [1..m -> Seq(S)] :
                        \A i \in 1..m : f[i] = IF i = 1 THEN q[i] ELSE f[i - 1] \o q[i]
           T == {m \in Nat : m <= Len(q) => Good(m)}
<1>1. 0 \in T
  <2>1. [i \in 1..0 |-> <<>>] \in [1..0 -> Seq(S)]
    OBVIOUS
  <2>2. \A i \in 1..0 : FALSE
    OBVIOUS
  <2>3. Good(0)
    BY <2>1, <2>2, Zenon
  <2> HIDE DEF Good
  <2> QED
    BY <2>3
<1>2. ASSUME NEW m \in Nat, m \in T PROVE m + 1 \in T
  <2> SUFFICES ASSUME m + 1 <= Len(q) PROVE Good(m + 1)
    <3> HIDE DEF Good
    <3> QED
      OBVIOUS
  <2>0. Len(q) \in Nat /\ m <= Len(q) /\ q[m + 1] \in Seq(S)
    OBVIOUS
  <2>1. PICK f \in [1..m -> Seq(S)] :
               \A i \in 1..m : f[i] = IF i = 1 THEN q[i] ELSE f[i - 1] \o q[i]
    BY <1>2, <2>0
  <2> DEFINE next == IF m = 0 THEN q[m + 1] ELSE f[m] \o q[m + 1]
             g == [i \in 1..(m + 1) |-> IF i = m + 1 THEN next ELSE f[i]]
  <2>2. next \in Seq(S)
    <3>1. CASE m = 0
      BY <2>0, <3>1
    <3>2. CASE m > 0
      <4>1. f[m] \in Seq(S)
        BY <3>2
      <4> QED
        BY <2>0, <4>1, <3>2
    <3> QED
      BY <3>1, <3>2
  <2>3. \A i \in 1..m : g[i] = f[i]
    <3> HIDE DEF next
    <3>1. \A i \in 1..m : i \in 1..(m + 1) /\ i # m + 1
      OBVIOUS
    <3> QED
      BY <3>1
  <2>4. g[m + 1] = next
    <3> HIDE DEF next
    <3> QED
      OBVIOUS
  <2>5. next = IF m + 1 = 1 THEN q[m + 1] ELSE g[m] \o q[m + 1]
    <3>1. m > 0 => g[m] = f[m]
      BY <2>3
    <3> HIDE DEF g
    <3> QED
      BY <3>1
  <2>6. g \in [1..(m + 1) -> Seq(S)]
    <3> HIDE DEF next
    <3> QED
      BY <2>2
  <2> HIDE DEF next, g
  <2>7. ASSUME NEW i \in 1..(m + 1)
        PROVE  g[i] = IF i = 1 THEN q[i] ELSE g[i - 1] \o q[i]
    <3>1. CASE i = m + 1
      <4>1. m + 1 - 1 = m
        OBVIOUS
      <4> QED
        BY <2>4, <2>5, <3>1, <4>1
    <3>2. CASE i \in 1..m
      <4>1. g[i] = f[i] /\ (i # 1 => g[i - 1] = f[i - 1])
        BY <2>3, <3>2
      <4> QED
        BY <2>1, <3>2, <4>1
    <3> QED
      BY <3>1, <3>2
  <2> QED
    BY <2>6, <2>7
<1>3. Good(Len(q))
  <2> HIDE DEF Good
  <2>1. Nat \subseteq T
    <3> HIDE DEF T
    <3> QED
      BY <1>1, <1>2, InductionOnSet
  <2>2. Len(q) \in Nat /\ Len(q) <= Len(q)
    OBVIOUS
  <2> QED
    BY <2>1, <2>2
<1> QED
  BY <1>3, Zenon

\* So FlattenSeq is the last value of any such function.
LEMMA FlatIs ==
  ASSUME NEW S, NEW q \in Seq(Seq(S)), q # <<>>,
         NEW f \in [1..Len(q) -> Seq(S)],
         \A i \in 1..Len(q) : f[i] = IF i = 1 THEN q[i] ELSE f[i - 1] \o q[i]
  PROVE  FlattenSeq(q) = f[Len(q)]
<1> DEFINE n == Len(q)
           Rec(g) == [i \in 1..n |-> IF i = 1 THEN q[i] ELSE g[i - 1] \o q[i]]
           h == CHOOSE g : g = Rec(g)
<1>0. n \in Nat /\ n > 0
  OBVIOUS
<1>1. FlattenSeq(q) = h[n]
  BY DEF FlattenSeq
<1>2. f = Rec(f)
  OBVIOUS
<1>3. h = Rec(h)
  <2> HIDE DEF Rec
  <2> QED
    BY <1>2
<1>4. \A i \in 1..n : h[i] = IF i = 1 THEN q[i] ELSE h[i - 1] \o q[i]
  <2> HIDE DEF h
  <2> QED
    BY <1>3
<1> HIDE DEF h, n
<1> DEFINE T == {m \in Nat : m + 1 <= n => h[m + 1] = f[m + 1]}
<1>5. 0 \in T
  <2>1. 0 + 1 = 1 /\ 1 \in 1..n
    BY <1>0 DEF n
  <2>2. h[1] = f[1]
    BY <1>4, <2>1 DEF n
  <2> QED
    BY <2>1, <2>2
<1>6. ASSUME NEW m \in Nat, m \in T PROVE m + 1 \in T
  <2> SUFFICES ASSUME m + 1 + 1 <= n PROVE h[m + 1 + 1] = f[m + 1 + 1]
    OBVIOUS
  <2> DEFINE i == m + 1 + 1
  <2>1. i \in 1..n /\ i # 1 /\ i - 1 = m + 1 /\ m + 1 <= n
    BY <1>0
  <2>2. h[m + 1] = f[m + 1]
    BY <1>6, <2>1
  <2> HIDE DEF i
  <2>3. h[i] = h[m + 1] \o q[i] /\ f[i] = f[m + 1] \o q[i]
    BY <1>4, <2>1 DEF n
  <2> QED
    BY <2>2, <2>3 DEF i
<1>7. n - 1 \in T
  <2> HIDE DEF T
  <2>1. Nat \subseteq T
    BY <1>5, <1>6, InductionOnSet
  <2> QED
    BY <1>0, <2>1
<1> QED
  BY <1>0, <1>1, <1>7 DEF n

\* FlattenSeq of one more sequence puts it behind.
LEMMA FlatAppend ==
  ASSUME NEW S, NEW q \in Seq(Seq(S)), NEW e \in Seq(S)
  PROVE  /\ FlattenSeq(q) \in Seq(S)
         /\ FlattenSeq(Append(q, e)) = FlattenSeq(q) \o e
<1> DEFINE r == Append(q, e)
           n == Len(q)
           k == Len(r)
<1>1. /\ r \in Seq(Seq(S)) /\ k = n + 1 /\ n \in Nat /\ k \in Nat
      /\ \A i \in 1..n : r[i] = q[i]
      /\ r[k] = e
  OBVIOUS
<1>2. r # <<>>
  OBVIOUS
<1> HIDE DEF r
<1>3. PICK f \in [1..k -> Seq(S)] :
        \A i \in 1..k : f[i] = IF i = 1 THEN r[i] ELSE f[i - 1] \o r[i]
  <2>1. r \in Seq(Seq(S))
    BY <1>1
  <2> QED
    BY <2>1, FlatExists, Zenon
<1>6. FlattenSeq(r) = f[k]
  BY <1>1, <1>2, <1>3, FlatIs
<1> HIDE DEF k
<1>4. CASE n = 0
  <2>1. q = <<>> /\ FlattenSeq(q) = <<>>
    BY <1>4 DEF FlattenSeq
  <2>2. f[k] = e
    BY <1>1, <1>3, <1>4
  <2>3. <<>> \o e = e
    OBVIOUS
  <2>4. q \in Seq(S)
    BY <2>1
  <2> QED
    BY <1>6, <2>1, <2>2, <2>3, <2>4 DEF r
<1>5. CASE n > 0
  <2> DEFINE g == [i \in 1..n |-> f[i]]
  <2>1. g \in [1..n -> Seq(S)]
    BY <1>1
  <2>2. ASSUME NEW i \in 1..n
        PROVE  g[i] = IF i = 1 THEN q[i] ELSE g[i - 1] \o q[i]
    <3>1. i \in 1..k /\ r[i] = q[i] /\ g[i] = f[i] /\ (i # 1 => g[i - 1] = f[i - 1])
      BY <1>1
    <3> HIDE DEF g
    <3> QED
      BY <1>3, <3>1
  <2>3. g[n] = f[n]
    BY <1>1, <1>5
  <2>g. g \in [1..Len(q) -> Seq(S)] /\ q # <<>>
    BY <1>1, <1>5, <2>1
  <2> HIDE DEF g
  <2>4. FlattenSeq(q) = g[n]
    BY <2>g, <2>2, FlatIs
  <2>5. f[k] = f[n] \o e
    <3>1. k \in 1..k /\ k # 1 /\ k - 1 = n
      BY <1>1, <1>5
    <3> HIDE DEF n
    <3> QED
      BY <1>1, <1>3, <3>1
  <2>6. g[n] \in Seq(S)
    <3>1. n \in 1..n
      BY <1>1, <1>5
    <3> QED
      BY <2>1, <3>1
  <2> QED
    BY <1>6, <2>3, <2>4, <2>5, <2>6 DEF r
<1> QED
  BY <1>1, <1>4, <1>5

\* The first k + 1 elements are the first k and one more.
LEMMA OneMore ==
  ASSUME NEW S, NEW q \in Seq(S), NEW k \in Nat, k < Len(q)
  PROVE  /\ SubSeq(q, 1, k) \in Seq(S) /\ q[k + 1] \in S
         /\ SubSeq(q, 1, k + 1) = Append(SubSeq(q, 1, k), q[k + 1])
<1> DEFINE r == SubSeq(q, 1, k)
           t == SubSeq(q, 1, k + 1)
<1>1. /\ r \in Seq(S) /\ Len(r) = k /\ \A i \in 1..k : r[i] = q[i]
      /\ q[k + 1] \in S
  OBVIOUS
<1>2. t \in Seq(S) /\ Len(t) = k + 1 /\ \A i \in 1..(k + 1) : t[i] = q[i]
  OBVIOUS
<1> HIDE DEF r, t
<1> DEFINE u == Append(r, q[k + 1])
<1>3. /\ u \in Seq(S) /\ Len(u) = k + 1 /\ u[k + 1] = q[k + 1]
      /\ \A i \in 1..k : u[i] = r[i]
  BY <1>1
<1> HIDE DEF u
<1>4. \A i \in 1..Len(t) : t[i] = u[i]
  BY <1>1, <1>2, <1>3
<1>5. t = u
  BY <1>2, <1>3, <1>4, SeqEqual
<1> QED
  BY <1>1, <1>5 DEF r, t, u

(***************************************************************************)
(* Where a path leads.                                                     *)
(***************************************************************************)

\* A recursion along a sequence has a function that satisfies it.
Along(f, z, H, p) == f[0] = z /\ \A i \in 1..Len(p) : f[i] = H[<<f[i - 1], p[i]>>]

LEMMA SequenceRecursion ==
  ASSUME NEW S, NEW p \in Seq(S), NEW V, NEW z \in V, NEW H \in [V \X S -> V]
  PROVE  \E f \in [0..Len(p) -> V] : Along(f, z, H, p)
<1> DEFINE n == Len(p)
           Good(m) == \E f \in [0..m -> V] :
                         f[0] = z /\ \A i \in 1..m : f[i] = H[<<f[i - 1], p[i]>>]
           T == {m \in Nat : m <= n => Good(m)}
<1>0. n \in Nat /\ \A i \in 1..n : p[i] \in S
  OBVIOUS
<1>1. 0 \in T
  <2> DEFINE f == [k \in 0..0 |-> z]
  <2>1. f \in [0..0 -> V] /\ f[0] = z
    OBVIOUS
  <2>2. \A k \in 1..0 : FALSE
    OBVIOUS
  <2> HIDE DEF f
  <2>3. Good(0)
    BY <2>1, <2>2, Zenon
  <2> HIDE DEF Good
  <2> QED
    BY <2>3
<1>2. ASSUME NEW m \in Nat, m \in T PROVE m + 1 \in T
  <2> SUFFICES ASSUME m + 1 <= n PROVE Good(m + 1)
    <3> HIDE DEF Good
    <3> QED OBVIOUS
  <2>1. PICK f \in [0..m -> V] : f[0] = z /\ \A i \in 1..m : f[i] = H[<<f[i - 1], p[i]>>]
    BY <1>0, <1>2
  <2> DEFINE next == H[<<f[m], p[m + 1]>>]
             g == [i \in 0..(m + 1) |-> IF i = m + 1 THEN next ELSE f[i]]
  <2>2. next \in V
    <3>1. f[m] \in V /\ p[m + 1] \in S
      BY <1>0
    <3> QED BY <3>1
  <2> HIDE DEF next
  <2>3. /\ g \in [0..(m + 1) -> V] /\ g[m + 1] = next
        /\ \A i \in 0..m : g[i] = f[i]
    BY <2>2
  <2> HIDE DEF g
  <2>4. ASSUME NEW i \in 1..(m + 1) PROVE g[i] = H[<<g[i - 1], p[i]>>]
    <3>1. CASE i = m + 1
      <4>1. i - 1 = m /\ m \in 0..m
        BY <3>1
      <4> QED BY <2>3, <3>1, <4>1 DEF next
    <3>2. CASE i \in 1..m
      <4>1. i \in 0..m /\ i - 1 \in 0..m
        BY <3>2
      <4> QED BY <2>1, <2>3, <3>2, <4>1
    <3> QED BY <3>1, <3>2
  <2>5. g[0] = z
    BY <2>1, <2>3
  <2> QED BY <2>3, <2>4, <2>5, Zenon
<1> HIDE DEF Good
<1>3. Nat \subseteq T
  <2> HIDE DEF T
  <2> QED BY <1>1, <1>2, InductionOnSet
<1>4. Good(n)
  BY <1>0, <1>3
<1> QED BY <1>4 DEF Good, Along

\* The links of a tree point to paths.
LinksLead(t) == \A q \in DOMAIN t : IsLink(t, q) => t[q].to \in Path

LEMMA OnwardIsPath ==
  ASSUME NEW t, LinksLead(t), NEW d \in Path, NEW n \in Name
  PROVE  Onward(t, d, n) \in Path
BY DEF Onward, LinksLead, Path, IsLink, Exists

\* Reached satisfies its recursion.
LEMMA ReachedIs ==
  ASSUME NEW t, LinksLead(t), NEW p \in Path
  PROVE  /\ Reached(t, p) \in [0..Len(p) -> Path]
         /\ Reached(t, p)[0] = <<>>
         /\ \A i \in 1..Len(p) : Reached(t, p)[i] = Onward(t, Reached(t, p)[i - 1], p[i])
<1> DEFINE n == Len(p)
           H == [x \in Path \X Name |-> Onward(t, x[1], x[2])]
           Rec(f) == [i \in 0..n |-> IF i = 0 THEN <<>> ELSE Onward(t, f[i - 1], p[i])]
           h == CHOOSE f : f = Rec(f)
<1>0. p \in Seq(Name) /\ n \in Nat /\ \A i \in 1..n : p[i] \in Name
  BY DEF Path
<1>1. H \in [Path \X Name -> Path] /\ <<>> \in Path
  BY OnwardIsPath DEF Path
<1>2. \A d \in Path, m \in Name : H[<<d, m>>] = Onward(t, d, m)
  <2> SUFFICES ASSUME NEW d \in Path, NEW m \in Name PROVE H[<<d, m>>] = Onward(t, d, m)
    OBVIOUS
  <2>1. <<d, m>> \in Path \X Name /\ <<d, m>>[1] = d /\ <<d, m>>[2] = m
    OBVIOUS
  <2> QED BY <2>1
<1> HIDE DEF H
<1>3. PICK f \in [0..n -> Path] : Along(f, <<>>, H, p)
  BY <1>0, <1>1, SequenceRecursion
<1>4. f[0] = <<>> /\ \A i \in 1..n : f[i] = Onward(t, f[i - 1], p[i])
  <2> SUFFICES ASSUME NEW i \in 1..n PROVE f[i] = Onward(t, f[i - 1], p[i])
    BY <1>3 DEF Along
  <2>1. f[i - 1] \in Path /\ p[i] \in Name
    BY <1>0
  <2> QED BY <1>2, <1>3, <2>1 DEF Along
<1>5. f = Rec(f)
  <2>1. \A i \in 0..n : i = 0 \/ i \in 1..n
    BY <1>0
  <2> QED BY <1>4, <2>1
<1>6. h = Rec(h)
  <2> HIDE DEF Rec
  <2> QED BY <1>5
<1>7. Reached(t, p) = h
  BY DEF Reached
<1> HIDE DEF h
<1>8. /\ h[0] = <<>> /\ DOMAIN h = 0..n
      /\ \A i \in 1..n : h[i] = Onward(t, h[i - 1], p[i])
      /\ h = [i \in 0..n |-> h[i]]
  BY <1>0, <1>6
<1>9. \A i \in 0..n : h[i] \in Path
  <2> DEFINE T == {m \in Nat : m <= n => h[m] \in Path}
  <2>1. 0 \in T
    BY <1>1, <1>8
  <2>2. ASSUME NEW m \in Nat, m \in T PROVE m + 1 \in T
    <3> SUFFICES ASSUME m + 1 <= n PROVE h[m + 1] \in Path
      OBVIOUS
    <3>1. m + 1 \in 1..n /\ (m + 1) - 1 = m /\ h[m] \in Path /\ p[m + 1] \in Name
      BY <1>0, <2>2
    <3>2. h[m + 1] = Onward(t, h[m], p[m + 1])
      BY <1>8, <3>1
    <3> QED BY <3>1, <3>2, OnwardIsPath
  <2>3. Nat \subseteq T
    <3> HIDE DEF T
    <3> QED BY <2>1, <2>2, InductionOnSet
  <2> QED BY <1>0, <2>3
<1> QED BY <1>0, <1>7, <1>8, <1>9

\* What there is of a tree in every state of every program: each entry lies in a
\* directory, and the links point to paths.
Grown(t) == /\ t = [p \in DOMAIN t |-> t[p]]
            /\ IsDir(t, <<>>)
            /\ LinksLead(t)
            /\ \A p \in DOMAIN t : p \in Path /\ (p # <<>> => IsDir(t, Front(p)))

LEMMA TreeIsGrown ==
  ASSUME NEW t, IsTree(t)
  PROVE  Grown(t)
BY DEF IsTree, Grown, LinksLead

\* Where the directories of a path lead, and its last name from there on.
LEMMA LastStep ==
  ASSUME NEW t, LinksLead(t), NEW p \in Path, p # <<>>
  PROVE  /\ Last(p) \in Name /\ Reached(t, p)[Len(p) - 1] \in Path
         /\ NoFollow(t, p) = Append(Reached(t, p)[Len(p) - 1], Last(p))
         /\ Follow(t, Front(p)) = Reached(t, p)[Len(p) - 1]
         /\ Follow(t, p) = Onward(t, Reached(t, p)[Len(p) - 1], Last(p))
<1>0. p \in Seq(Name) /\ Len(p) \in Nat
  BY DEF Path
<1> DEFINE q == Front(p)
           n == Len(q)
<1>1. /\ q \in Path /\ Last(p) \in Name /\ n = Len(p) - 1 /\ Len(p) >= 1 /\ n \in Nat
      /\ \A i \in 1..n : q[i] = p[i]
      /\ Last(p) = p[Len(p)]
  BY <1>0, FrontAndLast DEF Path, Last
<1> HIDE DEF q, n
<1> DEFINE r == Reached(t, p)
           s == Reached(t, q)
<1>2. /\ r \in [0..Len(p) -> Path] /\ r[0] = <<>>
      /\ \A i \in 1..Len(p) : r[i] = Onward(t, r[i - 1], p[i])
  BY ReachedIs
<1>3. /\ s \in [0..n -> Path] /\ s[0] = <<>>
      /\ \A i \in 1..n : s[i] = Onward(t, s[i - 1], q[i])
  BY <1>1, ReachedIs DEF n
<1>4. Follow(t, p) = r[Len(p)] /\ Follow(t, q) = s[n]
  BY DEF Follow, n
<1> HIDE DEF r, s
<1> DEFINE T == {m \in Nat : m <= n => r[m] = s[m]}
<1>5. 0 \in T
  BY <1>2, <1>3
<1>6. ASSUME NEW m \in Nat, m \in T PROVE m + 1 \in T
  <2> SUFFICES ASSUME m + 1 <= n PROVE r[m + 1] = s[m + 1]
    OBVIOUS
  <2>1. m + 1 \in 1..n /\ m + 1 \in 1..Len(p) /\ (m + 1) - 1 = m /\ r[m] = s[m]
    BY <1>1, <1>6
  <2>2. r[m + 1] = Onward(t, r[m], p[m + 1]) /\ s[m + 1] = Onward(t, s[m], q[m + 1])
    BY <1>2, <1>3, <2>1
  <2> QED BY <1>1, <2>1, <2>2
<1>7. Nat \subseteq T
  <2> HIDE DEF T
  <2> QED BY <1>5, <1>6, InductionOnSet
<1>8. r[n] = s[n]
  BY <1>1, <1>7
<1>9. r[Len(p)] = Onward(t, r[n], Last(p)) /\ r[n] \in Path
  <2>1. Len(p) \in 1..Len(p) /\ Len(p) - 1 = n /\ n \in 0..Len(p)
    BY <1>0, <1>1
  <2> QED BY <1>1, <1>2, <2>1
<1>10. NoFollow(t, p) = Append(r[n], Last(p))
  BY <1>4, <1>8 DEF NoFollow, q
<1> QED BY <1>1, <1>4, <1>8, <1>9, <1>10 DEF q, r

\* The path to the last place, and the link that may be there.
LEMMA FollowIs ==
  ASSUME NEW t, LinksLead(t), NEW p \in Path
  PROVE  /\ Follow(t, p) \in Path /\ NoFollow(t, p) \in Path
         /\ p = <<>> => Follow(t, p) = <<>> /\ NoFollow(t, p) = <<>>
         /\ p # <<>> => /\ NoFollow(t, p) # <<>>
                        /\ Front(NoFollow(t, p)) = Follow(t, Front(p))
                        /\ Follow(t, p) = IF IsLink(t, NoFollow(t, p)) THEN t[NoFollow(t, p)].to
                                                                     ELSE NoFollow(t, p)
<1>0. p \in Seq(Name) /\ Len(p) \in Nat
  BY DEF Path
<1>1. Follow(t, p) \in Path /\ (p = <<>> => Follow(t, p) = <<>>)
  BY <1>0, ReachedIs DEF Follow
<1>2. CASE p = <<>>
  BY <1>1, <1>2 DEF NoFollow
<1>3. CASE p # <<>>
  <2> DEFINE d == Reached(t, p)[Len(p) - 1]
  <2>1. /\ Last(p) \in Name /\ d \in Path /\ NoFollow(t, p) = Append(d, Last(p))
        /\ Follow(t, Front(p)) = d /\ Follow(t, p) = Onward(t, d, Last(p))
    BY <1>3, LastStep
  <2> HIDE DEF d
  <2>2. /\ Append(d, Last(p)) \in Path /\ Append(d, Last(p)) # <<>>
        /\ Front(Append(d, Last(p))) = d
    BY <2>1, FrontOfAppend DEF Path
  <2> QED BY <1>1, <1>3, <2>1, <2>2 DEF Onward
<1> QED BY <1>2, <1>3

\* Without links a path leads where it says.
LEMMA FollowStraight ==
  ASSUME NEW t, \A q \in DOMAIN t : ~IsLink(t, q), NEW p \in Path
  PROVE  Follow(t, p) = p /\ NoFollow(t, p) = p
<1>0. /\ LinksLead(t) /\ \A q : ~IsLink(t, q)
      /\ p \in Seq(Name) /\ Len(p) \in Nat
  BY DEF LinksLead, IsLink, Exists, Path
<1> DEFINE n == Len(p)
           r == Reached(t, p)
<1>1. /\ r[0] = <<>> /\ \A i \in 1..n : r[i] = Append(r[i - 1], p[i])
  BY <1>0, ReachedIs DEF Onward
<1>2. Follow(t, p) = r[n]
  BY DEF Follow
<1> HIDE DEF r
<1> DEFINE T == {m \in Nat : m <= n => r[m] = SubSeq(p, 1, m)}
<1>3. 0 \in T
  <2>1. SubSeq(p, 1, 0) = <<>>
    BY <1>0
  <2> QED BY <1>1, <2>1
<1>4. ASSUME NEW m \in Nat, m \in T PROVE m + 1 \in T
  <2> SUFFICES ASSUME m + 1 <= n PROVE r[m + 1] = SubSeq(p, 1, m + 1)
    OBVIOUS
  <2>1. m + 1 \in 1..n /\ (m + 1) - 1 = m /\ m < Len(p) /\ r[m] = SubSeq(p, 1, m)
    BY <1>0, <1>4
  <2>2. SubSeq(p, 1, m + 1) = Append(SubSeq(p, 1, m), p[m + 1])
    BY <1>0, <2>1, OneMore
  <2> QED BY <1>1, <2>1, <2>2
<1>5. Nat \subseteq T
  <2> HIDE DEF T
  <2> QED BY <1>3, <1>4, InductionOnSet
<1>6. r[n] = SubSeq(p, 1, n)
  BY <1>0, <1>5
<1>7. SubSeq(p, 1, n) = p
  BY <1>0, SubSeqFull
<1>8. NoFollow(t, p) = p
  BY <1>0, <1>2, <1>6, <1>7, FollowIs
<1> QED BY <1>2, <1>6, <1>7, <1>8

\* A path that leads through no link leads where it says, and its directories
\* are what they seem.
LEMMA StraightPath ==
  ASSUME NEW t, LinksLead(t), NEW p \in Path, ~ThroughLink(t, p)
  PROVE  /\ NoFollow(t, p) = p
         /\ ~IsLink(t, p) => Follow(t, p) = p
         /\ Obstructed(t, p) <=> ThroughFile(t, p)
<1>0. p \in Seq(Name) /\ Len(p) \in Nat
  BY DEF Path
<1> DEFINE n == Len(p)
           r == Reached(t, p)
<1>1. r[0] = <<>> /\ \A i \in 1..n : r[i] = Onward(t, r[i - 1], p[i])
  BY ReachedIs
<1>2. \A i \in 1..(n - 1) : ~IsLink(t, SubSeq(p, 1, i))
  BY DEF ThroughLink
<1> HIDE DEF r
<1> DEFINE T == {m \in Nat : m < n => r[m] = SubSeq(p, 1, m)}
<1>3. 0 \in T
  <2>1. SubSeq(p, 1, 0) = <<>>
    BY <1>0
  <2> QED BY <1>1, <2>1
<1>4. ASSUME NEW m \in Nat, m \in T PROVE m + 1 \in T
  <2> SUFFICES ASSUME m + 1 < n PROVE r[m + 1] = SubSeq(p, 1, m + 1)
    OBVIOUS
  <2>1. /\ m + 1 \in 1..n /\ m + 1 \in 1..(n - 1) /\ (m + 1) - 1 = m /\ m < Len(p)
        /\ r[m] = SubSeq(p, 1, m)
    BY <1>0, <1>4
  <2>2. SubSeq(p, 1, m + 1) = Append(SubSeq(p, 1, m), p[m + 1])
    BY <1>0, <2>1, OneMore
  <2>3. ~IsLink(t, SubSeq(p, 1, m + 1)) /\ r[m + 1] = Onward(t, r[m], p[m + 1])
    BY <1>1, <1>2, <2>1
  <2> QED BY <2>1, <2>2, <2>3 DEF Onward
<1>5. Nat \subseteq T
  <2> HIDE DEF T
  <2> QED BY <1>3, <1>4, InductionOnSet
<1>6. \A i \in 1..(n - 1) : r[i] = SubSeq(p, 1, i)
  BY <1>0, <1>5
<1>7. Obstructed(t, p) <=> ThroughFile(t, p)
  BY <1>6 DEF Obstructed, ThroughFile, r
<1>8. NoFollow(t, p) = p
  <2>1. CASE p = <<>>
    BY <2>1 DEF NoFollow
  <2>2. CASE p # <<>>
    <3>1. n - 1 \in Nat /\ n - 1 < n /\ (n - 1) + 1 = n
      BY <1>0, <2>2
    <3>2. r[n - 1] = SubSeq(p, 1, n - 1)
      BY <1>5, <3>1
    <3>3. p = Append(SubSeq(p, 1, n - 1), p[n])
      <4>1. SubSeq(p, 1, (n - 1) + 1) = Append(SubSeq(p, 1, n - 1), p[(n - 1) + 1])
        BY <1>0, <3>1, OneMore
      <4>2. SubSeq(p, 1, n) = p
        BY <1>0, SubSeqFull
      <4> QED BY <3>1, <4>1, <4>2
    <3>4. NoFollow(t, p) = Append(r[n - 1], Last(p)) /\ Last(p) = p[n]
      BY <2>2, LastStep DEF r, Last
    <3> QED BY <3>2, <3>3, <3>4
  <2> QED BY <2>1, <2>2
<1>9. ~IsLink(t, p) => Follow(t, p) = p
  BY <1>8, FollowIs
<1> QED BY <1>7, <1>8, <1>9

\* A path that exists leads through no link.
LEMMA ExistsStraight ==
  ASSUME NEW t, IsTree(t), NEW p, Exists(t, p)
  PROVE  ~ThroughLink(t, p)
<1>1. p \in DOMAIN t /\ Len(p) \in Nat
  BY DEF Exists, IsTree, Path
<1> SUFFICES ASSUME NEW i \in 1..(Len(p) - 1) PROVE ~IsLink(t, SubSeq(p, 1, i))
  BY DEF ThroughLink
<1>2. i \in 0..Len(p) /\ i < Len(p)
  BY <1>1
<1>3. IsDir(t, SubSeq(p, 1, i))
  BY <1>1, <1>2, PrefixesExist
<1> QED BY <1>3 DEF IsDir, IsLink

\* Behind the removal of what p names, p names nothing.
LEMMA FollowRemoved ==
  ASSUME NEW t, Grown(t), NEW p \in Path, CanUnlink(t, NoFollow(t, p)), NEW u,
         u = Without(t, NoFollow(t, p)), Grown(u)
  PROVE  ~Exists(u, Follow(u, p))
<1>0. /\ p \in Seq(Name) /\ Len(p) \in Nat /\ LinksLead(t) /\ LinksLead(u)
      /\ <<>> \in DOMAIN t
  BY DEF Path, Grown, IsDir, Exists
<1> DEFINE gone == NoFollow(t, p)
           n == Len(p)
           r == Reached(t, p)
           s == Reached(u, p)
<1>1. /\ \A q : IsLink(u, q) => IsLink(t, q) /\ u[q].to = t[q].to
      /\ \A q : IsLink(t, q) /\ q # gone => IsLink(u, q) /\ u[q].to = t[q].to
      /\ ~Exists(u, gone) /\ ~IsLink(u, gone)
  BY DEF Without, IsLink, Exists
<1>2. /\ r \in [0..n -> Path] /\ r[0] = <<>>
      /\ \A i \in 1..n : r[i] = Onward(t, r[i - 1], p[i])
      /\ s \in [0..n -> Path] /\ s[0] = <<>>
      /\ \A i \in 1..n : s[i] = Onward(u, s[i - 1], p[i])
  BY <1>0, ReachedIs
<1>3. Follow(t, p) = r[n] /\ Follow(u, p) = s[n]
  BY DEF Follow
<1>4. p # <<>>
  BY <1>0, FollowIs DEF CanUnlink, Grown, NoFollow
<1>5. Len(p) >= 1 /\ Last(p) = p[n] /\ Last(p) \in Name
  BY <1>0, <1>4, FrontAndLast DEF Last
<1> HIDE DEF r, s
<1>6. ASSUME NEW d \in Path, NEW m \in Name, ~Exists(u, d)
      PROVE  ~Exists(u, Onward(u, d, m))
  <2>1. Append(d, m) # <<>> /\ Front(Append(d, m)) = d
    BY FrontOfAppend DEF Path
  <2>2. ~Exists(u, Append(d, m))
    BY <1>6, <2>1 DEF Grown, IsDir, Exists
  <2> QED BY <2>2 DEF Onward, IsLink
<1>7. ASSUME NEW d \in Path, NEW m \in Name
      PROVE  Onward(u, d, m) = Onward(t, d, m) \/ ~Exists(u, Onward(u, d, m))
  <2>1. CASE Append(d, m) = gone
    BY <1>1, <2>1 DEF Onward
  <2>2. CASE Append(d, m) # gone
    BY <1>1, <2>2 DEF Onward
  <2> QED BY <2>1, <2>2
<1> DEFINE T == {m \in Nat : m <= n => s[m] = r[m] \/ ~Exists(u, s[m])}
<1>8. 0 \in T
  BY <1>2
<1>9. ASSUME NEW m \in Nat, m \in T PROVE m + 1 \in T
  <2> SUFFICES ASSUME m + 1 <= n PROVE s[m + 1] = r[m + 1] \/ ~Exists(u, s[m + 1])
    OBVIOUS
  <2>1. /\ m + 1 \in 1..n /\ (m + 1) - 1 = m /\ m \in 0..n /\ p[m + 1] \in Name
        /\ s[m] = r[m] \/ ~Exists(u, s[m])
    BY <1>0, <1>9
  <2>2. /\ r[m + 1] = Onward(t, r[m], p[m + 1]) /\ s[m + 1] = Onward(u, s[m], p[m + 1])
        /\ s[m] \in Path
    BY <1>2, <2>1
  <2> QED BY <1>6, <1>7, <2>1, <2>2
<1>10. Nat \subseteq T
  <2> HIDE DEF T
  <2> QED BY <1>8, <1>9, InductionOnSet
<1>11. n - 1 \in 0..n /\ n - 1 \in Nat /\ n \in 1..n
  BY <1>0, <1>5
<1>12. s[n - 1] = r[n - 1] \/ ~Exists(u, s[n - 1])
  BY <1>10, <1>11
<1>13. s[n] = Onward(u, s[n - 1], Last(p)) /\ s[n - 1] \in Path
  BY <1>2, <1>5, <1>11
<1>14. CASE ~Exists(u, s[n - 1])
  BY <1>3, <1>5, <1>6, <1>13, <1>14
<1>15. CASE s[n - 1] = r[n - 1]
  <2>1. gone = Append(r[n - 1], Last(p))
    BY <1>0, <1>4, LastStep DEF r
  <2>2. s[n] = gone
    BY <1>1, <1>13, <1>15, <2>1 DEF Onward
  <2> QED BY <1>1, <1>3, <2>2
<1> QED BY <1>12, <1>14, <1>15

\* Entries that come and go where they can leave such a tree.
LEMMA WithoutIsGrown ==
  ASSUME NEW t, NEW p, Grown(t), CanUnlink(t, p) \/ CanRmdir(t, p)
  PROVE  Grown(Without(t, p))
<1> DEFINE u == Without(t, p)
<1>1. DOMAIN u = DOMAIN t \ {p} /\ \A q \in DOMAIN u : u[q] = t[q]
  BY DEF Without
<1>2. p # <<>>
  BY DEF CanUnlink, CanRmdir, Grown
<1>3. IsDir(u, <<>>) /\ LinksLead(u)
  BY <1>1, <1>2 DEF Grown, LinksLead, IsDir, IsLink, Exists
<1>4. ASSUME NEW q \in DOMAIN u PROVE q \in Path /\ (q # <<>> => IsDir(u, Front(q)))
  <2>1. q \in DOMAIN t /\ q \in Path /\ (q # <<>> => IsDir(t, Front(q)))
    BY <1>1 DEF Grown
  <2>2. ASSUME q # <<>>, Front(q) = p PROVE FALSE
    <3>1. IsDir(t, p) /\ CanRmdir(t, p)
      BY <2>1, <2>2 DEF CanUnlink
    <3>2. q = Append(p, Last(q)) /\ Last(q) \in Name
      BY <2>1, <2>2, FrontAndLast DEF Path
    <3>3. Last(q) \in Entries(t, p)
      BY <2>1, <3>2 DEF Entries, Exists
    <3> QED BY <3>1, <3>3 DEF CanRmdir
  <2> QED BY <1>1, <2>1, <2>2 DEF IsDir, Exists
<1>5. u = [q \in DOMAIN u |-> u[q]]
  BY DEF Without
<1> QED BY <1>3, <1>4, <1>5 DEF Grown

LEMMA WithIsGrown ==
  ASSUME NEW t, NEW p \in Path, NEW node, Grown(t), CanMake(t, p), node.kind \in {"dir", "file"}
  PROVE  Grown(With(t, p, node))
<1> DEFINE u == With(t, p, node)
<1>1. /\ DOMAIN u = DOMAIN t \cup {p} /\ u[p] = node
      /\ \A q \in DOMAIN t : u[q] = t[q]
  BY DEF With, CanMake, Exists
<1>2. node.kind # "link"
  OBVIOUS
<1>3. \A q : IsDir(t, q) => IsDir(u, q)
  BY <1>1 DEF IsDir, Exists
<1>4. LinksLead(u)
  BY <1>1, <1>2 DEF Grown, LinksLead, IsLink, Exists
<1>5. \A q \in DOMAIN u : q \in Path /\ (q # <<>> => IsDir(u, Front(q)))
  BY <1>1, <1>3 DEF Grown, CanMake
<1>6. u = [q \in DOMAIN u |-> u[q]]
  BY DEF With
<1> QED BY <1>3, <1>4, <1>5, <1>6 DEF Grown

\* What lies above an entry of such a tree is a directory.
LEMMA AboveIsGrown ==
  ASSUME NEW t, Grown(t), NEW p \in DOMAIN t, NEW q \in Path, IsPrefix(q, p)
  PROVE  Exists(t, q) /\ (q # p => IsDir(t, q))
<1>0. p \in Seq(Name) /\ q \in Seq(Name) /\ Len(p) \in Nat /\ p \in Path
  BY DEF Grown, Path
<1> DEFINE Good(m) == /\ Exists(t, SubSeq(p, 1, m)) /\ (m < Len(p) => IsDir(t, SubSeq(p, 1, m)))
           T == {m \in Nat : m <= Len(p) => Good(Len(p) - m)}
<1>1. 0 \in T
  <2>1. SubSeq(p, 1, Len(p)) = p /\ Len(p) - 0 = Len(p) /\ ~(Len(p) < Len(p))
    BY <1>0, SubSeqFull
  <2>2. Good(Len(p))
    BY <2>1 DEF Exists
  <2> HIDE DEF Good
  <2> QED BY <2>1, <2>2
<1>2. ASSUME NEW m \in Nat, m \in T PROVE m + 1 \in T
  <2> SUFFICES ASSUME m + 1 <= Len(p) PROVE Good(Len(p) - (m + 1))
    <3> HIDE DEF Good
    <3> QED OBVIOUS
  <2> DEFINE i == Len(p) - m
  <2>1. i \in 1..Len(p) /\ i \in Nat /\ Len(p) - (m + 1) = i - 1 /\ Good(i)
    BY <1>0, <1>2
  <2> HIDE DEF i
  <2>2. SubSeq(p, 1, i) # <<>> /\ Front(SubSeq(p, 1, i)) = SubSeq(p, 1, i - 1)
    BY <1>0, <2>1, FrontOfPart
  <2>3. IsDir(t, SubSeq(p, 1, i - 1))
    BY <2>1, <2>2 DEF Grown, Exists
  <2> QED BY <2>1, <2>3 DEF IsDir
<1>3. Nat \subseteq T
  <2> HIDE DEF T
  <2> QED BY <1>1, <1>2, InductionOnSet
<1>4. Len(q) \in 0..Len(p) /\ q = SubSeq(p, 1, Len(q))
  BY <1>0, PrefixIsPart
<1>5. Good(Len(q))
  <2>1. Len(p) - Len(q) \in Nat /\ Len(p) - Len(q) <= Len(p) /\ Len(p) - (Len(p) - Len(q)) = Len(q)
    BY <1>0, <1>4
  <2>2. Len(p) - Len(q) \in T
    BY <1>3, <2>1
  <2> HIDE DEF Good
  <2> QED BY <2>1, <2>2
<1>6. Len(q) = Len(p) => q = p
  BY <1>0, <1>4, SubSeqFull
<1>7. Len(q) # Len(p) => Len(q) < Len(p)
  BY <1>0, <1>4
<1> QED BY <1>4, <1>5, <1>6, <1>7

\* A path put in the place of the beginning of another one.
Swap(q, p, r) == r \o SubSeq(q, Len(p) + 1, Len(q))

LEMMA SwapIs ==
  ASSUME NEW S, NEW p \in Seq(S), NEW q \in Seq(S), NEW r \in Seq(S), IsPrefix(p, q)
  PROVE  /\ Swap(q, p, r) \in Seq(S) /\ IsPrefix(r, Swap(q, p, r))
         /\ Swap(Swap(q, p, r), r, p) = q
         /\ Len(Swap(q, p, r)) = Len(r) + (Len(q) - Len(p))
         /\ Swap(q, p, r) = r <=> q = p
         /\ q # p => Swap(q, p, r) # <<>> /\ Front(Swap(q, p, r)) = Swap(Front(q), p, r)
                     /\ IsPrefix(p, Front(q)) /\ q # <<>>
<1>0. /\ Len(p) \in Nat /\ Len(q) \in Nat /\ Len(r) \in Nat /\ Len(p) <= Len(q)
      /\ \A i \in 1..Len(p) : p[i] = q[i]
  BY PrefixElements
<1> DEFINE n == Len(r) + (Len(q) - Len(p))
           w == Swap(q, p, r)
<1>1. /\ SubSeq(q, Len(p) + 1, Len(q)) \in Seq(S)
      /\ Len(SubSeq(q, Len(p) + 1, Len(q))) = Len(q) - Len(p)
      /\ \A i \in 1..(Len(q) - Len(p)) : SubSeq(q, Len(p) + 1, Len(q))[i] = q[Len(p) + i]
  BY <1>0
<1>2. /\ w \in Seq(S) /\ Len(w) = n
      /\ \A i \in 1..Len(r) : w[i] = r[i]
      /\ \A i \in (Len(r) + 1)..n : w[i] = q[i - Len(r) + Len(p)]
  <2> DEFINE x == SubSeq(q, Len(p) + 1, Len(q))
  <2>1. x \in Seq(S) /\ Len(x) = Len(q) - Len(p) /\ w = r \o x
    BY <1>1 DEF Swap
  <2>2. \A i \in 1..(Len(q) - Len(p)) : x[i] = q[Len(p) + i]
    BY <1>1
  <2> HIDE DEF x, w
  <2>3. /\ w \in Seq(S) /\ Len(w) = n
        /\ \A i \in 1..n : w[i] = IF i <= Len(r) THEN r[i] ELSE x[i - Len(r)]
    <3>1. Len(r) + Len(x) = n
      BY <1>0, <2>1
    <3>2. /\ r \o x \in Seq(S) /\ Len(r \o x) = Len(r) + Len(x)
          /\ \A i \in 1..(Len(r) + Len(x)) : (r \o x)[i] = IF i <= Len(r) THEN r[i] ELSE x[i - Len(r)]
      BY <2>1, ConcatProperties
    <3> QED BY <2>1, <3>1, <3>2
  <2>4. ASSUME NEW i \in (Len(r) + 1)..n PROVE w[i] = q[i - Len(r) + Len(p)]
    <3>1. i \in 1..n /\ ~(i <= Len(r)) /\ i - Len(r) \in 1..(Len(q) - Len(p))
          /\ Len(p) + (i - Len(r)) = i - Len(r) + Len(p)
      BY <1>0
    <3> QED BY <2>2, <2>3, <3>1
  <2>5. \A i \in 1..Len(r) : i \in 1..n /\ i <= Len(r)
    BY <1>0
  <2> QED BY <2>3, <2>4, <2>5
<1> HIDE DEF w
<1>n. n \in Nat /\ n >= Len(r) /\ (n = Len(r) <=> Len(q) = Len(p))
  BY <1>0
<1>3. IsPrefix(r, w)
  BY <1>2, <1>n, PrefixElements
<1>4. w = r <=> q = p
  <2>1. Len(q) = Len(p) => q = p
    BY <1>0, SeqEqual
  <2>2. Len(w) = Len(r) => w = r
    BY <1>2, SeqEqual
  <2> QED BY <1>2, <1>n, <2>1, <2>2
<1>5. Swap(w, r, p) = q
  <2> DEFINE x == SubSeq(w, Len(r) + 1, n)
  <2>1. /\ x \in Seq(S) /\ Len(x) = n - Len(r)
        /\ \A i \in 1..(n - Len(r)) : x[i] = w[Len(r) + i]
    BY <1>0, <1>2, <1>n
  <2>2. Swap(w, r, p) = p \o x
    BY <1>2 DEF Swap
  <2> HIDE DEF x
  <2> DEFINE v == p \o x
  <2>3. /\ v \in Seq(S) /\ Len(v) = Len(q)
        /\ \A i \in 1..Len(q) : v[i] = IF i <= Len(p) THEN p[i] ELSE x[i - Len(p)]
    BY <1>0, <2>1
  <2> HIDE DEF v
  <2>4. ASSUME NEW i \in 1..Len(q) PROVE v[i] = q[i]
    <3>1. CASE i <= Len(p)
      BY <1>0, <2>3, <3>1
    <3>2. CASE ~(i <= Len(p))
      <4>1. /\ i - Len(p) \in 1..(n - Len(r)) /\ Len(r) + (i - Len(p)) \in (Len(r) + 1)..n
            /\ (Len(r) + (i - Len(p))) - Len(r) + Len(p) = i
        BY <1>0, <3>2
      <4>2. x[i - Len(p)] = w[Len(r) + (i - Len(p))] /\ w[Len(r) + (i - Len(p))] = q[i]
        BY <1>2, <2>1, <4>1
      <4> QED BY <2>3, <3>2, <4>2
    <3> QED BY <3>1, <3>2
  <2>5. v = q
    BY <2>3, <2>4, SeqEqual
  <2> QED BY <2>2, <2>5 DEF v
<1>6. ASSUME q # p
      PROVE  /\ w # <<>> /\ Front(w) = Swap(Front(q), p, r)
             /\ IsPrefix(p, Front(q)) /\ q # <<>>
  <2>1. Len(q) > Len(p) /\ q # <<>>
    <3>1. Len(q) = Len(p) => q = p
      BY <1>0, SeqEqual
    <3> QED BY <1>0, <1>6, <3>1
  <2> DEFINE y == Front(q)
             z == Front(w)
  <2>2. y \in Seq(S) /\ Len(y) = Len(q) - 1 /\ \A i \in 1..(Len(q) - 1) : y[i] = q[i]
    BY <2>1, FrontAndLast
  <2>3. w # <<>>
    BY <1>0, <1>2, <2>1
  <2>4. z \in Seq(S) /\ Len(z) = n - 1 /\ \A i \in 1..(n - 1) : z[i] = w[i]
    BY <1>2, <2>3, FrontAndLast
  <2> HIDE DEF y, z
  <2>5. \A i \in 1..Len(p) : p[i] = y[i]
    <3>1. \A i \in 1..Len(p) : i \in 1..(Len(q) - 1)
      BY <1>0, <2>1
    <3> QED BY <1>0, <2>2, <3>1
  <2>6. IsPrefix(p, y)
    BY <1>0, <2>1, <2>2, <2>5, PrefixElements
  <2> DEFINE v == Swap(y, p, r)
             x == SubSeq(y, Len(p) + 1, Len(y))
  <2>7. /\ x \in Seq(S) /\ Len(x) = Len(q) - 1 - Len(p)
        /\ \A i \in 1..(Len(q) - 1 - Len(p)) : x[i] = y[Len(p) + i]
    BY <1>0, <2>1, <2>2
  <2>8. v = r \o x
    BY DEF Swap
  <2> HIDE DEF x, v
  <2>9. /\ v \in Seq(S) /\ Len(v) = n - 1
        /\ \A i \in 1..(n - 1) : v[i] = IF i <= Len(r) THEN r[i] ELSE x[i - Len(r)]
    <3>1. Len(r) + Len(x) = n - 1
      BY <1>0, <2>7
    <3>2. /\ r \o x \in Seq(S) /\ Len(r \o x) = Len(r) + Len(x)
          /\ \A i \in 1..(Len(r) + Len(x)) : (r \o x)[i] = IF i <= Len(r) THEN r[i] ELSE x[i - Len(r)]
      BY <2>7, ConcatProperties
    <3> QED BY <2>8, <3>1, <3>2
  <2>10. ASSUME NEW i \in 1..(n - 1) PROVE v[i] = z[i]
    <3>1. CASE i <= Len(r)
      <4>1. i \in 1..Len(r)
        BY <1>0, <3>1
      <4> QED BY <1>2, <2>4, <2>9, <3>1, <4>1
    <3>2. CASE ~(i <= Len(r))
      <4>1. /\ i - Len(r) \in 1..(Len(q) - 1 - Len(p)) /\ i \in (Len(r) + 1)..n
            /\ Len(p) + (i - Len(r)) = i - Len(r) + Len(p)
            /\ i - Len(r) + Len(p) \in 1..(Len(q) - 1)
        BY <1>0, <1>n, <3>2
      <4>2. x[i - Len(r)] = q[i - Len(r) + Len(p)]
        BY <2>2, <2>7, <4>1
      <4> QED BY <1>2, <2>4, <2>9, <3>2, <4>1, <4>2
    <3> QED BY <3>1, <3>2
  <2>11. v = z
    BY <2>4, <2>9, <2>10, SeqEqual
  <2> QED BY <2>1, <2>3, <2>6, <2>11 DEF v, y, z
<1> QED BY <1>2, <1>3, <1>4, <1>5, <1>6 DEF w

\* There is nothing below what is not there, is no directory or is an empty one.
LEMMA NothingBelow ==
  ASSUME NEW t, Grown(t), NEW d \in Path, ~IsDir(t, d) \/ Entries(t, d) = {},
         NEW q \in DOMAIN t, IsPrefix(d, q)
  PROVE  q = d
<1> SUFFICES ASSUME q # d PROVE FALSE
  OBVIOUS
<1>0. q \in Seq(Name) /\ d \in Seq(Name) /\ Len(q) \in Nat /\ Len(d) \in Nat
  BY DEF Grown, Path
<1>1. IsDir(t, d) /\ Entries(t, d) = {}
  BY AboveIsGrown
<1>2. Len(d) \in 0..Len(q) /\ d = SubSeq(q, 1, Len(d)) /\ Len(d) < Len(q)
  <2>1. Len(d) \in 0..Len(q) /\ d = SubSeq(q, 1, Len(d))
    BY <1>0, PrefixIsPart
  <2>2. Len(d) = Len(q) => q = d
    BY <1>0, <2>1, SubSeqFull
  <2> QED BY <1>0, <2>1, <2>2
<1> DEFINE e == SubSeq(q, 1, Len(d) + 1)
           n == q[Len(d) + 1]
<1>3. n \in Name /\ e = Append(d, n)
  BY <1>0, <1>2, OneMore
<1>4. IsPrefix(e, q) /\ e \in Path
  <2>1. Len(d) + 1 \in 0..Len(q)
    BY <1>0, <1>2
  <2> QED BY <1>0, <2>1, PartOfPath DEF Path
<1> HIDE DEF e, n
<1>5. Exists(t, e)
  BY <1>4, AboveIsGrown
<1> QED BY <1>1, <1>3, <1>5 DEF Entries

\* What rename does to a tree.
LEMMA RenamedIs ==
  ASSUME NEW t, Grown(t), NEW s \in Path, NEW d \in Path, CanRename(t, s, d)
  PROVE  LET u == Renamed(t, s, d)
         IN  /\ u = [q \in DOMAIN u |-> u[q]]
             /\ \A q \in DOMAIN t : ~IsPrefix(s, q) /\ q # d => q \in DOMAIN u /\ u[q] = t[q]
             /\ \A q \in DOMAIN t : IsPrefix(s, q) =>
                  Swap(q, s, d) \in DOMAIN u /\ u[Swap(q, s, d)] = t[q]
             /\ \A r \in DOMAIN u : \/ r \in DOMAIN t /\ ~IsPrefix(s, r) /\ r # d
                                    \/ \E q \in DOMAIN t : IsPrefix(s, q) /\ r = Swap(q, s, d)
<1> DEFINE u == Renamed(t, s, d)
           B == {q \in DOMAIN t : IsPrefix(s, q)}
           R == DOMAIN t \ (B \cup {d})
<1>0. s \in Seq(Name) /\ d \in Seq(Name) /\ \A q \in DOMAIN t : q \in Seq(Name)
  BY DEF Path, Grown
<1>1. u = [q \in R \cup {Swap(x, s, d) : x \in B} |->
             IF IsPrefix(d, q) THEN t[Swap(q, d, s)] ELSE t[q]]
  BY DEF Renamed, Swap
<1>2. ASSUME NEW q \in R PROVE ~IsPrefix(d, q)
  <2> SUFFICES ASSUME IsPrefix(d, q) PROVE FALSE
    OBVIOUS
  <2>1. q \in DOMAIN t /\ q # d
    OBVIOUS
  <2>2. IsDir(t, d) /\ Entries(t, d) # {}
    BY <2>1, NothingBelow
  <2>3. s # d
    OBVIOUS
  <2> QED BY <2>2, <2>3 DEF CanRename, CanRmdir, IsDir
<1>3. ASSUME NEW q \in B PROVE IsPrefix(d, Swap(q, s, d)) /\ Swap(Swap(q, s, d), d, s) = q
  BY <1>0, SwapIs
<1> HIDE DEF R
<1>4. DOMAIN u = R \cup {Swap(x, s, d) : x \in B} /\ u = [q \in DOMAIN u |-> u[q]]
  BY <1>1
<1>5. \A q \in R : u[q] = t[q]
  BY <1>1, <1>2
<1>6. \A q \in B : u[Swap(q, s, d)] = t[q]
  <2> SUFFICES ASSUME NEW q \in B PROVE u[Swap(q, s, d)] = t[q]
    OBVIOUS
  <2> DEFINE w == Swap(q, s, d)
  <2>1. w \in {Swap(x, s, d) : x \in B} /\ IsPrefix(d, w) /\ Swap(w, d, s) = q
    BY <1>3
  <2> HIDE DEF w, B, u
  <2>2. u[w] = t[Swap(w, d, s)]
    BY <1>1, <2>1
  <2> QED BY <2>1, <2>2 DEF w
<1> HIDE DEF u
<1>7. \A q \in DOMAIN t : ~IsPrefix(s, q) /\ q # d => q \in R
  BY DEF R
<1>8. \A q \in R : q \in DOMAIN t /\ ~IsPrefix(s, q) /\ q # d
  BY DEF R
<1>9. \A q \in DOMAIN t : IsPrefix(s, q) => q \in B
  OBVIOUS
<1>10. \A r \in DOMAIN u : r \in R \/ \E q \in B : r = Swap(q, s, d)
  BY <1>4
<1> QED BY <1>4, <1>5, <1>6, <1>7, <1>8, <1>9, <1>10 DEF u

\* Rename leaves such a tree.
LEMMA RenamedIsGrown ==
  ASSUME NEW t, Grown(t), NEW s \in Path, NEW d \in Path, s # <<>>, CanRename(t, s, d)
  PROVE  Grown(Renamed(t, s, d))
<1> DEFINE u == Renamed(t, s, d)
<1>0. /\ s \in Seq(Name) /\ d \in Seq(Name) /\ \A q \in DOMAIN t : q \in Seq(Name)
      /\ Path = Seq(Name)
  BY DEF Path, Grown
<1>1. /\ u = [q \in DOMAIN u |-> u[q]]
      /\ \A q \in DOMAIN t : ~IsPrefix(s, q) /\ q # d => q \in DOMAIN u /\ u[q] = t[q]
      /\ \A q \in DOMAIN t : IsPrefix(s, q) =>
           Swap(q, s, d) \in DOMAIN u /\ u[Swap(q, s, d)] = t[q]
      /\ \A r \in DOMAIN u : \/ r \in DOMAIN t /\ ~IsPrefix(s, r) /\ r # d
                             \/ \E q \in DOMAIN t : IsPrefix(s, q) /\ r = Swap(q, s, d)
  BY RenamedIs
<1> HIDE DEF u
<1>2. ~IsPrefix(s, <<>>) /\ d # <<>> /\ <<>> \in DOMAIN t /\ IsDir(t, <<>>)
  BY PrefixElements DEF CanRename, Grown, IsDir, Exists, IsPrefix
<1>3. IsDir(u, <<>>)
  BY <1>1, <1>2 DEF IsDir, Exists
<1>4. LinksLead(u)
  <2> SUFFICES ASSUME NEW r \in DOMAIN u, IsLink(u, r) PROVE u[r].to \in Path
    BY DEF LinksLead
  <2>1. PICK q \in DOMAIN t : u[r] = t[q]
    BY <1>1
  <2> QED BY <2>1 DEF IsLink, Exists, Grown, LinksLead
<1>5. s # d => ~IsPrefix(s, d)
  BY DEF CanRename, IsStrictPrefix
<1>6. ASSUME NEW q \in DOMAIN t, IsDir(t, q), ~IsPrefix(s, q) PROVE q = d \/ IsDir(u, q)
  BY <1>1, <1>6 DEF IsDir, Exists
<1>7. ASSUME NEW r \in DOMAIN u PROVE r \in Path /\ (r # <<>> => IsDir(u, Front(r)))
  <2>1. CASE r \in DOMAIN t /\ ~IsPrefix(s, r) /\ r # d
    <3>1. r \in Path /\ (r # <<>> => IsDir(t, Front(r)) /\ Front(r) \in DOMAIN t)
      BY <2>1 DEF Grown, IsDir, Exists
    <3> SUFFICES ASSUME r # <<>> PROVE IsDir(u, Front(r))
      BY <3>1
    <3>2. r = Append(Front(r), Last(r)) /\ Front(r) \in Seq(Name) /\ Last(r) \in Name
      BY <1>0, <3>1, FrontAndLast
    <3>3. ~IsPrefix(s, Front(r))
      BY <1>0, <2>1, <3>2, PrefixOfEntry
    <3>4. Front(r) # d
      <4> SUFFICES ASSUME Front(r) = d PROVE FALSE
        OBVIOUS
      <4>1. IsPrefix(d, r)
        BY <1>0, <3>2, PrefixOfEntry, SubSeqFull DEF IsPrefix
      <4>2. IsDir(t, d) /\ Entries(t, d) # {}
        BY <2>1, <4>1, NothingBelow
      <4>3. s # d
        BY <2>1, <4>1
      <4> QED BY <4>2, <4>3 DEF CanRename, CanRmdir, IsDir
    <3> QED BY <1>6, <3>1, <3>3, <3>4
  <2>2. ASSUME NEW q \in DOMAIN t, IsPrefix(s, q), r = Swap(q, s, d)
        PROVE  r \in Path /\ (r # <<>> => IsDir(u, Front(r)))
    <3>1. /\ r \in Path
          /\ q = s => r = d
          /\ q # s => /\ r # <<>> /\ Front(r) = Swap(Front(q), s, d)
                      /\ IsPrefix(s, Front(q)) /\ q # <<>>
      BY <1>0, <2>2, SwapIs
    <3>2. CASE q = s
      <4>1. IsDir(t, Front(d)) /\ Front(d) \in DOMAIN t
        BY DEF CanRename, IsDir, Exists
      <4>0. /\ Len(Front(d)) = Len(d) - 1 /\ Len(d) \in Nat /\ Len(d) >= 1
            /\ Front(d) \in Seq(Name) /\ Last(d) \in Name /\ d = Append(Front(d), Last(d))
        <5>1. Len(d) \in Nat
          BY <1>0
        <5> QED BY <1>0, <1>2, <5>1, FrontAndLast
      <4>2. Front(d) # d /\ Len(Front(d)) < Len(d)
        BY <4>0
      <4>3. CASE s = d
        <5>1. ~IsPrefix(s, Front(d))
          <6>1. Len(Front(d)) < Len(d) /\ Len(d) \in Nat /\ Len(Front(d)) \in Nat
            BY <4>0, <4>2
          <6> QED BY <1>0, <4>0, <4>3, <6>1, PrefixElements
        <5> QED BY <1>6, <3>1, <3>2, <4>1, <4>2, <5>1
      <4>4. CASE s # d
        <5>1. ~IsPrefix(s, Front(d))
          BY <1>0, <1>5, <4>0, <4>4, PrefixOfEntry
        <5> QED BY <1>6, <3>1, <3>2, <4>1, <4>2, <5>1
      <4> QED BY <4>3, <4>4
    <3>3. CASE q # s
      <4>1. IsDir(t, Front(q)) /\ Front(q) \in DOMAIN t
        BY <3>1, <3>3 DEF Grown, IsDir, Exists
      <4>2. Front(r) \in DOMAIN u /\ u[Front(r)] = t[Front(q)]
        BY <1>1, <3>1, <3>3, <4>1
      <4> QED BY <3>1, <4>1, <4>2 DEF IsDir, Exists
    <3> QED BY <3>2, <3>3
  <2> QED BY <1>1, <2>1, <2>2
<1> QED BY <1>1, <1>3, <1>4, <1>7 DEF Grown, u

===============================================================================
