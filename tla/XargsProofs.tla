------------------------------ MODULE XargsProofs ------------------------------
(***************************************************************************)
(* Proofs about Xargs: for every input, every length of the line buffer    *)
(* and every outcome of the commands.  (FileSystemProofs is here for its   *)
(* induction on a set of numbers and its facts about FlattenSeq.)          *)
(***************************************************************************)
EXTENDS Xargs, FileSystemProofs

-------------------------------------------------------------------------------
(***************************************************************************)
(* What FlattenSeq makes of a part of the sequences.                       *)
(***************************************************************************)

\* No sequences, and one sequence more, in what FlattenSeq makes of a part.
LEMMA FlatStart == ASSUME NEW q PROVE FlattenSeq(SubSeq(q, 1, 0)) = <<>>
<1>1. SubSeq(q, 1, 0) = <<>>
  OBVIOUS
<1> QED
  BY <1>1 DEF FlattenSeq

LEMMA FlatStep ==
  ASSUME NEW S, NEW q \in Seq(Seq(S)), NEW k \in Nat, k < Len(q)
  PROVE  /\ FlattenSeq(SubSeq(q, 1, k)) \in Seq(S) /\ q[k + 1] \in Seq(S)
         /\ FlattenSeq(SubSeq(q, 1, k + 1)) = FlattenSeq(SubSeq(q, 1, k)) \o q[k + 1]
<1>1. /\ SubSeq(q, 1, k) \in Seq(Seq(S)) /\ q[k + 1] \in Seq(S)
      /\ SubSeq(q, 1, k + 1) = Append(SubSeq(q, 1, k), q[k + 1])
  BY OneMore
<1> QED
  BY <1>1, FlatAppend

\* What FlattenSeq makes of the first k sequences is the beginning of all of it.
LEMMA FlatPrefix ==
  ASSUME NEW S, NEW q \in Seq(Seq(S)), NEW k \in 0..Len(q)
  PROVE  /\ FlattenSeq(SubSeq(q, 1, k)) \in Seq(S) /\ FlattenSeq(q) \in Seq(S)
         /\ IsPrefix(FlattenSeq(SubSeq(q, 1, k)), FlattenSeq(q))
<1> DEFINE F(m) == FlattenSeq(SubSeq(q, 1, m))
           n == Len(q)
           T == {m \in Nat : m <= n => IsPrefix(F(n - m), F(n))}
<1>0. n \in Nat /\ SubSeq(q, 1, n) = q
  BY SubSeqFull
<1>1. ASSUME NEW m \in 0..n PROVE F(m) \in Seq(S)
  <2>1. SubSeq(q, 1, m) \in Seq(Seq(S))
    BY <1>0
  <2>2. <<>> \in Seq(S)
    OBVIOUS
  <2> QED
    BY <2>1, <2>2, FlatAppend
<1>2. 0 \in T
  <2>1. n - 0 = n /\ n \in 0..n
    BY <1>0
  <2>2. F(n) \in Seq(S)
    BY <1>1, <2>1
  <2> HIDE DEF F, n
  <2>3. IsPrefix(F(n), F(n))
    BY <2>2, PrefixElements
  <2> QED
    BY <2>1, <2>3
<1>3. ASSUME NEW m \in Nat, m \in T PROVE m + 1 \in T
  <2> SUFFICES ASSUME m + 1 <= n PROVE IsPrefix(F(n - (m + 1)), F(n))
    <3> HIDE DEF F, n
    <3> QED
      OBVIOUS
  <2> DEFINE j == n - (m + 1)
  <2>1. j \in Nat /\ j < n /\ j + 1 = n - m /\ j \in 0..n /\ n - m \in 0..n /\ n \in 0..n /\ m <= n
    BY <1>0
  <2> HIDE DEF j
  <2>2. F(j + 1) = F(j) \o q[j + 1] /\ q[j + 1] \in Seq(S)
    BY <2>1, FlatStep
  <2>3. F(j) \in Seq(S) /\ F(j + 1) \in Seq(S) /\ F(n) \in Seq(S)
    BY <1>1, <2>1
  <2>4. IsPrefix(F(j + 1), F(n))
    <3> HIDE DEF F, n
    <3> QED
      BY <1>3, <2>1
  <2> HIDE DEF F, n
  <2>5. IsPrefix(F(j), F(j + 1))
    BY <2>2, <2>3, PrefixElements
  <2>6. IsPrefix(F(j), F(n))
    BY <2>3, <2>4, <2>5, PrefixTransitive
  <2> QED
    BY <2>6 DEF j
<1>4. IsPrefix(F(k), F(n))
  <2>1. n - k \in Nat /\ n - k <= n /\ n - (n - k) = k
    BY <1>0
  <2> HIDE DEF F, n
  <2>2. Nat \subseteq T
    <3> HIDE DEF T
    <3> QED
      BY <1>2, <1>3, InductionOnSet
  <2>3. n - k \in T
    <3> HIDE DEF T
    <3> QED
      BY <2>1, <2>2
  <2> QED
    BY <2>1, <2>3
<1>5. n \in 0..n
  BY <1>0
<1> QED
  BY <1>0, <1>1, <1>4, <1>5

\* Where the elements of a sequence lie in what FlattenSeq makes of all of them.
LEMMA FlatBlock ==
  ASSUME NEW S, NEW q \in Seq(Seq(S)), NEW k \in Nat, k < Len(q), NEW b,
         b = Len(FlattenSeq(SubSeq(q, 1, k)))
  PROVE  /\ b \in Nat
         /\ Len(FlattenSeq(SubSeq(q, 1, k + 1))) = b + Len(q[k + 1])
         /\ b + Len(q[k + 1]) <= Len(FlattenSeq(q))
         /\ \A i \in 1..Len(q[k + 1]) : FlattenSeq(q)[b + i] = q[k + 1][i]
<1> DEFINE f == FlattenSeq(SubSeq(q, 1, k))
           g == FlattenSeq(SubSeq(q, 1, k + 1))
           h == FlattenSeq(q)
           e == q[k + 1]
<1>1. f \in Seq(S) /\ e \in Seq(S) /\ g = f \o e
  BY FlatStep
<1>2. k + 1 \in 0..Len(q)
  OBVIOUS
<1>3. g \in Seq(S) /\ h \in Seq(S) /\ IsPrefix(g, h)
  BY <1>2, FlatPrefix
<1> HIDE DEF f, g, h, e
<1>4. Len(g) <= Len(h) /\ \A i \in 1..Len(g) : g[i] = h[i]
  BY <1>3, PrefixElements
<1>5. /\ Len(f) \in Nat /\ Len(e) \in Nat /\ Len(g) = Len(f) + Len(e)
      /\ \A i \in 1..Len(e) : g[Len(f) + i] = e[i]
  BY <1>1
<1>6. \A i \in 1..Len(e) : Len(f) + i \in 1..Len(g)
  BY <1>5
<1>7. \A i \in 1..Len(e) : h[Len(f) + i] = e[i]
  BY <1>4, <1>5, <1>6
<1> QED
  BY <1>4, <1>5, <1>7 DEF f, g, h, e

-------------------------------------------------------------------------------
(***************************************************************************)
(* The scan: from one state over some text to another.                     *)
(***************************************************************************)
\* The provers do not know that a string they can spell is in STRING.
Char == STRING \cup Special
Word == Seq(Char)

ScanState == [quote : Char \cup {""}, escaped : BOOLEAN, space : Char \cup {"start", "no"},
              word : Word, words : Seq(Word)]

Leads(a, text, b) ==
  \E f : /\ f[0] = a /\ f[Len(text)] = b
         /\ \A i \in 1..Len(text) : f[i] = Scan(f[i - 1], text[i])

LEMMA LeadsNowhere == ASSUME NEW a PROVE Leads(a, <<>>, a)
<1> DEFINE f == [i \in {0} |-> a]
<1>1. Len(<<>>) = 0 /\ f[0] = a
  OBVIOUS
<1> HIDE DEF f
<1>2. \A i \in 1..Len(<<>>) : f[i] = Scan(f[i - 1], <<>>[i])
  BY <1>1
<1> QED
  BY <1>1, <1>2 DEF Leads

LEMMA LeadsOn ==
  ASSUME NEW a, NEW b, NEW x \in Word, NEW c \in Char, Leads(a, x, b)
  PROVE  Leads(a, Append(x, c), Scan(b, c))
<1> DEFINE n == Len(x)
           y == Append(x, c)
<1>1. /\ n \in Nat /\ Len(y) = n + 1 /\ y[n + 1] = c
      /\ \A i \in 1..n : y[i] = x[i]
  <2>1. x \in Seq(Char)
    BY DEF Word
  <2> QED
    BY <2>1
<1>2. PICK f : f[0] = a /\ f[n] = b /\ \A i \in 1..n : f[i] = Scan(f[i - 1], x[i])
  BY DEF Leads
<1> HIDE DEF n, y
<1> DEFINE g == [i \in 0..(n + 1) |-> IF i = n + 1 THEN Scan(b, c) ELSE f[i]]
<1>3. g[n + 1] = Scan(b, c)
  BY <1>1
<1>4. ASSUME NEW i \in 0..n PROVE g[i] = f[i]
  <2>1. i \in 0..(n + 1) /\ i # n + 1
    BY <1>1
  <2> QED
    BY <2>1
<1> HIDE DEF g
<1>5. ASSUME NEW i \in 1..(n + 1) PROVE g[i] = Scan(g[i - 1], y[i])
  <2>1. CASE i = n + 1
    <3>1. i - 1 = n /\ n \in 0..n
      BY <1>1, <2>1
    <3>2. g[i - 1] = b
      BY <1>2, <1>4, <3>1
    <3> QED
      BY <1>1, <1>3, <2>1, <3>2
  <2>2. CASE i \in 1..n
    <3>1. i \in 0..n /\ i - 1 \in 0..n
      BY <1>1, <2>2
    <3>2. g[i] = f[i] /\ g[i - 1] = f[i - 1]
      BY <1>4, <3>1
    <3> QED
      BY <1>1, <1>2, <2>2, <3>2
  <2> QED
    BY <1>1, <2>1, <2>2
<1>6. g[0] = a
  <2>1. 0 \in 0..n
    BY <1>1
  <2> QED
    BY <1>2, <1>4, <2>1
<1>7. g[0] = a /\ g[Len(y)] = Scan(b, c) /\ \A i \in 1..Len(y) : g[i] = Scan(g[i - 1], y[i])
  BY <1>1, <1>3, <1>5, <1>6
<1>8. Leads(a, y, Scan(b, c))
  BY <1>7, Zenon DEF Leads
<1> QED
  BY <1>8 DEF y

LEMMA LeadsThrough ==
  ASSUME NEW a, NEW b, NEW c, NEW x \in Word, NEW y \in Word, Leads(a, x, b), Leads(b, y, c)
  PROVE  Leads(a, x \o y, c)
<1> DEFINE m == Len(x)
           n == Len(y)
           z == x \o y
<1>1. /\ m \in Nat /\ n \in Nat /\ Len(z) = m + n
      /\ \A i \in 1..m : z[i] = x[i]
      /\ \A i \in 1..n : z[m + i] = y[i]
  BY DEF Word
<1>2. PICK f : f[0] = a /\ f[m] = b /\ \A i \in 1..m : f[i] = Scan(f[i - 1], x[i])
  BY DEF Leads
<1>3. PICK g : g[0] = b /\ g[n] = c /\ \A i \in 1..n : g[i] = Scan(g[i - 1], y[i])
  BY DEF Leads
<1> HIDE DEF m, n, z
<1> DEFINE h == [i \in 0..(m + n) |-> IF i <= m THEN f[i] ELSE g[i - m]]
<1>4. \A i \in 0..m : h[i] = f[i]
  BY <1>1
<1>5. ASSUME NEW i \in 0..n PROVE h[m + i] = g[i]
  <2>1. CASE i = 0
    <3>1. m + i = m /\ m \in 0..m
      BY <1>1, <2>1
    <3> QED
      BY <1>2, <1>3, <1>4, <2>1, <3>1
  <2>2. CASE i > 0
    <3> DEFINE j == m + i
    <3>1. j \in 0..(m + n) /\ ~(j <= m) /\ j - m = i
      BY <1>1, <2>2
    <3> HIDE DEF j
    <3>2. h[j] = g[i]
      BY <3>1
    <3> QED
      BY <3>2 DEF j
  <2> QED
    BY <2>1, <2>2
<1> HIDE DEF h
<1>6. ASSUME NEW i \in 1..(m + n) PROVE h[i] = Scan(h[i - 1], z[i])
  <2>1. CASE i <= m
    <3>1. i \in 1..m /\ i \in 0..m /\ i - 1 \in 0..m
      BY <1>1, <2>1
    <3>2. h[i] = f[i] /\ h[i - 1] = f[i - 1]
      BY <1>4, <3>1
    <3> QED
      BY <1>1, <1>2, <3>1, <3>2
  <2>2. CASE i > m
    <3> DEFINE j == i - m
    <3>1. j \in 1..n /\ j \in 0..n /\ j - 1 \in 0..n /\ i = m + j /\ i - 1 = m + (j - 1)
      BY <1>1, <2>2
    <3> HIDE DEF j
    <3>2. h[m + j] = g[j] /\ h[m + (j - 1)] = g[j - 1] /\ z[m + j] = y[j]
      BY <1>1, <1>5, <3>1
    <3>3. g[j] = Scan(g[j - 1], y[j])
      BY <1>3, <3>1
    <3> QED
      BY <3>1, <3>2, <3>3
  <2> QED
    BY <1>1, <2>1, <2>2
<1>7. h[0] = a /\ h[m + n] = c
  <2>1. 0 \in 0..m /\ n \in 0..n
    BY <1>1
  <2> QED
    BY <1>2, <1>3, <1>4, <1>5, <2>1
<1>8. h[0] = a /\ h[Len(z)] = c /\ \A i \in 1..Len(z) : h[i] = Scan(h[i - 1], z[i])
  BY <1>1, <1>6, <1>7
<1>9. Leads(a, z, c)
  BY <1>8, Zenon DEF Leads
<1> QED
  BY <1>9 DEF z

\* A function that follows the scan is what the recursion in Scanned computes.
LEMMA LeadsScanned ==
  ASSUME NEW x \in Word, NEW b, Leads(Begin, x, b)
  PROVE  Scanned(x) = b
<1> DEFINE n == Len(x)
           Rec(g) == [i \in 0..n |->
                        IF i = 0 THEN Begin
                                 ELSE CHOOSE t \in {Scan(s, x[i]) : s \in {g[i - 1]}} : TRUE]
           h == CHOOSE g : g = Rec(g)
<1>0. n \in Nat
  BY DEF Word
<1>1. Scanned(x) = h[n]
  BY DEF Scanned
<1>2. PICK f : f[0] = Begin /\ f[n] = b /\ \A i \in 1..n : f[i] = Scan(f[i - 1], x[i])
  BY DEF Leads
<1>3. \A s, c : (CHOOSE t \in {Scan(r, c) : r \in {s}} : TRUE) = Scan(s, c)
  OBVIOUS
<1> DEFINE e == [i \in 0..n |-> f[i]]
<1>4. e = Rec(e)
  <2>1. ASSUME NEW i \in 0..n PROVE e[i] = Rec(e)[i]
    <3>1. CASE i = 0
      BY <1>2, <3>1
    <3>2. CASE i # 0
      <4>1. i \in 1..n /\ i - 1 \in 0..n
        BY <1>0, <3>2
      <4>2. e[i] = Scan(e[i - 1], x[i])
        BY <1>2, <4>1
      <4> HIDE DEF e
      <4>3. Rec(e)[i] = CHOOSE t \in {Scan(s, x[i]) : s \in {e[i - 1]}} : TRUE
        BY <3>2
      <4> QED
        BY <1>3, <4>2, <4>3
    <3> QED
      BY <3>1, <3>2
  <2>2. e = [i \in 0..n |-> e[i]] /\ Rec(e) = [i \in 0..n |-> Rec(e)[i]]
    OBVIOUS
  <2> HIDE DEF Rec, e
  <2> QED
    BY <2>1, <2>2
<1>5. h = Rec(h)
  <2> HIDE DEF Rec, e
  <2> QED
    BY <1>4
<1> HIDE DEF h
<1>6. /\ n \in 0..n /\ h[0] = Begin
      /\ \A i \in 1..n : h[i] = Scan(h[i - 1], x[i])
  <2>1. 0 \in 0..n /\ n \in 0..n
    BY <1>0
  <2>2. h[0] = Begin
    BY <1>5, <2>1
  <2>3. ASSUME NEW i \in 1..n PROVE h[i] = Scan(h[i - 1], x[i])
    <3>1. i \in 0..n /\ i # 0
      BY <1>0
    <3>2. h[i] = CHOOSE t \in {Scan(s, x[i]) : s \in {h[i - 1]}} : TRUE
      BY <1>5, <3>1
    <3> QED
      BY <1>3, <3>2
  <2> QED
    BY <2>1, <2>2, <2>3
<1> HIDE DEF n
<1> DEFINE T == {m \in Nat : m <= n => h[m] = f[m]}
<1>7. 0 \in T
  BY <1>2, <1>6
<1>8. ASSUME NEW m \in Nat, m \in T PROVE m + 1 \in T
  <2> SUFFICES ASSUME m + 1 <= n PROVE h[m + 1] = f[m + 1]
    OBVIOUS
  <2>1. m + 1 \in 1..n /\ m + 1 - 1 = m /\ h[m] = f[m]
    BY <1>0, <1>8
  <2> QED
    BY <1>2, <1>6, <2>1
<1>9. n \in T
  <2> HIDE DEF T
  <2>1. Nat \subseteq T
    BY <1>7, <1>8, InductionOnSet
  <2> QED
    BY <1>0, <2>1
<1> QED
  BY <1>0, <1>1, <1>2, <1>9

\* Every scan ends in some state.
LEMMA ScanType ==
  ASSUME NEW s \in ScanState, NEW c \in Char
  PROVE  Scan(s, c) \in ScanState
<1>1. /\ s.quote \in Char \cup {""} /\ s.escaped \in BOOLEAN
      /\ s.space \in Char \cup {"start", "no"}
      /\ s.word \in Word /\ s.words \in Seq(Word)
  BY DEF ScanState
<1>2. Append(s.word, c) \in Word /\ Append(s.words, s.word) \in Seq(Word) /\ <<>> \in Word
  <2>0. <<>> \in Seq(Char)
    OBVIOUS
  <2>1. s.word \in Seq(Char)
    BY <1>1, Zenon DEF Word
  <2>2. Append(s.word, c) \in Seq(Char)
    BY <2>1, FrontOfAppend
  <2>3. Append(s.words, s.word) \in Seq(Word)
    BY <1>1, FrontOfAppend
  <2> QED
    BY <2>0, <2>2, <2>3 DEF Word
<1>3. Keep(s, c) \in ScanState /\ EndWord(s, c) \in ScanState
  BY <1>1, <1>2 DEF Keep, EndWord, ScanState
<1>4. \A q \in Char \cup {""}, sp \in Char \cup {"start", "no"} :
        /\ [s EXCEPT !.quote = q, !.space = sp] \in ScanState
        /\ [s EXCEPT !.quote = q] \in ScanState
        /\ [s EXCEPT !.escaped = TRUE] \in ScanState
  BY <1>1 DEF ScanState
<1>5. [s EXCEPT !.quote = IF @ = "" THEN c ELSE "", !.space = "no"] \in ScanState
  <2>1. (IF s.quote = "" THEN c ELSE "") \in Char \cup {""}
    OBVIOUS
  <2> QED
    BY <1>1, <2>1 DEF ScanState
<1> QED
  BY <1>3, <1>4, <1>5 DEF Scan

LEMMA ScannedType == ASSUME NEW x \in Word PROVE Scanned(x) \in ScanState
<1> DEFINE n == Len(x)
           Good(m) == \E b \in ScanState : Leads(Begin, SubSeq(x, 1, m), b)
           T == {m \in Nat : m <= n => Good(m)}
<1>0. n \in Nat /\ SubSeq(x, 1, n) = x
  BY SubSeqFull DEF Word
<1>1. 0 \in T
  <2>1. SubSeq(x, 1, 0) = <<>>
    OBVIOUS
  <2>2. Begin \in ScanState
    <3>1. <<>> \in Word /\ <<>> \in Seq(Word)
      BY DEF Word
    <3> QED
      BY <3>1 DEF Begin, ScanState
  <2>3. Leads(Begin, SubSeq(x, 1, 0), Begin)
    BY <2>1, LeadsNowhere
  <2>4. Good(0)
    BY <2>2, <2>3
  <2> HIDE DEF Good
  <2> QED
    BY <2>4
<1>2. ASSUME NEW m \in Nat, m \in T PROVE m + 1 \in T
  <2> SUFFICES ASSUME m + 1 <= n PROVE Good(m + 1)
    <3> HIDE DEF Good
    <3> QED
      OBVIOUS
  <2>1. m < n /\ m <= n
    BY <1>0
  <2>2. /\ SubSeq(x, 1, m) \in Word /\ x[m + 1] \in Char
        /\ SubSeq(x, 1, m + 1) = Append(SubSeq(x, 1, m), x[m + 1])
    BY <2>1, OneMore DEF Word
  <2>3. PICK b \in ScanState : Leads(Begin, SubSeq(x, 1, m), b)
    BY <1>2, <2>1
  <2>4. Leads(Begin, SubSeq(x, 1, m + 1), Scan(b, x[m + 1]))
    BY <2>2, <2>3, LeadsOn
  <2>5. Scan(b, x[m + 1]) \in ScanState
    BY <2>2, ScanType
  <2> QED
    BY <2>4, <2>5
<1>3. Good(n)
  <2> HIDE DEF Good
  <2>1. Nat \subseteq T
    <3> HIDE DEF T
    <3> QED
      BY <1>1, <1>2, InductionOnSet
  <2> QED
    BY <1>0, <2>1
<1>4. PICK b \in ScanState : Leads(Begin, x, b)
  BY <1>0, <1>3
<1> QED
  BY <1>4, LeadsScanned

-------------------------------------------------------------------------------
(***************************************************************************)
(* The scan of a word that is spelled well.                                *)
(***************************************************************************)
\* The state within a quote, or in none, when no character is escaped.
St(quote, space, word, ws) ==
  [quote |-> quote, escaped |-> FALSE, space |-> space, word |-> word, words |-> ws]

\* If each character of a word is spelled by a text over which the scan takes up
\* that character, the scan takes up the word.
LEMMA BlocksLead ==
  ASSUME NEW quote, NEW space, NEW ws, NEW word \in Word,
         NEW e \in Seq(Word), Len(e) = Len(word),
         \A k \in Nat : k < Len(word) =>
           Leads(St(quote, IF k = 0 THEN space ELSE "no", SubSeq(word, 1, k), ws), e[k + 1],
                 St(quote, "no", SubSeq(word, 1, k + 1), ws))
  PROVE  /\ FlattenSeq(e) \in Word
         /\ Leads(St(quote, space, <<>>, ws), FlattenSeq(e),
                  St(quote, IF word = <<>> THEN space ELSE "no", word, ws))
<1> DEFINE n == Len(word)
           a == St(quote, space, <<>>, ws)
           b(m) == St(quote, IF m = 0 THEN space ELSE "no", SubSeq(word, 1, m), ws)
           F(m) == FlattenSeq(SubSeq(e, 1, m))
           T == {m \in Nat : m <= n => F(m) \in Word /\ Leads(a, F(m), b(m))}
<1>0. /\ n \in Nat /\ n = Len(e) /\ e \in Seq(Seq(Char))
      /\ SubSeq(word, 1, n) = word /\ SubSeq(e, 1, n) = e
      /\ (n = 0 <=> word = <<>>)
  BY SubSeqFull DEF Word
<1>1. 0 \in T
  <2>1. F(0) = <<>> /\ b(0) = a
    <3>1. SubSeq(word, 1, 0) = <<>>
      OBVIOUS
    <3> QED
      BY <3>1, FlatStart
  <2>2. <<>> \in Word
    BY DEF Word
  <2> HIDE DEF a, b, F
  <2> QED
    BY <2>1, <2>2, LeadsNowhere
<1>2. ASSUME NEW m \in Nat, m \in T PROVE m + 1 \in T
  <2> SUFFICES ASSUME m + 1 <= n PROVE F(m + 1) \in Word /\ Leads(a, F(m + 1), b(m + 1))
    <3> HIDE DEF F, a, b
    <3> QED
      OBVIOUS
  <2>1. m < n /\ m <= n /\ m < Len(e) /\ m + 1 # 0
    BY <1>0
  <2>2. F(m) \in Word /\ Leads(a, F(m), b(m))
    <3> HIDE DEF F, a, b
    <3> QED
      BY <1>2, <2>1
  <2>3. e[m + 1] \in Word /\ F(m + 1) = F(m) \o e[m + 1] /\ F(m + 1) \in Word
    <3>1. F(m) \in Seq(Char) /\ e[m + 1] \in Seq(Char) /\ F(m + 1) = F(m) \o e[m + 1]
      BY <1>0, <2>1, FlatStep
    <3> HIDE DEF F
    <3>2. F(m) \o e[m + 1] \in Seq(Char)
      BY <3>1
    <3> QED
      BY <3>1, <3>2 DEF Word
  <2>4. Leads(b(m), e[m + 1], b(m + 1))
    BY <2>1
  <2> HIDE DEF a, b, F
  <2>5. Leads(a, F(m) \o e[m + 1], b(m + 1))
    BY <2>2, <2>3, <2>4, LeadsThrough
  <2> QED
    BY <2>3, <2>5
<1>3. F(n) \in Word /\ Leads(a, F(n), b(n))
  <2> HIDE DEF F, a, b
  <2>1. Nat \subseteq T
    <3> HIDE DEF T
    <3> QED
      BY <1>1, <1>2, InductionOnSet
  <2> QED
    BY <1>0, <2>1
<1>4. b(n) = St(quote, IF word = <<>> THEN space ELSE "no", word, ws)
  BY <1>0
<1> HIDE DEF b
<1> QED
  BY <1>0, <1>3, <1>4

\* One character.
LEMMA LeadsOne ==
  ASSUME NEW a, NEW c \in Char
  PROVE  <<c>> \in Word /\ Leads(a, <<c>>, Scan(a, c))
<1>1. <<>> \in Word /\ Append(<<>>, c) = <<c>> /\ <<c>> \in Word
  BY DEF Word
<1> QED
  BY <1>1, LeadsNowhere, LeadsOn

LEMMA LeadsTwo ==
  ASSUME NEW a, NEW c \in Char, NEW d \in Char
  PROVE  <<c, d>> \in Word /\ Leads(a, <<c, d>>, Scan(Scan(a, c), d))
<1>1. Append(<<c>>, d) = <<c, d>>
  <2> DEFINE r == Append(<<c>>, d)
             s == <<c, d>>
  <2>1. /\ r \in Seq(Char) /\ Len(r) = 2 /\ r[1] = c /\ r[2] = d
        /\ s \in Seq(Char) /\ Len(s) = 2 /\ s[1] = c /\ s[2] = d
    OBVIOUS
  <2> HIDE DEF r, s
  <2>2. \A i \in 1..Len(r) : r[i] = s[i]
    BY <2>1
  <2> QED
    BY <2>1, <2>2, SeqEqual DEF r, s
<1>2. <<c>> \in Word /\ <<c, d>> \in Word
  <2>1. <<c>> \in Seq(Char) /\ <<c, d>> \in Seq(Char)
    OBVIOUS
  <2> QED
    BY <2>1 DEF Word
<1> QED
  BY <1>1, <1>2, LeadsOne, LeadsOn

\* (Zenon can read these two strings, the SMT solver cannot.)
NoQuote == ""
Double  == "\""

\* What the scan does with one character, in the states that occur in such a word:
\* it takes the character up,
LEMMA ScanKeeps ==
  ASSUME NEW quote, NEW space, NEW word, NEW ws, NEW c,
         \/ quote = NoQuote /\ c \notin Special
         \/ quote = "'" /\ c # "'"
         \/ quote = Double /\ c \notin {Double, "\\"}
  PROVE  Scan(St(quote, space, word, ws), c) = St(quote, "no", Append(word, c), ws)
BY DEF NoQuote, Double, Scan, St, Keep, Special, Blank, Newline

\* also behind a \,
LEMMA ScanEscaped ==
  ASSUME NEW quote, quote \in {NoQuote, Double}, NEW space, NEW word, NEW ws, NEW c
  PROVE  Scan(Scan(St(quote, space, word, ws), "\\"), c)
           = St(quote, "no", Append(word, c), ws)
<1> DEFINE s == St(quote, space, word, ws)
           e == [s EXCEPT !.escaped = TRUE]
<1>1. Scan(s, "\\") = e
  BY DEF NoQuote, Double, Scan, St, Blank, Newline
<1>2. Scan(e, c) = St(quote, "no", Append(word, c), ws)
  BY DEF NoQuote, Double, Scan, St, Keep
<1> QED
  BY <1>1, <1>2

\* opens or closes a quote,
LEMMA ScanQuote ==
  ASSUME NEW space, NEW word, NEW ws
  PROVE  /\ Scan(St(NoQuote, space, word, ws), "'") = St("'", space, word, ws)
         /\ Scan(St("'", space, word, ws), "'") = St(NoQuote, "no", word, ws)
         /\ Scan(St(NoQuote, space, word, ws), Double) = St(Double, "no", word, ws)
         /\ Scan(St(Double, space, word, ws), Double) = St(NoQuote, "no", word, ws)
BY DEF NoQuote, Double, Scan, St, Blank, Newline

\* or ends the word, if there is one.
LEMMA ScanBlank ==
  ASSUME NEW space, NEW word, NEW ws, NEW c, c \in Blank \cup {Newline}
  PROVE  /\ Scan(St(NoQuote, "no", word, ws), c) = St(NoQuote, c, <<>>, Append(ws, word))
         /\ space # "no" => Scan(St(NoQuote, space, word, ws), c) = St(NoQuote, space, word, ws)
BY DEF NoQuote, Scan, St, EndWord, Blank, Newline

\* A word of single characters is itself when it is spelled.
LEMMA FlatSingles ==
  ASSUME NEW word \in Word
  PROVE  FlattenSeq([i \in DOMAIN word |-> <<word[i]>>]) = word
<1> DEFINE n == Len(word)
           e == [i \in DOMAIN word |-> <<word[i]>>]
           T == {m \in Nat : m <= n => FlattenSeq(SubSeq(e, 1, m)) = SubSeq(word, 1, m)}
<1>0. /\ word \in Seq(Char) /\ n \in Nat /\ DOMAIN word = 1..n
      /\ \A i \in 1..n : word[i] \in Char
  BY DEF Word
<1>1. /\ e \in Seq(Seq(Char)) /\ Len(e) = n
      /\ \A i \in 1..n : e[i] = <<word[i]>>
  <2>1. \A i \in 1..n : <<word[i]>> \in Seq(Char)
    BY <1>0
  <2>2. e \in [1..n -> Seq(Char)]
    BY <1>0, <2>1
  <2> QED
    BY <1>0, <2>2
<1>2. SubSeq(e, 1, n) = e /\ SubSeq(word, 1, n) = word
  BY <1>0, <1>1, SubSeqFull
<1> HIDE DEF n, e
<1>3. 0 \in T
  <2>1. SubSeq(word, 1, 0) = <<>>
    OBVIOUS
  <2> QED
    BY <2>1, FlatStart
<1>4. ASSUME NEW m \in Nat, m \in T PROVE m + 1 \in T
  <2> SUFFICES ASSUME m + 1 <= n
               PROVE  FlattenSeq(SubSeq(e, 1, m + 1)) = SubSeq(word, 1, m + 1)
    OBVIOUS
  <2>1. m < n /\ m <= n /\ m + 1 \in 1..n
    BY <1>0
  <2>2. FlattenSeq(SubSeq(e, 1, m)) = SubSeq(word, 1, m)
    BY <1>4, <2>1
  <2>3. FlattenSeq(SubSeq(e, 1, m + 1)) = FlattenSeq(SubSeq(e, 1, m)) \o e[m + 1]
    BY <1>1, <2>1, FlatStep
  <2>4. /\ SubSeq(word, 1, m) \in Seq(Char) /\ word[m + 1] \in Char
        /\ SubSeq(word, 1, m + 1) = Append(SubSeq(word, 1, m), word[m + 1])
    BY <1>0, <2>1, OneMore DEF n
  <2>5. e[m + 1] = <<word[m + 1]>>
    BY <1>1, <2>1
  <2> DEFINE u == SubSeq(word, 1, m)
  <2> HIDE DEF u
  <2>6. u \in Seq(Char) /\ word[m + 1] \in Char => u \o <<word[m + 1]>> = Append(u, word[m + 1])
    OBVIOUS
  <2> QED
    BY <2>2, <2>3, <2>4, <2>5, <2>6 DEF u
<1>5. n \in T
  <2> HIDE DEF T
  <2>1. Nat \subseteq T
    BY <1>3, <1>4, InductionOnSet
  <2> QED
    BY <1>0, <2>1
<1>6. FlattenSeq(SubSeq(e, 1, n)) = SubSeq(word, 1, n)
  BY <1>0, <1>5
<1> QED
  BY <1>2, <1>6 DEF e

\* A word whose characters are spelled by themselves, or with a \ before them.
Escape(word, S) ==
  [i \in DOMAIN word |-> IF word[i] \in S THEN <<"\\", word[i]>> ELSE <<word[i]>>]

LEMMA EscapeType ==
  ASSUME NEW word \in Word, NEW S
  PROVE  /\ Escape(word, S) \in Seq(Word) /\ Len(Escape(word, S)) = Len(word)
         /\ \A i \in 1..Len(word) :
              /\ Escape(word, S)[i] = IF word[i] \in S THEN <<"\\", word[i]>> ELSE <<word[i]>>
              /\ word[i] \in Char /\ word[i] \in Range(word)
<1>1. /\ Len(word) \in Nat /\ DOMAIN word = 1..Len(word)
      /\ \A i \in 1..Len(word) : word[i] \in Char
  BY DEF Word
<1>2. "\\" \in Char
  BY DEF Char, Special
<1>3. \A i \in 1..Len(word) : <<"\\", word[i]>> \in Word /\ <<word[i]>> \in Word
  BY <1>1, <1>2, LeadsOne, LeadsTwo
<1>4. Escape(word, S) \in [1..Len(word) -> Word]
  BY <1>1, <1>3 DEF Escape
<1>5. Escape(word, S) \in Seq(Word) /\ Len(Escape(word, S)) = Len(word)
  BY <1>1, <1>4
<1> QED
  BY <1>1, <1>5 DEF Escape, Range

LEMMA EscapeLeads ==
  ASSUME NEW quote, NEW space, NEW ws, NEW word \in Word, NEW S,
         Range(word) \cap S = {} \/ quote \in {NoQuote, Double},
         \A sp, w : \A c \in Range(word) \ S :
           Scan(St(quote, sp, w, ws), c) = St(quote, "no", Append(w, c), ws)
  PROVE  /\ FlattenSeq(Escape(word, S)) \in Word
         /\ Leads(St(quote, space, <<>>, ws), FlattenSeq(Escape(word, S)),
                  St(quote, IF word = <<>> THEN space ELSE "no", word, ws))
<1> DEFINE e == Escape(word, S)
<1>1. /\ e \in Seq(Word) /\ Len(e) = Len(word)
      /\ \A i \in 1..Len(word) :
           /\ e[i] = IF word[i] \in S THEN <<"\\", word[i]>> ELSE <<word[i]>>
           /\ word[i] \in Char /\ word[i] \in Range(word)
  BY EscapeType
<1> HIDE DEF e
<1>2. ASSUME NEW k \in Nat, k < Len(word)
      PROVE  Leads(St(quote, IF k = 0 THEN space ELSE "no", SubSeq(word, 1, k), ws), e[k + 1],
                   St(quote, "no", SubSeq(word, 1, k + 1), ws))
  <2> DEFINE c == word[k + 1]
             w == SubSeq(word, 1, k)
             sp == IF k = 0 THEN space ELSE "no"
  <2>0. word \in Seq(Char)
    BY DEF Word
  <2>1. k + 1 \in 1..Len(word)
    <3>1. Len(word) \in Nat
      BY <2>0
    <3>2. k < Len(word)
      BY <1>2
    <3> QED
      BY <3>1, <3>2
  <2>2. c \in Range(word) /\ c \in Char
    BY <1>1, <2>1
  <2>3. e[k + 1] = IF c \in S THEN <<"\\", c>> ELSE <<c>>
    BY <1>1, <2>1
  <2>4. SubSeq(word, 1, k + 1) = Append(w, c)
    BY <1>2, <2>0, OneMore
  <2> HIDE DEF c, w, sp
  <2>5. CASE c \in S
    <3>1. quote \in {NoQuote, Double} /\ "\\" \in Char
      BY <2>2, <2>5 DEF Char, Special
    <3>2. Scan(Scan(St(quote, sp, w, ws), "\\"), c) = St(quote, "no", Append(w, c), ws)
      BY <3>1, ScanEscaped
    <3>3. Leads(St(quote, sp, w, ws), <<"\\", c>>, St(quote, "no", Append(w, c), ws))
      BY <2>2, <3>1, <3>2, LeadsTwo
    <3> QED
      BY <2>3, <2>4, <2>5, <3>3 DEF w, sp
  <2>6. CASE c \notin S
    <3>1. Scan(St(quote, sp, w, ws), c) = St(quote, "no", Append(w, c), ws)
      BY <2>2, <2>6
    <3>2. Leads(St(quote, sp, w, ws), <<c>>, St(quote, "no", Append(w, c), ws))
      BY <2>2, <3>1, LeadsOne
    <3> QED
      BY <2>3, <2>4, <2>6, <3>2 DEF w, sp
  <2> QED
    BY <2>5, <2>6
<1> QED
  BY <1>1, <1>2, BlocksLead DEF e

LEMMA BareLeads ==
  ASSUME NEW quote, NEW space, NEW ws, NEW word \in Word,
         \A sp, w : \A c \in Range(word) :
           Scan(St(quote, sp, w, ws), c) = St(quote, "no", Append(w, c), ws)
  PROVE  Leads(St(quote, space, <<>>, ws), word,
               St(quote, IF word = <<>> THEN space ELSE "no", word, ws))
<1>1. Escape(word, {}) = [i \in DOMAIN word |-> <<word[i]>>]
  BY DEF Escape
<1>2. FlattenSeq(Escape(word, {})) = word
  BY <1>1, FlatSingles
<1>3. Leads(St(quote, space, <<>>, ws), FlattenSeq(Escape(word, {})),
            St(quote, IF word = <<>> THEN space ELSE "no", word, ws))
  BY EscapeLeads
<1> QED
  BY <1>2, <1>3

\* A word that is spelled well: the scan takes it up, whatever it has taken up before.
LEMMA SpelledIs ==
  ASSUME NEW word, NEW style
  PROVE  /\ style = "bare" => Spelled(word, style) = word
         /\ style = "single" => Spelled(word, style) = <<"'">> \o word \o <<"'">>
         /\ style = "double" =>
              Spelled(word, style) = <<Double>> \o FlattenSeq(Escape(word, {Double, "\\"})) \o <<Double>>
         /\ style = "escaped" => Spelled(word, style) = FlattenSeq(Escape(word, Range(word)))
         /\ style = "open" => Spelled(word, style) = <<"'">> \o word
  BY DEF Double, Spelled, Escape

WordsOver(C) == [word : Seq(C), style : Style]
WordType == WordsOver(Char)

LEMMA SpelledLeads ==
  ASSUME NEW w \in WordType, WellSpelled(w), NEW space, NEW ws
  PROVE  /\ Spelled(w.word, w.style) \in Word
         /\ Leads(St(NoQuote, space, <<>>, ws), Spelled(w.word, w.style),
                  St(NoQuote, "no", w.word, ws))
<1> DEFINE word == w.word
           x == Spelled(word, w.style)
           a == St(NoQuote, space, <<>>, ws)
           b == St(NoQuote, "no", word, ws)
<1>0. word \in Word /\ w.style \in Style
  BY DEF WordType, WordsOver, Word
<1>1. /\ w.style # "open"
      /\ w.style \in {"bare", "escaped"} => word # <<>>
      /\ w.style = "bare"   => Range(word) \cap Special = {}
      /\ w.style = "single" => "'" \notin Range(word)
  BY DEF WellSpelled
<1>2. "'" \in Char /\ Double \in Char
  BY DEF Double, Char, Special
<1> HIDE DEF word
<1>3. CASE w.style = "bare"
  <2>1. \A sp, v : \A c \in Range(word) :
          Scan(St(NoQuote, sp, v, ws), c) = St(NoQuote, "no", Append(v, c), ws)
    BY <1>1, <1>3, ScanKeeps
  <2>2. Leads(a, word, b)
    BY <1>0, <1>1, <1>3, <2>1, BareLeads
  <2> QED
    BY <1>0, <1>3, <2>2, SpelledIs DEF word
<1>4. CASE w.style = "escaped"
  <2> DEFINE y == FlattenSeq(Escape(word, Range(word)))
  <2>1. y \in Word /\ Leads(a, y, b)
    BY <1>0, <1>1, <1>4, EscapeLeads
  <2> QED
    BY <1>4, <2>1, SpelledIs DEF word
<1>5. CASE w.style = "single"
  <2> DEFINE s == St("'", space, <<>>, ws)
             t == St("'", IF word = <<>> THEN space ELSE "no", word, ws)
  <2>1. \A sp, v : \A c \in Range(word) :
          Scan(St("'", sp, v, ws), c) = St("'", "no", Append(v, c), ws)
    BY <1>1, <1>5, ScanKeeps
  <2>2. Leads(s, word, t)
    BY <1>0, <2>1, BareLeads
  <2>3. Scan(a, "'") = s /\ Scan(t, "'") = b
    BY ScanQuote
  <2> HIDE DEF a, b, s, t
  <2>4. <<"'">> \in Word /\ Leads(a, <<"'">>, s) /\ Leads(t, <<"'">>, b)
    BY <1>2, <2>3, LeadsOne
  <2>5. <<"'">> \o word \in Word /\ Leads(a, <<"'">> \o word, t)
    <3>1. <<"'">> \o word \in Word
      BY <1>0, <2>4 DEF Word
    <3> QED
      BY <1>0, <2>2, <2>4, <3>1, LeadsThrough
  <2>6. <<"'">> \o word \o <<"'">> \in Word /\ Leads(a, <<"'">> \o word \o <<"'">>, b)
    <3>1. <<"'">> \o word \o <<"'">> \in Word
      BY <1>0, <2>4, <2>5 DEF Word
    <3> QED
      BY <2>4, <2>5, <3>1, LeadsThrough
  <2> QED
    BY <1>5, <2>6, SpelledIs DEF word, a, b
<1>6. CASE w.style = "double"
  <2> DEFINE s == St(Double, "no", <<>>, ws)
             t == St(Double, "no", word, ws)
             q == <<Double>>
             y == FlattenSeq(Escape(word, {Double, "\\"}))
  <2>1. \A sp, v : \A c \in Range(word) \ {Double, "\\"} :
          Scan(St(Double, sp, v, ws), c) = St(Double, "no", Append(v, c), ws)
    BY ScanKeeps
  <2>2. y \in Word /\ Leads(s, y, t)
    <3>1. (IF word = <<>> THEN "no" ELSE "no") = "no"
      OBVIOUS
    <3>2. Double \in {NoQuote, Double}
      OBVIOUS
    <3> QED
      BY <1>0, <2>1, <3>1, <3>2, EscapeLeads
  <2>3. Scan(a, Double) = s /\ Scan(t, Double) = b
    BY ScanQuote
  <2> HIDE DEF a, b, s, t, y
  <2>4. q \in Word /\ Leads(a, q, s) /\ Leads(t, q, b)
    BY <1>2, <2>3, LeadsOne
  <2> HIDE DEF q
  <2>5. q \o y \in Word /\ Leads(a, q \o y, t)
    <3>1. q \o y \in Word
      BY <2>2, <2>4 DEF Word
    <3> QED
      BY <2>2, <2>4, <3>1, LeadsThrough
  <2>6. q \o y \o q \in Word /\ Leads(a, q \o y \o q, b)
    <3>1. q \o y \o q \in Word
      BY <2>4, <2>5 DEF Word
    <3> QED
      BY <2>4, <2>5, <3>1, LeadsThrough
  <2> QED
    BY <1>6, <2>6, SpelledIs DEF word, a, b, q, y
<1> QED
  BY <1>0, <1>1, <1>3, <1>4, <1>5, <1>6 DEF Style

-------------------------------------------------------------------------------
(***************************************************************************)
(* The text of a line.                                                     *)
(***************************************************************************)
Space == " "

Blocks(line) ==
  [i \in DOMAIN line |-> IF i = 1 THEN Spelled(line[i].word, line[i].style)
                                  ELSE <<Space>> \o Spelled(line[i].word, line[i].style)]
WordsIn(line) == [i \in DOMAIN line |-> line[i].word]
AllSpelled(line) == \A i \in DOMAIN line : WellSpelled(line[i])

LEMMA LineTextIs == \A line : LineText(line) = FlattenSeq(Blocks(line))
  BY DEF LineText, Blocks, Space

\* A word is spelled with its own characters, quotes and \.
LEMMA SpelledType ==
  ASSUME NEW C, "'" \in C, "\\" \in C, Double \in C, NEW word \in Seq(C), NEW style \in Style
  PROVE  Spelled(word, style) \in Seq(C)
<1>1. \A S : FlattenSeq(Escape(word, S)) \in Seq(C)
  <2> TAKE S
  <2>1. Len(word) \in Nat /\ DOMAIN word = 1..Len(word) /\ \A i \in 1..Len(word) : word[i] \in C
    OBVIOUS
  <2>2. \A c \in C : <<"\\", c>> \in Seq(C) /\ <<c>> \in Seq(C)
    OBVIOUS
  <2>3. Escape(word, S) \in [1..Len(word) -> Seq(C)]
    BY <2>1, <2>2 DEF Escape
  <2>4. Escape(word, S) \in Seq(Seq(C))
    BY <2>1, <2>3
  <2>5. <<>> \in Seq(C)
    OBVIOUS
  <2> QED
    BY <2>4, <2>5, FlatAppend
<1>2. <<"'">> \in Seq(C) /\ <<Double>> \in Seq(C)
  OBVIOUS
<1>3. ASSUME NEW x \in Seq(C), NEW y \in Seq(C) PROVE x \o y \in Seq(C)
  OBVIOUS
<1>4. /\ <<"'">> \o word \in Seq(C) /\ <<"'">> \o word \o <<"'">> \in Seq(C)
      /\ \A S : <<Double>> \o FlattenSeq(Escape(word, S)) \o <<Double>> \in Seq(C)
  BY <1>1, <1>2, <1>3
<1>5. style \in {"bare", "single", "double", "escaped", "open"}
  BY DEF Style
<1> QED
  BY <1>1, <1>4, <1>5, SpelledIs

LEMMA BlocksType ==
  ASSUME NEW C, "'" \in C, "\\" \in C, Double \in C, Space \in C,
         NEW line \in Seq(WordsOver(C))
  PROVE  Blocks(line) \in Seq(Seq(C)) /\ Len(Blocks(line)) = Len(line)
<1>1. /\ Len(line) \in Nat /\ DOMAIN line = 1..Len(line)
      /\ \A i \in 1..Len(line) : line[i].word \in Seq(C) /\ line[i].style \in Style
  <2>1. /\ Len(line) \in Nat /\ DOMAIN line = 1..Len(line)
        /\ \A i \in 1..Len(line) : line[i] \in WordsOver(C)
    OBVIOUS
  <2>2. \A w \in WordsOver(C) : w.word \in Seq(C) /\ w.style \in Style
    BY DEF WordsOver
  <2> QED
    BY <2>1, <2>2
<1>2. <<Space>> \in Seq(C)
  OBVIOUS
<1>3. \A x \in Seq(C) : <<Space>> \o x \in Seq(C)
  BY <1>2
<1>4. \A i \in 1..Len(line) : Spelled(line[i].word, line[i].style) \in Seq(C)
  BY <1>1, SpelledType
<1>5. Blocks(line) \in [1..Len(line) -> Seq(C)]
  BY <1>1, <1>3, <1>4 DEF Blocks
<1>6. Len(line) \in Nat
  BY <1>1
<1> QED
  BY <1>5, <1>6

LEMMA LineTextType ==
  ASSUME NEW C, "'" \in C, "\\" \in C, Double \in C, Space \in C,
         NEW line \in Seq(WordsOver(C))
  PROVE  LineText(line) \in Seq(C)
<1>1. Blocks(line) \in Seq(Seq(C)) /\ <<>> \in Seq(C)
  BY BlocksType
<1> QED
  BY <1>1, LineTextIs, FlatAppend

\* A line that is spelled well: the scan takes up its words, the last of which
\* is not ended yet.
LEMMA LineLeads ==
  ASSUME NEW line \in Seq(WordType), line # <<>>, AllSpelled(line)
  PROVE  /\ LineText(line) \in Word
         /\ Leads(Begin, LineText(line),
                  St(NoQuote, "no", line[Len(line)].word, SubSeq(WordsIn(line), 1, Len(line) - 1)))
<1> DEFINE n == Len(line)
           e == Blocks(line)
           wd == WordsIn(line)
           F(m) == FlattenSeq(SubSeq(e, 1, m))
           b(m) == St(NoQuote, "no", line[m].word, SubSeq(wd, 1, m - 1))
           T == {m \in Nat : m + 1 <= n => F(m + 1) \in Word /\ Leads(Begin, F(m + 1), b(m + 1))}
<1>0. /\ n \in Nat /\ n >= 1 /\ DOMAIN line = 1..n
      /\ \A i \in 1..n : line[i] \in WordType /\ line[i].word \in Word
  <2>1. n \in Nat /\ n >= 1 /\ DOMAIN line = 1..n /\ \A i \in 1..n : line[i] \in WordType
    OBVIOUS
  <2>2. \A w \in WordType : w.word \in Word
    BY DEF WordType, WordsOver, Word
  <2> QED
    BY <2>1, <2>2
<1>1. /\ "'" \in Char /\ "\\" \in Char /\ Double \in Char /\ Space \in Char
  BY DEF Char, Special, Double, Space, Blank
<1>2. e \in Seq(Seq(Char)) /\ e \in Seq(Word) /\ Len(e) = n
  BY <1>1, BlocksType DEF WordType, Word
<1>3. /\ e[1] = Spelled(line[1].word, line[1].style)
      /\ \A i \in 2..n : e[i] = <<Space>> \o Spelled(line[i].word, line[i].style)
  BY <1>0 DEF Blocks
<1>4. wd \in Seq(Word) /\ Len(wd) = n /\ \A i \in 1..n : wd[i] = line[i].word
  <2>1. wd \in [1..n -> Word]
    BY <1>0 DEF WordsIn
  <2> QED
    BY <1>0, <2>1 DEF WordsIn
<1>5. \A i \in 1..n : WellSpelled(line[i])
  BY <1>0 DEF AllSpelled
<1> HIDE DEF n, e, wd
<1>6. 0 \in T
  <2>1. 0 + 1 = 1 /\ 0 < Len(e) /\ 1 \in 1..n /\ 1 - 1 = 0
    BY <1>0, <1>2
  <2>2. F(1) = F(0) \o e[1] /\ F(0) = <<>> /\ e[1] \in Seq(Char)
    BY <1>2, <2>1, FlatStep, FlatStart
  <2>3. F(1) = e[1] /\ e[1] \in Word
    <3>1. \A x \in Seq(Char) : <<>> \o x = x
      OBVIOUS
    <3> HIDE DEF F
    <3>2. F(1) = e[1]
      BY <2>2, <3>1
    <3> QED
      BY <2>2, <3>2 DEF Word
  <2>4. SubSeq(wd, 1, 0) = <<>>
    OBVIOUS
  <2>5. Begin = St(NoQuote, "start", <<>>, <<>>)
    BY DEF Begin, St, NoQuote
  <2>6. Leads(Begin, e[1], b(1))
    BY <1>0, <1>3, <1>5, <2>1, <2>4, <2>5, SpelledLeads
  <2> HIDE DEF F, b
  <2> QED
    BY <2>1, <2>3, <2>6
<1>7. ASSUME NEW m \in Nat, m \in T PROVE m + 1 \in T
  <2> SUFFICES ASSUME m + 1 + 1 <= n
               PROVE  F(m + 1 + 1) \in Word /\ Leads(Begin, F(m + 1 + 1), b(m + 1 + 1))
    <3> HIDE DEF F, b
    <3> QED
      OBVIOUS
  <2> DEFINE i == m + 1
             w == line[i + 1]
             x == Spelled(w.word, w.style)
             c == St(NoQuote, Space, <<>>, SubSeq(wd, 1, i))
  <2>1. /\ i \in Nat /\ i < n /\ i \in 1..n /\ i + 1 \in 2..n /\ i + 1 \in 1..n /\ i - 1 \in Nat
        /\ i - 1 < n /\ i - 1 + 1 = i /\ i + 1 - 1 = i
    BY <1>0
  <2>2. F(i) \in Word /\ Leads(Begin, F(i), b(i))
    <3> HIDE DEF F, b
    <3> QED
      BY <1>7, <2>1
  <2> HIDE DEF i
  <2>3. e[i + 1] = <<Space>> \o x /\ e[i + 1] \in Word
    BY <1>2, <1>3, <2>1
  <2>4. F(i + 1) = F(i) \o e[i + 1] /\ F(i + 1) \in Word
    <3>1. F(i) \in Seq(Char) /\ e[i + 1] \in Seq(Char) /\ F(i + 1) = F(i) \o e[i + 1]
      BY <1>2, <2>1, FlatStep
    <3> HIDE DEF F
    <3>2. F(i) \o e[i + 1] \in Seq(Char)
      BY <3>1
    <3> QED
      BY <3>1, <3>2 DEF Word
  <2>5. SubSeq(wd, 1, i) = Append(SubSeq(wd, 1, i - 1), line[i].word)
    <3>1. SubSeq(wd, 1, i - 1 + 1) = Append(SubSeq(wd, 1, i - 1), wd[i - 1 + 1])
      BY <1>4, <2>1, OneMore
    <3> QED
      BY <1>4, <2>1, <3>1
  <2>6. Space \in Blank \cup {Newline}
    BY DEF Space, Blank
  <2>7. Scan(b(i), Space) = c
    <3>1. Scan(b(i), Space)
            = St(NoQuote, Space, <<>>, Append(SubSeq(wd, 1, i - 1), line[i].word))
      BY <2>6, ScanBlank
    <3> QED
      BY <2>5, <3>1
  <2>8. x \in Word /\ Leads(c, x, b(i + 1))
    <3>1. w \in WordType /\ WellSpelled(w)
      BY <1>0, <1>5, <2>1
    <3> QED
      BY <2>1, <3>1, SpelledLeads
  <2> HIDE DEF F, b, c, x
  <2>9. <<Space>> \in Word /\ Leads(b(i), <<Space>>, c)
    BY <1>1, <2>7, LeadsOne
  <2>10. Leads(b(i), e[i + 1], b(i + 1))
    BY <2>3, <2>8, <2>9, LeadsThrough
  <2>11. Leads(Begin, F(i + 1), b(i + 1))
    BY <2>2, <2>3, <2>4, <2>10, LeadsThrough
  <2> QED
    BY <2>4, <2>11 DEF i
<1>8. F(n) \in Word /\ Leads(Begin, F(n), b(n))
  <2> HIDE DEF F, b
  <2>1. Nat \subseteq T
    <3> HIDE DEF T
    <3> QED
      BY <1>6, <1>7, InductionOnSet
  <2>2. n - 1 \in Nat /\ n - 1 + 1 = n
    BY <1>0
  <2> QED
    BY <2>1, <2>2
<1>9. F(n) = LineText(line)
  <2>1. SubSeq(e, 1, n) = e
    BY <1>2, SubSeqFull
  <2> QED
    BY <2>1, LineTextIs DEF e
<1> HIDE DEF F
<1> QED
  BY <1>8, <1>9 DEF n, wd

\* One character more.
LEMMA ScannedOn ==
  ASSUME NEW x \in Word, NEW b, Leads(Begin, x, b), NEW c \in Char
  PROVE  /\ Append(x, c) \in Word /\ Leads(Begin, Append(x, c), Scan(b, c))
         /\ Scanned(Append(x, c)) = Scan(b, c)
<1>1. x \in Seq(Char)
  BY DEF Word
<1>2. Append(x, c) \in Word
  <2>1. Append(x, c) \in Seq(Char)
    BY <1>1, FrontOfAppend
  <2> QED
    BY <2>1 DEF Word
<1>3. Leads(Begin, Append(x, c), Scan(b, c))
  BY LeadsOn
<1> QED
  BY <1>2, <1>3, LeadsScanned

LEMMA NoWords == LineText(<<>>) = <<>> /\ WordsIn(<<>>) = <<>>
<1>1. DOMAIN <<>> = {} /\ DOMAIN <<>> = 1..0
  OBVIOUS
<1>2. Blocks(<<>>) = [i \in 1..0 |-> Spelled(<<>>[i].word, <<>>[i].style)]
  BY <1>1 DEF Blocks
<1>3. Blocks(<<>>) = <<>> /\ WordsIn(<<>>) = <<>>
  BY <1>2 DEF WordsIn
<1> QED
  BY <1>3, LineTextIs DEF FlattenSeq

\* So the scan of a line finds its words, with a newline behind it or without: the
\* last of them is ended by the blank behind it, if there is one, or by the newline.
LEMMA LineScans ==
  ASSUME NEW line \in Seq(WordType), AllSpelled(line), NEW trail \in Trail
  PROVE  LET z == LineText(line) \o trail
             s == Scanned(z)
             t == Scanned(Append(z, Newline))
         IN  /\ s.quote = NoQuote /\ WordsOf(s) = WordsIn(line) /\ s.space # Newline
             /\ t.quote = NoQuote /\ WordsOf(t) = WordsIn(line)
             /\ t.space = Newline <=> line # <<>> /\ trail = <<>>
<1> DEFINE n == Len(line)
           x == LineText(line)
           wd == WordsIn(line)
           front == SubSeq(wd, 1, n - 1)
           last == line[n].word
           open == St(NoQuote, "no", last, front)
           ended(c) == St(NoQuote, c, <<>>, wd)
           z == x \o trail
           s == Scanned(z)
           t == Scanned(Append(z, Newline))
           Good == /\ s.quote = NoQuote /\ WordsOf(s) = wd /\ s.space # Newline
                   /\ t.quote = NoQuote /\ WordsOf(t) = wd
                   /\ t.space = Newline <=> line # <<>> /\ trail = <<>>
<1> SUFFICES Good
  OBVIOUS
<1>1. Newline \in Char /\ Newline \in Blank \cup {Newline} /\ Blank \subseteq Char
  BY DEF Char, Special
<1>2. Newline \notin Blank /\ "no" \notin Blank \cup {Newline} /\ "start" \notin Blank \cup {Newline}
      /\ "start" # "no"
  BY DEF Blank, Newline
<1>3. PICK tail \in Blank \cup {NoQuote} : trail = IF tail = NoQuote THEN <<>> ELSE <<tail>>
  BY DEF Trail, NoQuote, Blank
<1>4. Begin = St(NoQuote, "start", <<>>, <<>>)
  BY DEF Begin, St, NoQuote
<1>5. ASSUME x \in Word PROVE /\ trail = <<>> => z = x
                              /\ trail # <<>> => tail \in Blank /\ z = Append(x, tail)
  <2>1. x \in Seq(Char) /\ \A b \in Blank : <<b>> # <<>> /\ b \in Char
    BY <1>1, <1>5 DEF Word
  <2> HIDE DEF x
  <2>2. trail = <<>> => x \o trail = x
    BY <2>1, ConcatEmptySeq
  <2>3. tail \in Blank => Append(x, tail) = x \o <<tail>>
    BY <2>1, AppendIsConcat
  <2> QED
    BY <1>3, <2>1, <2>2, <2>3
<1> HIDE DEF x, z
<1>6. /\ \A c : (ended(c)).quote = NoQuote /\ (ended(c)).space = c
      /\ \A c \in Blank \cup {Newline, "start"} : WordsOf(ended(c)) = wd
      /\ \A c \in Blank \cup {Newline} : \A d \in Blank \cup {Newline, "start"} :
           Scan(ended(d), c) = ended(d)
  <2>1. \A d \in Blank \cup {Newline, "start"} : d # "no"
    BY <1>2
  <2>2. \A c : (ended(c)).quote = NoQuote /\ (ended(c)).space = c /\ (ended(c)).words = wd
    BY DEF St
  <2> HIDE DEF wd
  <2>3. ASSUME NEW c \in Blank \cup {Newline}, NEW d \in Blank \cup {Newline, "start"}
        PROVE  Scan(ended(d), c) = ended(d)
    BY <2>1, ScanBlank
  <2> HIDE DEF ended
  <2> QED
    BY <2>1, <2>2, <2>3 DEF WordsOf
<1>7. CASE line # <<>>
  <2>1. x \in Word /\ Leads(Begin, x, open)
    BY <1>7, LineLeads DEF x
  <2>2. Append(front, last) = wd
    <3>1. n \in Nat /\ n >= 1 /\ DOMAIN line = 1..n /\ \A i \in 1..n : line[i] \in WordType
      BY <1>7
    <3>2. \A w \in WordType : w.word \in Word
      BY DEF WordType, WordsOver, Word
    <3>3. wd \in [1..n -> Word] /\ \A i \in 1..n : wd[i] = line[i].word
      BY <3>1, <3>2 DEF WordsIn
    <3> HIDE DEF wd, n
    <3>4. wd \in Seq(Word) /\ Len(wd) = n
      BY <3>1, <3>3
    <3>5. n - 1 \in Nat /\ n - 1 < n /\ n - 1 + 1 = n /\ n \in 1..n
      BY <3>1
    <3>6. SubSeq(wd, 1, n - 1 + 1) = Append(front, wd[n - 1 + 1])
      BY <3>4, <3>5, OneMore
    <3>7. SubSeq(wd, 1, n) = wd
      BY <3>4, SubSeqFull
    <3> QED
      BY <3>3, <3>5, <3>6, <3>7
  <2>3. open.quote = NoQuote /\ open.space = "no" /\ WordsOf(open) = wd
    <3> HIDE DEF wd, front, last
    <3> QED
      BY <2>2 DEF St, WordsOf
  <2>4. ASSUME NEW c \in Blank \cup {Newline} PROVE Scan(open, c) = ended(c)
    <3> HIDE DEF wd, front, last
    <3> QED
      BY <2>2, ScanBlank
  <2> HIDE DEF wd, open, ended
  <2>5. CASE trail = <<>>
    <3>1. z = x /\ Scanned(x) = open /\ Scanned(Append(x, Newline)) = ended(Newline)
      BY <1>1, <1>5, <2>1, <2>4, <2>5, ScannedOn, LeadsScanned
    <3> QED
      BY <1>2, <1>6, <1>7, <2>3, <2>5, <3>1
  <2>6. CASE trail # <<>>
    <3>1. tail \in Blank /\ z = Append(x, tail) /\ tail \in Char
      BY <1>1, <1>5, <2>1, <2>6
    <3>2. z \in Word /\ Leads(Begin, z, ended(tail)) /\ Scanned(z) = ended(tail)
      BY <2>1, <2>4, <3>1, ScannedOn
    <3>3. Scanned(Append(z, Newline)) = ended(tail)
      <4>1. Scan(ended(tail), Newline) = ended(tail)
        BY <1>1, <1>6, <3>1
      <4>2. Scanned(Append(z, Newline)) = Scan(ended(tail), Newline)
        BY <1>1, <3>2, ScannedOn
      <4> QED
        BY <4>1, <4>2
    <3>4. /\ (ended(tail)).quote = NoQuote /\ (ended(tail)).space = tail
          /\ WordsOf(ended(tail)) = wd /\ tail # Newline
      BY <1>2, <1>6, <3>1
    <3> QED
      BY <2>6, <3>2, <3>3, <3>4
  <2> QED
    BY <2>5, <2>6
<1>8. CASE line = <<>>
  <2>1. x = <<>> /\ wd = <<>> /\ <<>> \in Word
    BY <1>8, NoWords DEF x, Word
  <2>2. x \in Word /\ Leads(Begin, x, Begin) /\ Begin = ended("start")
    BY <1>4, <2>1, LeadsNowhere
  <2> HIDE DEF wd, ended
  <2>3. ASSUME NEW c \in Blank \cup {Newline} PROVE Scan(Begin, c) = Begin
    BY <1>6, <2>2
  <2>4. z \in Word /\ Leads(Begin, z, Begin)
    <3>1. CASE trail = <<>>
      BY <1>5, <2>2, <3>1
    <3>2. CASE trail # <<>>
      <4>1. tail \in Blank /\ z = Append(x, tail) /\ tail \in Char
        BY <1>1, <1>5, <2>2, <3>2
      <4>2. z \in Word /\ Leads(Begin, z, Scan(Begin, tail))
        BY <2>2, <4>1, ScannedOn
      <4>3. Scan(Begin, tail) = Begin
        BY <2>3, <4>1
      <4> QED
        BY <4>2, <4>3
    <3> QED
      BY <3>1, <3>2
  <2>5. Scanned(z) = Begin /\ Scanned(Append(z, Newline)) = Begin
    BY <1>1, <2>3, <2>4, ScannedOn, LeadsScanned
  <2>6. Begin.quote = NoQuote /\ Begin.space = "start" /\ WordsOf(Begin) = wd
    BY <1>6, <2>2
  <2> QED
    BY <1>2, <1>8, <2>5, <2>6
<1> QED
  BY <1>7, <1>8

\* There is no newline in it,
LEMMA NoNewline ==
  ASSUME NEW line \in Seq(WordType), AllSpelled(line)
  PROVE  LineText(line) \in Seq(Char \ {Newline})
<1> DEFINE C == Char \ {Newline}
<1>1. "'" \in C /\ "\\" \in C /\ Double \in C /\ Space \in C
  BY DEF Char, Special, Double, Space, Blank, Newline
<1> HIDE DEF C
<1>2. Len(line) \in Nat /\ DOMAIN line = 1..Len(line) /\ \A i \in 1..Len(line) : line[i] \in WordType
  OBVIOUS
<1>3. ASSUME NEW i \in 1..Len(line) PROVE line[i] \in WordsOver(C)
  <2> DEFINE w == line[i]
  <2>1. w \in WordType /\ WellSpelled(w)
    BY <1>2 DEF AllSpelled
  <2> HIDE DEF w
  <2>2. w.word \in Seq(Char) /\ w.style \in Style /\ w = [word |-> w.word, style |-> w.style]
    BY <2>1 DEF WordType, WordsOver
  <2>3. Newline \notin Range(w.word)
    BY <2>1 DEF WellSpelled
  <2>4. w.word \in Seq(C)
    <3> DEFINE v == w.word
    <3>1. v \in Seq(Char) /\ Newline \notin Range(v)
      BY <2>2, <2>3
    <3> HIDE DEF v
    <3>2. Len(v) \in Nat /\ DOMAIN v = 1..Len(v) /\ v = [j \in 1..Len(v) |-> v[j]]
      BY <3>1
    <3>3. \A j \in 1..Len(v) : v[j] \in C
      BY <3>1, <3>2 DEF C, Range
    <3>4. v \in [1..Len(v) -> C]
      BY <3>2, <3>3
    <3>5. v \in Seq(C)
      BY <3>2, <3>4
    <3> QED
      BY <3>5 DEF v
  <2>5. w \in WordsOver(C)
    BY <2>2, <2>4 DEF WordsOver
  <2> QED
    BY <2>5 DEF w
<1>4. line \in Seq(WordsOver(C))
  <2> DEFINE R == WordsOver(C)
  <2> HIDE DEF R
  <2>1. \A i \in 1..Len(line) : line[i] \in R
    BY <1>3 DEF R
  <2>2. line = [i \in 1..Len(line) |-> line[i]]
    OBVIOUS
  <2>3. line \in [1..Len(line) -> R]
    BY <2>1, <2>2
  <2>4. line \in Seq(R)
    BY <1>2, <2>3
  <2> QED
    BY <2>4 DEF R
<1>5. LineText(line) \in Seq(C)
  BY <1>1, <1>4, LineTextType
<1> QED
  BY <1>5 DEF C

\* and it does not start with a blank, unless there is no word in it.
LEMMA SpelledStarts ==
  ASSUME NEW w \in WordType, WellSpelled(w)
  PROVE  Spelled(w.word, w.style) # <<>> /\ Spelled(w.word, w.style)[1] \notin Blank
<1> DEFINE word == w.word
           x == Spelled(word, w.style)
<1>0. word \in Seq(Char) /\ w.style \in Style
  BY DEF WordType, WordsOver
<1>1. /\ w.style # "open"
      /\ w.style \in {"bare", "escaped"} => word # <<>>
      /\ w.style = "bare"   => Range(word) \cap Special = {}
  BY DEF WellSpelled
<1>2. "'" \notin Blank /\ "\\" \notin Blank /\ Double \notin Blank /\ Blank \subseteq Special
  BY DEF Blank, Special, Double
<1>3. /\ "'" \in Char /\ "\\" \in Char /\ Double \in Char
  BY DEF Char, Special, Double
<1> HIDE DEF word
<1>4. ASSUME NEW c \in Char, NEW y \in Seq(Char)
      PROVE  <<c>> \o y # <<>> /\ (<<c>> \o y)[1] = c
  OBVIOUS
<1>5. CASE w.style = "bare"
  <2>1. Len(word) \in Nat /\ DOMAIN word = 1..Len(word) /\ 1 \in 1..Len(word)
    BY <1>0, <1>1, <1>5
  <2>2. word[1] \in Range(word)
    BY <2>1 DEF Range
  <2> QED
    BY <1>1, <1>2, <1>5, <2>2, SpelledIs DEF word
<1>6. CASE w.style = "escaped"
  <2> DEFINE e == Escape(word, Range(word))
  <2>1. /\ e \in Seq(Seq(Char)) /\ Len(e) = Len(word)
        /\ \A i \in 1..Len(word) : e[i] = <<"\\", word[i]>>
    <3>1. word \in Word
      BY <1>0 DEF Word
    <3>2. /\ e \in Seq(Word) /\ Len(e) = Len(word)
          /\ \A i \in 1..Len(word) : e[i] = <<"\\", word[i]>>
      BY <3>1, EscapeType
    <3> HIDE DEF e
    <3> QED
      BY <3>2 DEF Word
  <2> HIDE DEF e
  <2>2. Len(word) \in Nat /\ 1 \in 1..Len(word) /\ 0 < Len(e) /\ 0 + 1 = 1
    BY <1>0, <1>1, <1>6, <2>1
  <2>3. e[1] = <<"\\", word[1]>> /\ Len(e[1]) = 2 /\ e[1][1] = "\\"
    <3>1. e[1] = <<"\\", word[1]>>
      BY <2>1, <2>2
    <3> QED
      BY <3>1
  <2>4. Len(FlattenSeq(SubSeq(e, 1, 0))) = 0
    BY FlatStart
  <2>5. 2 <= Len(FlattenSeq(e)) /\ FlattenSeq(e)[1] = e[1][1]
    <3>1. /\ 0 + Len(e[0 + 1]) <= Len(FlattenSeq(e))
          /\ \A i \in 1..Len(e[0 + 1]) : FlattenSeq(e)[0 + i] = e[0 + 1][i]
      BY <2>1, <2>2, <2>4, FlatBlock
    <3>2. 1 \in 1..2 /\ 0 + 2 = 2
      OBVIOUS
    <3> QED
      BY <2>2, <2>3, <3>1, <3>2
  <2>6. FlattenSeq(e) # <<>>
    BY <2>5
  <2>7. x = FlattenSeq(e)
    BY <1>6, SpelledIs DEF e
  <2> QED
    BY <1>2, <2>3, <2>5, <2>6, <2>7 DEF word
<1>7. CASE w.style = "single"
  <2>1. x = <<"'">> \o word \o <<"'">>
    BY <1>7, SpelledIs
  <2>2. <<"'">> \o word \in Seq(Char) /\ (<<"'">> \o word)[1] = "'" /\ Len(<<"'">> \o word) > 0
    BY <1>0, <1>3
  <2> DEFINE y == <<"'">> \o word
  <2> HIDE DEF y
  <2>3. y \in Seq(Char) /\ y[1] = "'" /\ Len(y) > 0
    BY <2>2 DEF y
  <2>4. y \o <<"'">> # <<>> /\ (y \o <<"'">>)[1] = "'"
    BY <1>3, <2>3
  <2> QED
    BY <1>2, <2>1, <2>4 DEF y, word
<1>8. CASE w.style = "double"
  <2> DEFINE f == FlattenSeq(Escape(word, {Double, "\\"}))
             y == <<Double>> \o f
  <2>1. x = y \o <<Double>>
    BY <1>8, SpelledIs
  <2>2. f \in Seq(Char)
    <3>1. word \in Word
      BY <1>0 DEF Word
    <3>2. Escape(word, {Double, "\\"}) \in Seq(Word) /\ <<>> \in Seq(Char)
      BY <3>1, EscapeType
    <3> QED
      BY <3>2, FlatAppend DEF Word
  <2> HIDE DEF f
  <2>3. y \in Seq(Char) /\ y[1] = Double /\ Len(y) > 0
    BY <1>3, <2>2
  <2> HIDE DEF y
  <2>4. y \o <<Double>> # <<>> /\ (y \o <<Double>>)[1] = Double
    BY <1>3, <2>3
  <2> QED
    BY <1>2, <2>1, <2>4 DEF word
<1> QED
  BY <1>0, <1>1, <1>5, <1>6, <1>7, <1>8 DEF Style

LEMMA LineStarts ==
  ASSUME NEW line \in Seq(WordType), line # <<>>, AllSpelled(line)
  PROVE  LineText(line) # <<>> /\ LineText(line)[1] \notin Blank
<1> DEFINE e == Blocks(line)
           w == line[1]
           x == Spelled(w.word, w.style)
<1>0. Len(line) \in Nat /\ Len(line) >= 1 /\ DOMAIN line = 1..Len(line) /\ w \in WordType
  OBVIOUS
<1>1. /\ "'" \in Char /\ "\\" \in Char /\ Double \in Char /\ Space \in Char
  BY DEF Char, Special, Double, Space, Blank
<1>2. e \in Seq(Seq(Char)) /\ Len(e) = Len(line)
  BY <1>1, BlocksType DEF WordType
<1>3. e[1] = x
  BY <1>0 DEF Blocks
<1>4. WellSpelled(w)
  BY <1>0 DEF AllSpelled
<1>5. x # <<>> /\ x[1] \notin Blank
  BY <1>0, <1>4, SpelledStarts
<1> HIDE DEF e, x
<1>6. Len(FlattenSeq(SubSeq(e, 1, 0))) = 0 /\ 0 < Len(e) /\ 0 + 1 = 1
  BY <1>0, <1>2, FlatStart
<1>7. /\ 0 + Len(e[0 + 1]) <= Len(FlattenSeq(e))
      /\ \A i \in 1..Len(e[0 + 1]) : FlattenSeq(e)[0 + i] = e[0 + 1][i]
  BY <1>2, <1>6, FlatBlock
<1>8. e[1] \in Seq(Char) /\ Len(e[1]) >= 1
  <2>1. e[1] \in Seq(Char)
    BY <1>0, <1>2
  <2> QED
    BY <1>3, <1>5, <2>1
<1>9. Len(FlattenSeq(e)) >= 1 /\ FlattenSeq(e)[1] = e[1][1]
  <2>1. FlattenSeq(e) \in Seq(Char)
    BY <1>2, FlatAppend
  <2>2. Len(e[1]) \in Nat /\ Len(FlattenSeq(e)) \in Nat /\ 1 \in 1..Len(e[1]) /\ 0 + 1 = 1
    BY <1>8, <2>1
  <2> QED
    BY <1>7, <1>8, <2>2
<1>10. FlattenSeq(e) # <<>>
  BY <1>9
<1> QED
  BY <1>3, <1>5, <1>9, <1>10, LineTextIs DEF e

-------------------------------------------------------------------------------
(***************************************************************************)
(* The inductive invariant.  Its first part is the types and what is       *)
(* empty at which place.                                                   *)
(***************************************************************************)
Runs  == [args : Seq(Word), outcome : Outcome]
Place == {"read", "add", "run", "last_run", "exited"}

TypeInv ==
  /\ setting \in Settings /\ input \in Word /\ at \in Place
  /\ words \in Seq(Word) /\ args \in Seq(Word)
  /\ after \in {"read", "last", "unmatched"}
  /\ used_args \in Nat /\ used_lines \in Nat /\ ret \in {0, 1, 123, 126, 127}
  /\ ran \in Seq(Runs)
  /\ at \in {"read", "last_run"} => words = <<>>
  /\ ret \in {1, 126, 127} => Exited

\* Without -L, used_args is the number of arguments behind those of xargs.
Counted == ~Given("max_lines") => used_args = Len(args)

\* With -n, the command is run as soon as it has as many arguments.
N == IF setting.max_args < 1 THEN 1 ELSE setting.max_args
Batches ==
  setting.flags = {"max_args"} =>
    /\ used_args <= N
    /\ at \in {"read", "add", "last_run"} => used_args < N
    /\ at = "run" => used_args = N
    /\ \A i \in DOMAIN ran : /\ Len(ran[i].args) <= N
                             /\ i < Len(ran) \/ ~Exited => Len(ran[i].args) = N

\* As long as xargs goes on, no command was missing, and ret tells whether one failed.
Statuses ==
  IF Exited THEN StatusTells
            ELSE /\ \A i \in DOMAIN ran : ran[i].outcome \in {"ok", "failed"}
                 /\ ret = IF \A i \in DOMAIN ran : ran[i].outcome = "ok" THEN 0 ELSE 123

\* The text of a number of lines, all of the text, and where it ends.
Raw(i) == LineText(setting.lines[i]) \o setting.trails[i]
Full == [i \in DOMAIN setting.lines |-> Append(Raw(i), Newline)]
Start(k) == Len(FlattenSeq(SubSeq(Full, 1, k)))
End == Len(Text(setting.lines, setting.trails, setting.newline))

\* k lines have been read, and their words are those that were handed out or wait.
\* None before the last ends the input, and after tells whether that does.
ReadUpTo(k) ==
  /\ Len(input) = IF Start(k) <= End THEN End - Start(k) ELSE 0
  /\ \A i \in 1..Len(input) : input[i] = FlattenSeq(Full)[Start(k) + i]
  /\ Handed = Meant(SubSeq(setting.lines, 1, k))
  /\ \A i \in 1..(k - 1) : ~Stops(i)
  /\ after = "last" => k > 0 /\ (k = Len(setting.lines) \/ Stops(k))
  /\ after = "read" => k = 0 \/ k = Len(setting.lines) \/ ~Stops(k)

InOrder ==
  WellFormed => /\ \E k \in 0..Len(setting.lines) : ReadUpTo(k)
                /\ after # "unmatched"
                /\ at = "read" => after = "read"
                /\ at = "last_run" => after = "last" \/ input = <<>>

\* What is left when xargs returns and nothing was missing.
NothingLeft ==
  Exited /\ ret \in {0, 123} /\ WellFormed /\ ~Given("max_lines") =>
    (after = "last" \/ input = <<>>) /\ words = <<>> /\ args = <<>>

IInv == TypeInv /\ Counted /\ Batches /\ Statuses /\ InOrder /\ NothingLeft

-------------------------------------------------------------------------------
(***************************************************************************)
(* What fgets returns.                                                     *)
(***************************************************************************)
LEMMA LineType ==
  ASSUME NEW text \in Word, text # <<>>
  PROVE  \E m \in 1..Len(text) :
           /\ Line(text) = SubSeq(text, 1, m)
           /\ m = Len(text) \/ text[m] = Newline \/ m = LineMax - 1
           /\ \A i \in 1..(m - 1) : text[i] # Newline /\ i # LineMax - 1
<1> DEFINE n == Len(text)
           ends == {i \in DOMAIN text : text[i] = Newline \/ i = LineMax - 1} \cup {n}
           m == CHOOSE i \in ends : \A j \in ends : i <= j
<1>1. n \in Nat /\ n >= 1 /\ DOMAIN text = 1..n /\ LineMax \in Nat
  BY LineMaxAssumption DEF Word
<1>2. Line(text) = SubSeq(text, 1, m)
  BY DEF Line
<1>3. ends \subseteq 1..n /\ n \in ends
  BY <1>1
<1>4. \E i \in ends : \A j \in ends : i <= j
  <2>1. ends \subseteq Nat /\ ends # {}
    BY <1>1, <1>3
  <2> HIDE DEF ends
  <2> QED
    BY <2>1, LeastElement
<1>5. m \in ends /\ \A j \in ends : m <= j
  <2> HIDE DEF ends
  <2> QED
    BY <1>4
<1> HIDE DEF m
<1>6. m \in 1..n /\ (m = n \/ text[m] = Newline \/ m = LineMax - 1)
  BY <1>1, <1>5
<1>7. ASSUME NEW i \in 1..(m - 1) PROVE text[i] # Newline /\ i # LineMax - 1
  <2>1. i \in 1..n /\ ~(m <= i)
    <3>1. m \in 1..n /\ n \in Nat
      BY <1>1, <1>6
    <3> HIDE DEF ends, n
    <3> QED
      BY <3>1
  <2>2. i \notin ends
    BY <1>5, <2>1
  <2> QED
    BY <1>1, <2>1, <2>2
<1> QED
  BY <1>2, <1>6, <1>7

\* The line of a text that begins with a short line.
LEMMA LineIs ==
  ASSUME NEW text \in Word, text # <<>>,
         NEW x \in Seq(Char \ {Newline}), Len(x) < LineMax - 1, Len(x) <= Len(text),
         \A i \in 1..Len(x) : text[i] = x[i],
         Len(x) < Len(text) => text[Len(x) + 1] = Newline
  PROVE  /\ Len(x) = Len(text) => Line(text) = x
         /\ Len(x) < Len(text) => Line(text) = Append(x, Newline)
<1> DEFINE n == Len(text)
           l == Len(x)
           y == Append(x, Newline)
<1>1. /\ n \in Nat /\ n >= 1 /\ LineMax \in Nat /\ text \in Seq(Char)
      /\ l \in Nat /\ \A i \in 1..l : x[i] \in Char /\ x[i] # Newline
  <2>1. text \in Seq(Char)
    BY DEF Word
  <2> QED
    BY <2>1, LineMaxAssumption
<1>2. PICK m \in 1..n :
        /\ Line(text) = SubSeq(text, 1, m)
        /\ m = n \/ text[m] = Newline \/ m = LineMax - 1
        /\ \A i \in 1..(m - 1) : text[i] # Newline /\ i # LineMax - 1
  BY LineType
<1>3. m > l \/ m = n
  <2> SUFFICES ASSUME m <= l, m # n PROVE FALSE
    BY <1>1
  <2>1. m \in 1..l /\ m # LineMax - 1
    BY <1>1
  <2>2. text[m] # Newline
    BY <1>1, <2>1
  <2> QED
    BY <1>2, <2>1, <2>2
<1>4. \A i \in 1..m : i <= l \/ i = l + 1
  <2> SUFFICES ASSUME m > l + 1 PROVE FALSE
    BY <1>1
  <2>1. l + 1 \in 1..(m - 1) /\ l < n
    BY <1>1
  <2> QED
    BY <1>2, <2>1
<1>5. SubSeq(text, 1, m) \in Seq(Char) /\ Len(SubSeq(text, 1, m)) = m
      /\ \A i \in 1..m : SubSeq(text, 1, m)[i] = text[i]
  BY <1>1
<1> DEFINE r == SubSeq(text, 1, m)
<1> HIDE DEF r
<1>6. CASE l = n
  <2>1. m = n
    BY <1>1, <1>3, <1>6
  <2>2. x \in Seq(Char)
    <3>1. x \in [1..l -> Char]
      BY <1>1
    <3> QED
      BY <1>1, <3>1
  <2>3. r \in Seq(Char) /\ Len(r) = Len(x) /\ \A i \in 1..Len(r) : r[i] = x[i]
    BY <1>5, <1>6, <2>1 DEF r
  <2>4. r = x
    BY <2>2, <2>3, SeqEqual
  <2> QED
    BY <1>1, <1>2, <1>6, <2>4 DEF r
<1>7. CASE l < n
  <2>1. m = l + 1
    <3>1. m >= l + 1
      BY <1>1, <1>3, <1>7
    <3> QED
      BY <1>1, <1>4, <3>1
  <2>2. Newline \in Char
    BY DEF Char, Special
  <2>3. /\ y \in Seq(Char) /\ Len(y) = l + 1 /\ y[l + 1] = Newline
        /\ \A i \in 1..l : y[i] = x[i]
    <3>1. x \in [1..l -> Char]
      BY <1>1
    <3>2. x \in Seq(Char)
      BY <1>1, <3>1
    <3> QED
      BY <2>2, <3>2
  <2> HIDE DEF y
  <2>4. \A i \in 1..Len(r) : r[i] = y[i]
    BY <1>1, <1>5, <1>7, <2>1, <2>3 DEF r
  <2>5. r = y
    BY <1>5, <2>1, <2>3, <2>4, SeqEqual DEF r
  <2> QED
    BY <1>1, <1>2, <1>7, <2>5 DEF r, y
<1> QED
  BY <1>1, <1>6, <1>7

-------------------------------------------------------------------------------
(***************************************************************************)
(* The input and what it means.                                            *)
(***************************************************************************)
LEMMA Widen ==
  ASSUME NEW S, NEW T, S \subseteq T, NEW q \in Seq(S)
  PROVE  q \in Seq(T)
<1>1. Len(q) \in Nat /\ q \in [1..Len(q) -> S]
  OBVIOUS
<1>2. q \in [1..Len(q) -> T]
  BY <1>1
<1> QED
  BY <1>1, <1>2

LEMMA SettingType ==
  ASSUME setting \in Settings
  PROVE  /\ setting.lines \in Seq(Seq(WordType)) /\ setting.newline \in BOOLEAN
         /\ setting.trails \in Seq(Trail) /\ Len(setting.trails) = Len(setting.lines)
         /\ setting.max_args \in Int /\ setting.max_lines \in Int
<1> DEFINE R == [word : Seq(STRING), style : Style]
           L == setting.lines
<1>1. /\ L \in Seq(Seq(R)) /\ setting.newline \in BOOLEAN
      /\ setting.trails \in Seq(Trail) /\ Len(setting.trails) = Len(L)
      /\ setting.max_args \in Int /\ setting.max_lines \in Int
  BY SettingsAssumption DEF Setting
<1>2. R \subseteq WordType
  <2>1. \A x \in Seq(STRING) : x \in Seq(Char)
    BY Widen DEF Char
  <2> QED
    BY <2>1 DEF WordType, WordsOver
<1> HIDE DEF R, L
<1>3. Seq(R) \subseteq Seq(WordType)
  BY <1>2, Widen
<1>4. L \in Seq(Seq(WordType))
  BY <1>1, <1>3, Widen
<1> QED
  BY <1>1, <1>4 DEF L

LEMMA TrailType ==
  ASSUME NEW trail \in Trail
  PROVE  trail \in Seq(Char \ {Newline})
<1>1. Blank \subseteq Char \ {Newline}
  BY DEF Char, Special, Blank, Newline
<1> DEFINE C == Char \ {Newline}
<1> HIDE DEF C
<1>2. <<>> \in Seq(C) /\ \A b \in C : <<b>> \in Seq(C)
  OBVIOUS
<1> QED
  BY <1>1, <1>2 DEF C, Trail

LEMMA FullType ==
  ASSUME setting \in Settings
  PROVE  /\ Full \in Seq(Seq(Char)) /\ Len(Full) = Len(setting.lines)
         /\ Len(setting.lines) \in Nat /\ DOMAIN setting.lines = 1..Len(setting.lines)
         /\ \A i \in 1..Len(setting.lines) :
              /\ setting.lines[i] \in Seq(WordType) /\ setting.trails[i] \in Trail
              /\ LineText(setting.lines[i]) \in Seq(Char) /\ Raw(i) \in Seq(Char)
              /\ Full[i] = Append(Raw(i), Newline)
<1> DEFINE L == setting.lines
<1>1. L \in Seq(Seq(WordType)) /\ setting.trails \in Seq(Trail) /\ Len(setting.trails) = Len(L)
  BY SettingType
<1>2. /\ "'" \in Char /\ "\\" \in Char /\ Double \in Char /\ Space \in Char /\ Newline \in Char
  BY DEF Char, Special, Double, Space, Blank
<1>3. Len(L) \in Nat /\ DOMAIN L = 1..Len(L) /\ \A i \in 1..Len(L) : L[i] \in Seq(WordType)
  <2> HIDE DEF L
  <2> QED
    BY <1>1
<1>4. \A i \in 1..Len(L) : setting.trails[i] \in Trail
  BY <1>1
<1>5. \A i \in 1..Len(L) : LineText(L[i]) \in Seq(Char)
  BY <1>2, <1>3, LineTextType DEF WordType
<1>6. \A i \in 1..Len(L) : Raw(i) \in Seq(Char)
  <2>1. \A trail \in Trail : trail \in Seq(Char)
    <3>1. Char \ {Newline} \subseteq Char
      OBVIOUS
    <3> QED
      BY <3>1, TrailType, Widen
  <2>2. \A x, y \in Seq(Char) : x \o y \in Seq(Char)
    OBVIOUS
  <2> QED
    BY <1>4, <1>5, <2>1, <2>2 DEF Raw
<1>7. \A i \in 1..Len(L) : Append(Raw(i), Newline) \in Seq(Char)
  BY <1>2, <1>6, FrontOfAppend
<1>8. Full \in [1..Len(L) -> Seq(Char)] /\ \A i \in 1..Len(L) : Full[i] = Append(Raw(i), Newline)
  BY <1>3, <1>7 DEF Full
<1>9. Full \in Seq(Seq(Char)) /\ Len(Full) = Len(L)
  <2> DEFINE n == Len(L)
             S == Seq(Char)
  <2>1. n \in Nat /\ Full \in [1..n -> S]
    BY <1>3, <1>8
  <2> HIDE DEF n, S
  <2>2. Full \in Seq(S) /\ Len(Full) = n
    BY <2>1
  <2> QED
    BY <2>2 DEF n, S
<1> QED
  BY <1>3, <1>4, <1>5, <1>6, <1>8, <1>9

\* The text is all lines, or all but the last newline.
LEMMA TextIs ==
  ASSUME setting \in Settings
  PROVE  LET F == FlattenSeq(Full)
             t == Text(setting.lines, setting.trails, setting.newline)
         IN  /\ F \in Seq(Char) /\ t \in Seq(Char)
             /\ End \in Nat /\ Len(F) \in Nat /\ End <= Len(F) /\ Len(F) <= End + 1
             /\ \A i \in 1..End : t[i] = F[i]
<1> DEFINE F == FlattenSeq(Full)
           t == Text(setting.lines, setting.trails, setting.newline)
<1>1. F \in Seq(Char)
  <2>1. Full \in Seq(Seq(Char)) /\ <<>> \in Seq(Char)
    BY FullType
  <2> QED
    BY <2>1, FlatAppend
<1>2. t = IF setting.newline \/ F = <<>> THEN F ELSE Front(F)
  BY DEF Text, Full, Raw
<1>3. End = Len(t)
  BY DEF End
<1> HIDE DEF F, t
<1>4. CASE t = F
  BY <1>1, <1>3, <1>4 DEF F, t
<1>5. CASE F # <<>> /\ t = Front(F)
  <2>1. /\ t \in Seq(Char) /\ Len(t) = Len(F) - 1 /\ Len(F) >= 1 /\ Len(F) \in Nat
        /\ \A i \in 1..(Len(F) - 1) : t[i] = F[i]
    BY <1>1, <1>5, FrontAndLast
  <2> QED
    BY <1>1, <1>3, <2>1 DEF F, t
<1> QED
  BY <1>2, <1>4, <1>5

\* What some lines mean are the words in them one after the other.
LEMMA WordsInType ==
  ASSUME NEW a \in Seq(WordType)
  PROVE  /\ WordsIn(a) \in Seq(Word) /\ Len(WordsIn(a)) = Len(a)
         /\ \A i \in 1..Len(a) : WordsIn(a)[i] = a[i].word
<1>1. Len(a) \in Nat /\ DOMAIN a = 1..Len(a) /\ \A i \in 1..Len(a) : a[i] \in WordType
  OBVIOUS
<1>2. \A w \in WordType : w.word \in Word
  BY DEF WordType, WordsOver, Word
<1>3. /\ WordsIn(a) \in [1..Len(a) -> Word]
      /\ \A i \in 1..Len(a) : WordsIn(a)[i] = a[i].word
  BY <1>1, <1>2 DEF WordsIn
<1> DEFINE n == Len(a)
<1>4. n \in Nat /\ WordsIn(a) \in [1..n -> Word]
  BY <1>1, <1>3
<1> HIDE DEF n
<1>5. WordsIn(a) \in Seq(Word) /\ Len(WordsIn(a)) = n
  BY <1>4
<1> QED
  BY <1>3, <1>5 DEF n

LEMMA WordsInConcat ==
  ASSUME NEW a \in Seq(WordType), NEW b \in Seq(WordType)
  PROVE  a \o b \in Seq(WordType) /\ WordsIn(a \o b) = WordsIn(a) \o WordsIn(b)
<1> DEFINE c == a \o b
           l == Len(a)
           m == Len(b)
           wa == WordsIn(a)
           wb == WordsIn(b)
           wc == WordsIn(c)
           v == wa \o wb
<1>1. /\ c \in Seq(WordType) /\ Len(c) = l + m /\ l \in Nat /\ m \in Nat
      /\ \A i \in 1..l : c[i] = a[i]
      /\ \A i \in 1..m : c[l + i] = b[i]
  OBVIOUS
<1>2. wc \in Seq(Word) /\ Len(wc) = l + m /\ \A i \in 1..(l + m) : wc[i] = c[i].word
  BY <1>1, WordsInType
<1>3. /\ wa \in Seq(Word) /\ Len(wa) = l /\ \A i \in 1..l : wa[i] = a[i].word
      /\ wb \in Seq(Word) /\ Len(wb) = m /\ \A i \in 1..m : wb[i] = b[i].word
  BY WordsInType
<1> HIDE DEF c, l, m, wa, wb, wc
<1>4. /\ v \in Seq(Word) /\ Len(v) = l + m
      /\ \A i \in 1..l : v[i] = wa[i]
      /\ \A i \in 1..m : v[l + i] = wb[i]
  <2>1. wa \in Seq(Word) /\ Len(wa) = l /\ wb \in Seq(Word) /\ Len(wb) = m
    BY <1>3
  <2>2. v \in Seq(Word) /\ Len(v) = l + m
    BY <2>1
  <2>3. \A i \in 1..l : v[i] = wa[i]
    BY <2>1
  <2>4. \A i \in 1..m : v[l + i] = wb[i]
    BY <1>1, <2>1
  <2> QED
    BY <2>2, <2>3, <2>4
<1> HIDE DEF v
<1>5. ASSUME NEW i \in 1..(l + m) PROVE wc[i] = v[i]
  <2>1. CASE i \in 1..l
    BY <1>1, <1>2, <1>3, <1>4, <2>1
  <2>2. CASE i > l
    <3> DEFINE j == i - l
    <3>1. j \in 1..m /\ i = l + j
      BY <1>1, <2>2
    <3> HIDE DEF j
    <3>2. v[l + j] = wb[j] /\ c[l + j] = b[j] /\ wb[j] = b[j].word
      BY <1>1, <1>3, <1>4, <3>1
    <3> QED
      BY <1>2, <3>1, <3>2
  <2> QED
    BY <1>1, <2>1, <2>2
<1>6. wc = v
  BY <1>2, <1>4, <1>5, SeqEqual
<1> QED
  BY <1>1, <1>6 DEF c, v, wa, wb, wc

LEMMA MeantIs == \A lines : Meant(lines) = WordsIn(FlattenSeq(lines))
  BY DEF Meant, WordsIn

LEMMA MeantStep ==
  ASSUME setting \in Settings, NEW k \in Nat, k < Len(setting.lines)
  PROVE  LET L == setting.lines
         IN  /\ Meant(SubSeq(L, 1, k)) \in Seq(Word) /\ WordsIn(L[k + 1]) \in Seq(Word)
             /\ Meant(SubSeq(L, 1, k + 1)) = Meant(SubSeq(L, 1, k)) \o WordsIn(L[k + 1])
<1> DEFINE L == setting.lines
           f == FlattenSeq(SubSeq(L, 1, k))
<1>1. L \in Seq(Seq(WordType))
  BY SettingType
<1>2. /\ f \in Seq(WordType) /\ L[k + 1] \in Seq(WordType)
      /\ FlattenSeq(SubSeq(L, 1, k + 1)) = f \o L[k + 1]
  BY <1>1, FlatStep
<1> HIDE DEF f
<1>3. WordsIn(f \o L[k + 1]) = WordsIn(f) \o WordsIn(L[k + 1])
  BY <1>2, WordsInConcat
<1>4. WordsIn(f) \in Seq(Word) /\ WordsIn(L[k + 1]) \in Seq(Word)
  BY <1>2, WordsInType
<1> QED
  BY <1>2, <1>3, <1>4, MeantIs DEF f

LEMMA MeantPrefix ==
  ASSUME setting \in Settings, NEW k \in 0..Len(setting.lines)
  PROVE  /\ Meant(SubSeq(setting.lines, 1, k)) \in Seq(Word) /\ Meant(setting.lines) \in Seq(Word)
         /\ IsPrefix(Meant(SubSeq(setting.lines, 1, k)), Meant(setting.lines))
<1> DEFINE L == setting.lines
           f == FlattenSeq(SubSeq(L, 1, k))
           g == FlattenSeq(L)
<1>1. L \in Seq(Seq(WordType))
  BY SettingType
<1>2. f \in Seq(WordType) /\ g \in Seq(WordType) /\ IsPrefix(f, g)
  BY <1>1, FlatPrefix
<1>3. Meant(SubSeq(L, 1, k)) = WordsIn(f) /\ Meant(L) = WordsIn(g)
  BY MeantIs
<1> HIDE DEF f, g, L
<1>4. Len(f) \in Nat /\ Len(g) \in Nat /\ Len(f) <= Len(g) /\ \A i \in 1..Len(f) : f[i] = g[i]
  BY <1>2, PrefixElements
<1>5. /\ WordsIn(f) \in Seq(Word) /\ Len(WordsIn(f)) = Len(f)
      /\ \A i \in 1..Len(f) : WordsIn(f)[i] = f[i].word
      /\ WordsIn(g) \in Seq(Word) /\ Len(WordsIn(g)) = Len(g)
      /\ \A i \in 1..Len(g) : WordsIn(g)[i] = g[i].word
  BY <1>2, WordsInType
<1>6. \A i \in 1..Len(WordsIn(f)) : WordsIn(f)[i] = WordsIn(g)[i]
  BY <1>4, <1>5
<1>7. IsPrefix(WordsIn(f), WordsIn(g))
  BY <1>4, <1>5, <1>6, PrefixElements
<1> QED
  BY <1>3, <1>5, <1>7 DEF L

\* Where a line lies in all the text.
LEMMA LineLies ==
  ASSUME setting \in Settings, NEW k \in Nat, k < Len(setting.lines)
  PROVE  LET x == Raw(k + 1)
             F == FlattenSeq(Full)
         IN  /\ Start(k) \in Nat /\ Len(x) \in Nat
             /\ Start(k + 1) = Start(k) + Len(x) + 1 /\ Start(k) + Len(x) + 1 <= End + 1
             /\ \A i \in 1..Len(x) : F[Start(k) + i] = x[i]
             /\ F[Start(k) + (Len(x) + 1)] = Newline
<1> DEFINE x == Raw(k + 1)
           F == FlattenSeq(Full)
           e == Full[k + 1]
<1>1. /\ Full \in Seq(Seq(Char)) /\ k < Len(Full) /\ x \in Seq(Char) /\ e = Append(x, Newline)
  <2>1. k + 1 \in 1..Len(setting.lines)
    BY FullType
  <2> QED
    BY <2>1, FullType
<1>2. Newline \in Char
  BY DEF Char, Special
<1> HIDE DEF x, e
<1>3. /\ Len(x) \in Nat /\ Len(e) = Len(x) + 1 /\ e[Len(x) + 1] = Newline
      /\ \A i \in 1..Len(x) : e[i] = x[i]
  BY <1>1, <1>2
<1>4. /\ Start(k) \in Nat
      /\ Start(k + 1) = Start(k) + Len(e)
      /\ Start(k) + Len(e) <= Len(F)
      /\ \A i \in 1..Len(e) : F[Start(k) + i] = e[i]
  BY <1>1, FlatBlock DEF Start, e
<1>5. End \in Nat /\ Len(F) \in Nat /\ Len(F) <= End + 1
  BY TextIs
<1> HIDE DEF F
<1>6. \A i \in 1..Len(x) : i \in 1..Len(e)
  BY <1>3
<1>7. Len(x) + 1 \in 1..Len(e)
  BY <1>3
<1>8. /\ Start(k + 1) = Start(k) + Len(x) + 1
      /\ Start(k) + Len(x) + 1 <= End + 1
  BY <1>3, <1>4, <1>5
<1> QED
  BY <1>3, <1>4, <1>6, <1>7, <1>8 DEF x, F

\* The next line, and what is left of the input behind it.
LEMMA NextLine ==
  ASSUME TypeInv, WellFormed, input # <<>>, NEW k \in 0..Len(setting.lines), ReadUpTo(k)
  PROVE  /\ k \in Nat /\ k < Len(setting.lines)
         /\ LET line == setting.lines[k + 1]
                x    == Raw(k + 1)
                rest == SubSeq(input, Len(Line(input)) + 1, Len(input))
            IN  /\ \/ Line(input) = Append(x, Newline)
                   \/ /\ Line(input) = x /\ x # <<>> /\ rest = <<>>
                      /\ k + 1 = Len(setting.lines)
                /\ rest \in Word
                /\ Len(rest) = IF Start(k + 1) <= End THEN End - Start(k + 1) ELSE 0
                /\ \A i \in 1..Len(rest) : rest[i] = FlattenSeq(Full)[Start(k + 1) + i]
<1> DEFINE L == setting.lines
           F == FlattenSeq(Full)
           n == Len(input)
           b == Start(k)
<1>0. setting \in Settings /\ input \in Word /\ input \in Seq(Char)
  BY DEF TypeInv, Word
<1>1. n \in Nat /\ n >= 1
  BY <1>0
<1>2. /\ n = IF b <= End THEN End - b ELSE 0
      /\ \A i \in 1..n : input[i] = F[b + i]
  BY DEF ReadUpTo
<1>3. k \in Nat /\ k < Len(L)
  <2>1. Len(L) \in Nat /\ Len(Full) = Len(L)
    BY <1>0, FullType
  <2>2. SUFFICES ASSUME k = Len(L) PROVE FALSE
    BY <2>1
  <2>3. Full \in Seq(Seq(Char)) /\ SubSeq(Full, 1, k) = Full
    BY <1>0, <2>1, <2>2, FullType, SubSeqFull
  <2>4. b = Len(F)
    BY <2>3 DEF Start
  <2>5. End \in Nat /\ Len(F) \in Nat /\ End <= Len(F)
    BY <1>0, TextIs
  <2> HIDE DEF n, b, F
  <2> QED
    BY <1>1, <1>2, <2>4, <2>5
<1> DEFINE line == L[k + 1]
           x == Raw(k + 1)
           rest == SubSeq(input, Len(Line(input)) + 1, n)
           Good == /\ \/ Line(input) = Append(x, Newline)
                      \/ Line(input) = x /\ x # <<>> /\ rest = <<>> /\ k + 1 = Len(L)
                   /\ rest \in Word
                   /\ Len(rest) = IF Start(k + 1) <= End THEN End - Start(k + 1) ELSE 0
                   /\ \A i \in 1..Len(rest) : rest[i] = F[Start(k + 1) + i]
<1> SUFFICES Good
  BY <1>3
<1>4. /\ b \in Nat /\ Len(x) \in Nat /\ End \in Nat
      /\ Start(k + 1) = b + Len(x) + 1 /\ b + Len(x) + 1 <= End + 1
      /\ \A i \in 1..Len(x) : F[b + i] = x[i]
      /\ F[b + (Len(x) + 1)] = Newline
  BY <1>0, <1>3, LineLies, TextIs
<1>5. /\ k + 1 \in DOMAIN L /\ line \in Seq(WordType) /\ AllSpelled(line) /\ Len(x) < LineMax - 1
      /\ setting.trails[k + 1] \in Trail
  <2>1. k + 1 \in DOMAIN L /\ line \in Seq(WordType) /\ setting.trails[k + 1] \in Trail
    BY <1>0, <1>3, FullType
  <2> QED
    BY <2>1 DEF WellFormed, AllSpelled, Raw
<1>6. x \in Seq(Char \ {Newline})
  <2>1. LineText(line) \in Seq(Char \ {Newline}) /\ setting.trails[k + 1] \in Seq(Char \ {Newline})
    BY <1>5, NoNewline, TrailType
  <2> QED
    BY <2>1 DEF Raw
<1> HIDE DEF b, x, F, line
<1>8. n >= Len(x) /\ n = End - b
  <2> HIDE DEF n
  <2> QED
    BY <1>1, <1>2, <1>4
<1>9. /\ \A i \in 1..Len(x) : input[i] = x[i]
      /\ Len(x) < n => input[Len(x) + 1] = Newline
  <2>1. \A i \in 1..Len(x) : i \in 1..n
    BY <1>1, <1>4, <1>8
  <2>2. Len(x) < n => Len(x) + 1 \in 1..n
    BY <1>1, <1>4, <1>8
  <2> HIDE DEF n
  <2> QED
    BY <1>2, <1>4, <2>1, <2>2
<1>10. /\ Len(x) = n => Line(input) = x
       /\ Len(x) < n => Line(input) = Append(x, Newline)
  BY <1>0, <1>1, <1>5, <1>6, <1>8, <1>9, LineIs DEF x
<1>11. CASE Len(x) = n
  <2>1. Line(input) = x /\ x # <<>>
    BY <1>1, <1>10, <1>11
  <2>2. rest = <<>>
    <3>1. rest = SubSeq(input, n + 1, n)
      BY <1>11, <2>1
    <3> HIDE DEF rest
    <3> QED
      BY <1>0, <1>1, <3>1
  <2>3. ~(Start(k + 1) <= End)
    <3> HIDE DEF n
    <3> QED
      BY <1>4, <1>8, <1>11
  <2>4. <<>> \in Word /\ Len(<<>>) = 0
    BY DEF Word
  <2> HIDE DEF rest
  <2>5. \A i \in 1..Len(rest) : rest[i] = F[Start(k + 1) + i]
    BY <2>2, <2>4
  <2>6. k + 1 = Len(L)
    <3>1. Len(L) \in Nat
      BY <1>0, FullType
    <3>2. SUFFICES ASSUME k + 1 < Len(L), k + 1 \in Nat PROVE FALSE
      BY <1>3, <3>1
    <3>3. /\ Start(k + 1) \in Nat /\ Len(Raw(k + 1 + 1)) \in Nat
          /\ Start(k + 1) + Len(Raw(k + 1 + 1)) + 1 <= End + 1
      BY <1>0, <3>2, LineLies
    <3> QED
      BY <1>4, <2>3, <3>3
  <2> QED
    BY <2>1, <2>2, <2>3, <2>4, <2>5, <2>6
<1>12. CASE Len(x) < n
  <2> DEFINE l == Len(x) + 1
  <2>1. Line(input) = Append(x, Newline) /\ Len(Line(input)) = l
    <3>1. x \in Seq(Char)
      <4>1. Char \ {Newline} \subseteq Char
        OBVIOUS
      <4> QED
        BY <1>6, <4>1, Widen
    <3>2. Newline \in Char
      BY DEF Char, Special
    <3> QED
      BY <1>10, <1>12, <3>1, <3>2
  <2>2. /\ l \in Nat /\ l >= 1 /\ l <= n /\ Start(k + 1) = b + l
        /\ n - l = End - Start(k + 1) /\ Start(k + 1) <= End
    <3> HIDE DEF n
    <3> QED
      BY <1>1, <1>4, <1>8, <1>12
  <2> HIDE DEF l
  <2>3. rest = SubSeq(input, l + 1, n)
    BY <2>1
  <2> HIDE DEF rest
  <2>4. /\ rest \in Seq(Char) /\ Len(rest) = n - l
        /\ \A i \in 1..(n - l) : rest[i] = input[l + i]
    BY <1>0, <1>1, <2>2, <2>3
  <2> HIDE DEF n
  <2>5. ASSUME NEW i \in 1..Len(rest) PROVE rest[i] = F[Start(k + 1) + i]
    <3>1. l + i \in 1..n /\ i \in 1..(n - l) /\ b + (l + i) = Start(k + 1) + i
      BY <1>1, <1>4, <2>2, <2>4
    <3>2. rest[i] = input[l + i] /\ input[l + i] = F[b + (l + i)]
      BY <1>2, <2>4, <3>1
    <3> QED
      BY <3>1, <3>2
  <2>6. rest \in Word
    BY <2>4 DEF Word
  <2> QED
    BY <2>1, <2>2, <2>4, <2>5, <2>6
<1>13. Len(x) = n \/ Len(x) < n
  <2>1. n \in Nat /\ Len(x) \in Nat /\ n >= Len(x)
    BY <1>1, <1>4, <1>8
  <2> HIDE DEF n
  <2> QED
    BY <2>1
<1> HIDE DEF Good
<1> QED
  BY <1>11, <1>12, <1>13

LEMMA RestType ==
  ASSUME NEW text \in Word, text # <<>>
  PROVE  Line(text) \in Word /\ SubSeq(text, Len(Line(text)) + 1, Len(text)) \in Word
<1>0. text \in Seq(Char) /\ Len(text) \in Nat
  BY DEF Word
<1>1. PICK m \in 1..Len(text) : Line(text) = SubSeq(text, 1, m)
  BY LineType
<1>2. SubSeq(text, 1, m) \in Seq(Char) /\ Len(SubSeq(text, 1, m)) = m
  BY <1>0
<1>3. SubSeq(text, m + 1, Len(text)) \in Seq(Char)
  BY <1>0
<1> QED
  BY <1>1, <1>2, <1>3 DEF Word

-------------------------------------------------------------------------------
(***************************************************************************)
(* The steps keep the types.                                               *)
(***************************************************************************)
LEMMA ReadLineIs ==
  ASSUME ReadLine
  PROVE  LET s == Scanned(Line(input))
         IN  /\ words' = IF s.quote = NoQuote THEN WordsOf(s) ELSE s.words
             /\ after' = IF s.quote # NoQuote THEN "unmatched"
                         ELSE IF s.space = Newline THEN "read" ELSE "last"
<1>1. \E s \in {Scanned(Line(input))} :
        /\ words' = IF s.quote = NoQuote THEN WordsOf(s) ELSE s.words
        /\ after' = IF s.quote # NoQuote THEN "unmatched"
                    ELSE IF s.space = Newline THEN "read" ELSE "last"
  BY DEF ReadLine, NoQuote
<1> QED
  BY <1>1

LEMMA HeadAndTail ==
  ASSUME NEW S, NEW q \in Seq(S), q # <<>>
  PROVE  Head(q) \in S /\ Tail(q) \in Seq(S) /\ q = <<Head(q)>> \o Tail(q)
<1>1. Head(q) \in S /\ Tail(q) \in Seq(S) /\ Len(Tail(q)) = Len(q) - 1 /\ Len(q) \in Nat /\ Len(q) >= 1
  OBVIOUS
<1>2. q[1] = Head(q) /\ \A i \in 1..(Len(q) - 1) : Tail(q)[i] = q[i + 1]
  OBVIOUS
<1> DEFINE h == Head(q)
           t == Tail(q)
           r == <<h>> \o t
<1> HIDE DEF h, t
<1>3. /\ r \in Seq(S) /\ Len(r) = Len(q) /\ r[1] = h
      /\ \A i \in 1..Len(t) : r[1 + i] = t[i]
  BY <1>1 DEF h, t
<1> HIDE DEF r
<1>4. ASSUME NEW i \in 1..Len(q) PROVE q[i] = r[i]
  <2>1. CASE i = 1
    BY <1>2, <1>3, <2>1 DEF h
  <2>2. CASE i > 1
    <3>1. i - 1 \in 1..Len(t) /\ 1 + (i - 1) = i /\ i - 1 + 1 = i /\ i - 1 \in 1..(Len(q) - 1)
      BY <1>1, <2>2 DEF t
    <3> QED
      BY <1>2, <1>3, <3>1 DEF t
  <2> QED
    BY <1>1, <2>1, <2>2
<1>5. q = r
  BY <1>3, <1>4, SeqEqual
<1> QED
  BY <1>1, <1>5 DEF r, h, t

LEMMA InitType == Init => TypeInv
<1> SUFFICES ASSUME Init PROVE TypeInv
  OBVIOUS
<1>1. setting \in Settings
  BY DEF Init
<1>2. input \in Word
  BY <1>1, TextIs DEF Init, Word
<1> QED
  BY <1>1, <1>2 DEF Init, TypeInv, Place

LEMMA TypeStep ==
  ASSUME TypeInv, [Next]_vars
  PROVE  TypeInv'
<1> USE DEF Place
<1>1. CASE SkipBlanks
  <2>1. input' \in Word
    BY <1>1, RestType DEF SkipBlanks, TypeInv
  <2> QED
    BY <1>1, <2>1 DEF SkipBlanks, TypeInv, Exited
<1>2. CASE ReadLine
  <2>1. input' \in Word /\ Line(input) \in Word
    BY <1>2, RestType DEF ReadLine, TypeInv
  <2> DEFINE s == Scanned(Line(input))
  <2>2. s \in ScanState
    BY <2>1, ScannedType
  <2> HIDE DEF s
  <2>3. s.words \in Seq(Word) /\ s.word \in Word
    BY <2>2 DEF ScanState
  <2>4. WordsOf(s) \in Seq(Word)
    BY <2>3, FrontOfAppend DEF WordsOf
  <2>5. words' \in Seq(Word) /\ after' \in {"read", "last", "unmatched"}
    BY <1>2, <2>3, <2>4, ReadLineIs DEF s
  <2>6. used_args' \in Nat /\ used_lines' \in Nat
    <3>1. /\ used_lines' = IF Given("max_lines") /\ used_lines + 1 >= setting.max_lines
                            THEN 0 ELSE used_lines + 1
          /\ used_args' = IF Given("max_lines") /\ used_lines + 1 >= setting.max_lines
                           THEN 0 ELSE used_args
      BY <1>2 DEF ReadLine
    <3> QED
      BY <3>1 DEF TypeInv
  <2>7. /\ at' = "add" /\ UNCHANGED <<setting, args, ret, ran>> /\ at = "read"
    BY <1>2 DEF ReadLine
  <2> QED
    BY <2>1, <2>5, <2>6, <2>7 DEF TypeInv, Exited
<1>3. CASE AddArg
  <2>1. words' \in Seq(Word) /\ args' \in Seq(Word) /\ used_args' \in Nat
    <3>1. words \in Seq(Word) /\ words # <<>> /\ args \in Seq(Word) /\ used_args \in Nat
      BY <1>3 DEF AddArg, TypeInv
    <3>2. Head(words) \in Word /\ Tail(words) \in Seq(Word)
      BY <3>1, HeadAndTail
    <3>3. Append(args, Head(words)) \in Seq(Word)
      BY <3>1, <3>2, FrontOfAppend
    <3> QED
      BY <1>3, <3>1, <3>2, <3>3 DEF AddArg
  <2>2. at' \in {"run", "add"} /\ at = "add" /\ UNCHANGED <<setting, input, after, used_lines, ret, ran>>
    BY <1>3 DEF AddArg
  <2> QED
    BY <2>1, <2>2 DEF TypeInv, Exited
<1>4. CASE EndLine
  BY <1>4 DEF EndLine, TypeInv, Exited
<1>5. CASE Unmatched
  BY <1>5 DEF Unmatched, TypeInv, Exited
<1>6. CASE LeaveLoop
  BY <1>6 DEF LeaveLoop, TypeInv, Exited
<1>7. ASSUME NEW outcome \in Outcome, Run(outcome) \/ RunQuits(outcome) PROVE TypeInv'
  <2>1. ran' \in Seq(Runs)
    <3> DEFINE r == [args |-> args, outcome |-> outcome]
    <3>1. r \in Runs /\ ran \in Seq(Runs)
      BY DEF TypeInv, Runs
    <3>2. ran' = Append(ran, r)
      BY <1>7 DEF Run, RunQuits, Ran
    <3> HIDE DEF r
    <3> QED
      BY <3>1, <3>2, FrontOfAppend
  <2>2. args' \in Seq(Word)
    <3>1. args' = <<>> \/ args' = args
      BY <1>7 DEF Run, RunQuits
    <3>2. <<>> \in Seq(Word) /\ args \in Seq(Word)
      BY DEF TypeInv
    <3> QED
      BY <3>1, <3>2
  <2>3. CASE Run(outcome)
    BY <2>1, <2>2, <2>3 DEF Run, TypeInv, Exited
  <2>4. CASE RunQuits(outcome)
    BY <2>1, <2>2, <2>4 DEF RunQuits, TypeInv, Exited
  <2> QED
    BY <1>7, <2>3, <2>4
<1>8. CASE Done \/ UNCHANGED vars
  BY <1>8 DEF Done, vars, TypeInv, Exited
<1> QED
  BY <1>1, <1>2, <1>3, <1>4, <1>5, <1>6, <1>7, <1>8, Zenon DEF Next

-------------------------------------------------------------------------------
(***************************************************************************)
(* The batches.                                                            *)
(***************************************************************************)

\* A command that ran is behind the others.
LEMMA RanIs ==
  ASSUME TypeInv, NEW outcome \in Outcome, Ran(outcome)
  PROVE  /\ Len(ran) \in Nat /\ DOMAIN ran = 1..Len(ran) /\ Len(ran') = Len(ran) + 1
         /\ DOMAIN ran' = 1..(Len(ran) + 1)
         /\ \A i \in 1..Len(ran) : ran'[i] = ran[i]
         /\ ran'[Len(ran) + 1].args = args /\ ran'[Len(ran) + 1].outcome = outcome
<1> DEFINE r == [args |-> args, outcome |-> outcome]
<1>1. ran \in Seq(Runs) /\ args \in Seq(Word)
  BY DEF TypeInv
<1>2. r \in Runs /\ r.args = args /\ r.outcome = outcome
  BY <1>1 DEF Runs
<1>3. ran' = Append(ran, r)
  BY DEF Ran
<1> HIDE DEF r
<1> QED
  BY <1>1, <1>2, <1>3

LEMMA CountedStep ==
  ASSUME TypeInv, Counted, [Next]_vars
  PROVE  Counted'
<1>0. args \in Seq(Word) /\ used_args \in Nat
  BY DEF TypeInv
<1>1. CASE SkipBlanks \/ EndLine \/ Unmatched \/ LeaveLoop \/ Done \/ UNCHANGED vars
  BY <1>1 DEF SkipBlanks, EndLine, Unmatched, LeaveLoop, Done, vars, Counted, Given
<1>2. CASE ReadLine
  <2>1. /\ UNCHANGED <<setting, args>>
        /\ ~Given("max_lines") => used_args' = used_args
    BY <1>2 DEF ReadLine
  <2> QED
    BY <2>1 DEF Counted, Given
<1>3. CASE AddArg
  <2>1. /\ words \in Seq(Word) /\ words # <<>> /\ args' = Append(args, Head(words))
        /\ used_args' = used_args + 1 /\ setting' = setting
    BY <1>3 DEF AddArg, TypeInv
  <2>2. Len(args') = Len(args) + 1
    BY <1>0, <2>1, HeadAndTail
  <2> QED
    BY <1>0, <2>1, <2>2 DEF Counted, Given
<1>4. ASSUME NEW outcome \in Outcome, Run(outcome) PROVE Counted'
  <2>1. args' = <<>> /\ used_args' = 0
    BY <1>4 DEF Run
  <2> QED
    BY <2>1 DEF Counted
<1>5. ASSUME NEW outcome \in Outcome, RunQuits(outcome) PROVE Counted'
  BY <1>5 DEF RunQuits, Counted, Given
<1> QED
  BY <1>1, <1>2, <1>3, <1>4, <1>5, Zenon DEF Next

LEMMA BatchStep ==
  ASSUME TypeInv, Counted, Batches, [Next]_vars
  PROVE  Batches'
<1> SUFFICES ASSUME (setting.flags = {"max_args"})'
             PROVE  /\ used_args' <= N'
                    /\ at' \in {"read", "add", "last_run"} => used_args' < N'
                    /\ at' = "run" => used_args' = N'
                    /\ \A i \in DOMAIN ran' : /\ Len(ran'[i].args) <= N'
                                              /\ i < Len(ran') \/ ~Exited' => Len(ran'[i].args) = N'
  BY DEF Batches
<1>0. setting' = setting
  BY DEF Next, SkipBlanks, ReadLine, AddArg, EndLine, Unmatched, LeaveLoop, Run, RunQuits, Done, vars
<1>1. /\ setting.flags = {"max_args"} /\ Given("max_args") /\ ~Given("max_lines")
      /\ N' = N /\ N \in Nat /\ N >= 1
      /\ setting.max_args >= 1 => N = setting.max_args
      /\ ~(setting.max_args >= 1) => N = 1
      /\ setting.max_args \in Int
  <2>1. setting.max_args \in Int
    BY SettingType DEF TypeInv
  <2>2. setting.flags = {"max_args"} /\ N' = N
    BY <1>0 DEF N
  <2> QED
    BY <2>1, <2>2 DEF N, Given
<1>2. /\ used_args \in Nat /\ used_args = Len(args) /\ used_args <= N
      /\ at \in {"read", "add", "last_run"} => used_args < N
      /\ at = "run" => used_args = N
      /\ \A i \in DOMAIN ran : /\ Len(ran[i].args) <= N
                               /\ i < Len(ran) \/ ~Exited => Len(ran[i].args) = N
  BY <1>1 DEF TypeInv, Counted, Batches
<1>3. CASE SkipBlanks \/ EndLine \/ Unmatched \/ Done \/ UNCHANGED vars
  BY <1>1, <1>2, <1>3 DEF SkipBlanks, EndLine, Unmatched, Done, vars, Exited
<1>4. CASE LeaveLoop
  BY <1>1, <1>2, <1>4 DEF LeaveLoop, Exited
<1>5. CASE ReadLine
  <2>1. at = "read" /\ at' = "add" /\ used_args' = used_args /\ ran' = ran
    BY <1>1, <1>5 DEF ReadLine
  <2> QED
    BY <1>1, <1>2, <2>1 DEF Exited
<1>6. CASE AddArg
  <2>1. /\ at = "add" /\ used_args' = used_args + 1 /\ ran' = ran
        /\ at' = IF used_args + 1 >= setting.max_args THEN "run" ELSE "add"
    BY <1>1, <1>6 DEF AddArg
  <2>2. used_args' <= N /\ (at' = "add" => used_args' < N) /\ (at' = "run" => used_args' = N)
    BY <1>1, <1>2, <2>1
  <2> QED
    BY <1>1, <1>2, <2>1, <2>2 DEF Exited
<1>7. ASSUME NEW outcome \in Outcome, Run(outcome) \/ RunQuits(outcome)
      PROVE  /\ used_args' <= N'
             /\ at' \in {"read", "add", "last_run"} => used_args' < N'
             /\ at' = "run" => used_args' = N'
             /\ \A i \in DOMAIN ran' : /\ Len(ran'[i].args) <= N'
                                       /\ i < Len(ran') \/ ~Exited' => Len(ran'[i].args) = N'
  <2>1. /\ at \in {"run", "last_run"} /\ at' \in {"add", "exited"}
        /\ \/ used_args' = 0
           \/ used_args' = used_args /\ at' = "exited"
        /\ at = "last_run" => at' = "exited"
        /\ Ran(outcome)
    BY <1>7 DEF Run, RunQuits
  <2>2. /\ Len(ran) \in Nat /\ DOMAIN ran = 1..Len(ran) /\ Len(ran') = Len(ran) + 1
        /\ DOMAIN ran' = 1..(Len(ran) + 1)
        /\ \A i \in 1..Len(ran) : ran'[i] = ran[i]
        /\ ran'[Len(ran) + 1].args = args
    BY <2>1, RanIs
  <2>3. at = "run" => used_args = N
    BY <1>2
  <2>4. \A i \in 1..Len(ran) : Len(ran[i].args) = N
    BY <1>2, <2>1, <2>2 DEF Exited
  <2>5. ~Exited' => Len(args) = N
    BY <1>2, <2>1, <2>3 DEF Exited
  <2>6. ASSUME NEW i \in DOMAIN ran'
        PROVE  /\ Len(ran'[i].args) <= N
               /\ i < Len(ran') \/ ~Exited' => Len(ran'[i].args) = N
    <3>1. CASE i \in 1..Len(ran)
      BY <1>1, <2>2, <2>4, <3>1
    <3>2. CASE i = Len(ran) + 1
      BY <1>2, <2>2, <2>5, <3>2
    <3> QED
      BY <2>2, <3>1, <3>2
  <2>7. used_args' <= N' /\ (at' \in {"read", "add", "last_run"} => used_args' < N')
    BY <1>1, <1>2, <2>1
  <2> QED
    BY <1>1, <2>1, <2>6, <2>7
<1> QED
  BY <1>3, <1>4, <1>5, <1>6, <1>7, Zenon DEF Next

-------------------------------------------------------------------------------
(***************************************************************************)
(* The exit status.                                                        *)
(***************************************************************************)
LEMMA StatusStep ==
  ASSUME TypeInv, Statuses, [Next]_vars
  PROVE  Statuses'
<1> DEFINE Fine(o) == \A i \in DOMAIN o : o[i].outcome \in {"ok", "failed"}
           AllOk(o) == \A i \in DOMAIN o : o[i].outcome = "ok"
           Good == Fine(ran') /\ ret' = IF AllOk(ran') THEN 0 ELSE 123
<1>1. ASSUME Good PROVE Statuses'
  <2>1. \A i \in DOMAIN ran' : ran'[i].outcome # "missing" /\ ran'[i].outcome # "no_child"
    BY <1>1
  <2>2. StatusTells'
    BY <1>1, <2>1 DEF StatusTells
  <2> QED
    BY <1>1, <2>2 DEF Statuses
<1>2. ~Exited => Fine(ran) /\ ret = IF AllOk(ran) THEN 0 ELSE 123
  BY DEF Statuses
<1>3. CASE Done \/ UNCHANGED vars
  BY <1>3 DEF Done, vars, Statuses, StatusTells, Exited
<1>4. CASE SkipBlanks \/ ReadLine \/ AddArg \/ EndLine \/ LeaveLoop
  <2>1. ~Exited /\ ran' = ran /\ ret' = ret
    BY <1>4 DEF SkipBlanks, ReadLine, AddArg, EndLine, LeaveLoop, Exited
  <2>2. Good
    BY <1>2, <2>1
  <2> HIDE DEF Good
  <2> QED
    BY <1>1, <2>2
<1>5. CASE Unmatched
  <2>1. ~Exited /\ Exited' /\ ran' = ran /\ ret' = 1
    BY <1>5 DEF Unmatched, Exited
  <2>2. \A i \in DOMAIN ran' : ran'[i].outcome # "missing" /\ ran'[i].outcome # "no_child"
    BY <1>2, <2>1
  <2>3. StatusTells'
    BY <2>1, <2>2 DEF StatusTells
  <2> QED
    BY <2>1, <2>3 DEF Statuses
<1>6. ASSUME NEW outcome \in Outcome, Run(outcome) PROVE Statuses'
  <2>1. /\ ~Exited /\ outcome \in {"ok", "failed"} /\ Ran(outcome)
        /\ ret' = IF outcome = "failed" THEN 123 ELSE ret
    BY <1>6 DEF Run, Exited
  <2>2. /\ Len(ran) \in Nat /\ DOMAIN ran = 1..Len(ran)
        /\ DOMAIN ran' = 1..(Len(ran) + 1)
        /\ \A i \in 1..Len(ran) : ran'[i] = ran[i]
        /\ ran'[Len(ran) + 1].outcome = outcome
    BY <2>1, RanIs
  <2>3. \A i \in DOMAIN ran' : i \in 1..Len(ran) \/ i = Len(ran) + 1
    BY <2>2
  <2>4. Fine(ran')
    BY <1>2, <2>1, <2>2, <2>3
  <2>5. Len(ran) + 1 \in DOMAIN ran' /\ \A i \in 1..Len(ran) : i \in DOMAIN ran'
    BY <2>2
  <2>6. AllOk(ran') <=> AllOk(ran) /\ outcome = "ok"
    BY <2>2, <2>3, <2>5
  <2>7. ret' = IF AllOk(ran') THEN 0 ELSE 123
    <3> HIDE DEF AllOk
    <3> QED
      BY <1>2, <2>1, <2>6
  <2> HIDE DEF Fine, AllOk
  <2> QED
    BY <1>1, <2>4, <2>7
<1>7. ASSUME NEW outcome \in Outcome, RunQuits(outcome) PROVE Statuses'
  <2>1. /\ ~Exited /\ Exited' /\ outcome \in {"missing", "no_child"} /\ Ran(outcome)
        /\ ret' = IF outcome = "missing" THEN 127 ELSE 126
    BY <1>7 DEF RunQuits, Exited
  <2>2. /\ Len(ran) \in Nat /\ DOMAIN ran = 1..Len(ran) /\ Len(ran') = Len(ran) + 1
        /\ DOMAIN ran' = 1..(Len(ran) + 1)
        /\ \A i \in 1..Len(ran) : ran'[i] = ran[i]
        /\ ran'[Len(ran) + 1].outcome = outcome
    BY <2>1, RanIs
  <2>3. \A i \in DOMAIN ran' : i \in 1..Len(ran) \/ i = Len(ran) + 1
    BY <2>2
  <2>4. \A i \in 1..Len(ran) : ran'[i].outcome \in {"ok", "failed"}
    BY <1>2, <2>1, <2>2
  <2>5. \A i \in DOMAIN ran' : ran'[i].outcome \in {"missing", "no_child"} => i = Len(ran') /\ Exited'
    BY <2>1, <2>2, <2>3, <2>4
  <2>6. Len(ran) + 1 \in DOMAIN ran'
    BY <2>2
  <2>7. /\ (\E i \in DOMAIN ran' : ran'[i].outcome = "missing") <=> outcome = "missing"
        /\ (\E i \in DOMAIN ran' : ran'[i].outcome = "no_child") <=> outcome = "no_child"
    BY <2>1, <2>2, <2>3, <2>4, <2>6
  <2>8. ret' = CASE \E i \in DOMAIN ran' : ran'[i].outcome = "missing"  -> 127
                 [] \E i \in DOMAIN ran' : ran'[i].outcome = "no_child" -> 126
                 [] \A i \in DOMAIN ran' : ran'[i].outcome = "ok"       -> 0
                 [] OTHER                                               -> 123
    <3>1. CASE outcome = "missing"
      <4>1. /\ ret' = 127
            /\ ~(\E i \in DOMAIN ran' : ran'[i].outcome = "no_child")
            /\ ~(\A i \in DOMAIN ran' : ran'[i].outcome = "ok")
            /\ \E i \in DOMAIN ran' : ran'[i].outcome = "missing"
        BY <2>1, <2>2, <2>6, <2>7, <3>1
      <4> QED
        BY <4>1
    <3>2. CASE outcome = "no_child"
      <4>1. /\ ret' = 126
            /\ ~(\E i \in DOMAIN ran' : ran'[i].outcome = "missing")
            /\ ~(\A i \in DOMAIN ran' : ran'[i].outcome = "ok")
            /\ \E i \in DOMAIN ran' : ran'[i].outcome = "no_child"
        BY <2>1, <2>2, <2>6, <2>7, <3>2
      <4> QED
        BY <4>1
    <3> QED
      BY <2>1, <3>1, <3>2
  <2>9. StatusTells'
    BY <2>5, <2>8 DEF StatusTells
  <2> QED
    BY <2>1, <2>9 DEF Statuses
<1> QED
  BY <1>3, <1>4, <1>5, <1>6, <1>7, Zenon DEF Next

-------------------------------------------------------------------------------
(***************************************************************************)
(* The arguments in their order.                                           *)
(***************************************************************************)

\* What was handed out, what waits and what was scanned are sequences of words;
\* a command adds the arguments that waited to those handed out.
LEMMA HandedIs ==
  ASSUME TypeInv
  PROVE  /\ Executed \in Seq(Word) /\ args \in Seq(Word) /\ words \in Seq(Word)
         /\ ~Exited => Handed = Executed \o args \o words
<1>1. /\ Len(ran) \in Nat /\ DOMAIN ran = 1..Len(ran)
      /\ \A i \in 1..Len(ran) : ran[i].args \in Seq(Word)
  <2>1. ran \in Seq(Runs)
    BY DEF TypeInv
  <2>2. Len(ran) \in Nat /\ DOMAIN ran = 1..Len(ran) /\ \A i \in 1..Len(ran) : ran[i] \in Runs
    BY <2>1
  <2>3. \A r \in Runs : r.args \in Seq(Word)
    BY DEF Runs
  <2> QED
    BY <2>2, <2>3
<1> DEFINE a == [i \in DOMAIN ran |-> ran[i].args]
           n == Len(ran)
           S == Seq(Word)
<1>2. n \in Nat /\ a \in [1..n -> S]
  BY <1>1
<1> HIDE DEF a, n, S
<1>3. a \in Seq(S)
  BY <1>2
<1>4. FlattenSeq(a) \in Seq(Word)
  <2>1. <<>> \in Seq(Word)
    OBVIOUS
  <2> QED
    BY <1>3, <2>1, FlatAppend DEF S
<1>5. Executed = FlattenSeq(a)
  BY DEF Executed, a
<1>6. args \in Seq(Word) /\ words \in Seq(Word)
  BY DEF TypeInv
<1>7. ~Exited => Handed = Executed \o args \o words
  BY DEF Handed, Exited
<1> QED
  BY <1>4, <1>5, <1>6, <1>7

LEMMA RanMore ==
  ASSUME TypeInv, NEW outcome \in Outcome, Ran(outcome)
  PROVE  Executed' = Executed \o args
<1>1. /\ Len(ran) \in Nat /\ DOMAIN ran = 1..Len(ran)
      /\ DOMAIN ran' = 1..(Len(ran) + 1)
      /\ \A i \in 1..Len(ran) : ran'[i] = ran[i]
      /\ ran'[Len(ran) + 1].args = args
  BY RanIs
<1>2. \A i \in 1..Len(ran) : ran[i].args \in Seq(Word)
  <2>1. ran \in Seq(Runs)
    BY DEF TypeInv
  <2>2. \A i \in 1..Len(ran) : ran[i] \in Runs
    BY <2>1
  <2>3. \A r \in Runs : r.args \in Seq(Word)
    BY DEF Runs
  <2> QED
    BY <2>2, <2>3
<1>3. args \in Seq(Word)
  BY DEF TypeInv
<1> DEFINE a == [i \in DOMAIN ran |-> ran[i].args]
           b == [i \in DOMAIN ran' |-> ran'[i].args]
           n == Len(ran)
           S == Seq(Word)
<1>4. /\ n \in Nat /\ a \in [1..n -> S] /\ b \in [1..(n + 1) -> S] /\ args \in S
      /\ b[n + 1] = args
      /\ \A i \in 1..n : a[i] = b[i]
  <2>1. a \in [1..n -> S]
    BY <1>1, <1>2
  <2>2. ASSUME NEW i \in 1..(n + 1) PROVE b[i] \in S /\ (i \in 1..n => a[i] = b[i])
    <3>1. CASE i \in 1..n
      BY <1>1, <1>2, <3>1
    <3>2. CASE i = n + 1
      BY <1>1, <1>3, <3>2
    <3> QED
      BY <1>1, <3>1, <3>2
  <2>3. b = [i \in 1..(n + 1) |-> b[i]]
    BY <1>1
  <2>4. n + 1 \in 1..(n + 1)
    BY <1>1
  <2>5. b[n + 1] = args
    BY <1>1, <2>4
  <2>6. \A i \in 1..n : i \in 1..(n + 1)
    BY <1>1
  <2> HIDE DEF b
  <2> QED
    BY <1>1, <1>3, <2>1, <2>2, <2>3, <2>5, <2>6
<1> HIDE DEF a, b, n, S
<1>5. a \in Seq(S) /\ Len(a) = n /\ b \in Seq(S) /\ Len(b) = n + 1
  BY <1>4
<1> DEFINE c == Append(a, args)
<1>6. c \in Seq(S) /\ Len(c) = n + 1 /\ c[n + 1] = args /\ \A i \in 1..n : c[i] = a[i]
  BY <1>4, <1>5
<1> HIDE DEF c
<1>7. \A i \in 1..Len(b) : b[i] = c[i]
  BY <1>4, <1>5, <1>6
<1>8. b = c
  BY <1>5, <1>6, <1>7, SeqEqual
<1>9. FlattenSeq(c) = FlattenSeq(a) \o args
  BY <1>3, <1>5, FlatAppend DEF c, S
<1> QED
  BY <1>8, <1>9 DEF Executed, a, b

\* A word that add_arg takes moves from the words to the arguments.
LEMMA Moved ==
  ASSUME NEW e \in Seq(Word), NEW a \in Seq(Word), NEW w \in Seq(Word), w # <<>>
  PROVE  e \o Append(a, Head(w)) \o Tail(w) = e \o a \o w
<1> DEFINE h == Head(w)
           t == Tail(w)
           S == Word
<1>1. h \in S /\ t \in Seq(S) /\ w = <<h>> \o t
  BY HeadAndTail
<1> HIDE DEF h, t, S
<1>2. e \in Seq(S) /\ a \in Seq(S) /\ <<h>> \in Seq(S)
  BY <1>1 DEF S
<1>3. Append(a, h) = a \o <<h>>
  BY <1>1, <1>2, AppendIsConcat
<1>4. e \o (a \o <<h>>) = (e \o a) \o <<h>> /\ e \o a \in Seq(S)
  BY <1>2, ConcatAssociative, ConcatProperties
<1>5. ((e \o a) \o <<h>>) \o t = (e \o a) \o (<<h>> \o t)
  BY <1>1, <1>2, <1>4, ConcatAssociative
<1> QED
  BY <1>1, <1>3, <1>4, <1>5 DEF h, t

LEMMA InitOrder == Init => InOrder /\ Counted /\ Batches /\ Statuses /\ NothingLeft
<1> SUFFICES ASSUME Init PROVE InOrder /\ Counted /\ Batches /\ Statuses /\ NothingLeft
  OBVIOUS
<1>1. TypeInv
  BY InitType
<1>2. setting \in Settings
  BY DEF Init
<1>3. /\ ~Exited /\ ran = <<>> /\ args = <<>> /\ words = <<>> /\ used_args = 0 /\ ret = 0
      /\ at = "read" /\ after = "read" /\ input = Text(setting.lines, setting.trails, setting.newline)
  BY DEF Init, Exited
<1>4. Counted /\ Statuses /\ NothingLeft
  BY <1>3 DEF Counted, Statuses, NothingLeft
<1>5. Batches
  <2>1. setting.max_args \in Int
    BY <1>2, SettingType
  <2>2. N \in Nat /\ N >= 1
    BY <2>1 DEF N
  <2> QED
    BY <1>3, <2>2 DEF Batches
<1>6. ReadUpTo(0)
  <2>1. Start(0) = 0
    BY FlatStart DEF Start
  <2>2. /\ End \in Nat /\ Len(input) = End
        /\ \A i \in 1..End : input[i] = FlattenSeq(Full)[i]
    BY <1>2, <1>3, TextIs DEF End
  <2>3. Handed = <<>>
    <3>1. Executed = <<>>
      <4>1. DOMAIN ran = {}
        BY <1>3
      <4>2. [i \in DOMAIN ran |-> ran[i].args] = <<>>
        BY <4>1
      <4> QED
        BY <4>2 DEF Executed, FlattenSeq
    <3> QED
      BY <1>1, <1>3, <3>1, HandedIs
  <2>4. Meant(SubSeq(setting.lines, 1, 0)) = <<>>
    <3>1. WordsIn(<<>>) = <<>>
      BY DEF WordsIn
    <3> QED
      BY <3>1, FlatStart, MeantIs
  <2>5. \A i \in 1..End : 0 + i = i
    BY <2>2
  <2>6. \A i \in 1..(0 - 1) : ~Stops(i)
    OBVIOUS
  <2>7. after # "last"
    BY <1>3
  <2> QED
    BY <2>1, <2>2, <2>3, <2>4, <2>5, <2>6, <2>7 DEF ReadUpTo
<1>7. 0 \in 0..Len(setting.lines)
  BY <1>2, FullType
<1>8. InOrder
  BY <1>3, <1>6, <1>7 DEF InOrder
<1> QED
  BY <1>4, <1>5, <1>8

\* Only the last line can be passed over, a blank without a word or a newline.
LEMMA SkippedIs ==
  ASSUME TypeInv, WellFormed, SkipBlanks, NEW k \in 0..Len(setting.lines), ReadUpTo(k)
  PROVE  /\ k \in Nat /\ k + 1 = Len(setting.lines) /\ setting.lines[k + 1] = <<>>
         /\ Len(input') = IF Start(k + 1) <= End THEN End - Start(k + 1) ELSE 0
         /\ \A i \in 1..Len(input') : input'[i] = FlattenSeq(Full)[Start(k + 1) + i]
<1>1. /\ input # <<>> /\ Range(Line(input)) \subseteq Blank
      /\ input' = SubSeq(input, Len(Line(input)) + 1, Len(input))
  BY DEF SkipBlanks
<1> DEFINE line == setting.lines[k + 1]
           x == LineText(line)
           z == Raw(k + 1)
<1>2. /\ k \in Nat /\ k < Len(setting.lines)
      /\ \/ Line(input) = Append(z, Newline)
         \/ Line(input) = z /\ z # <<>> /\ k + 1 = Len(setting.lines)
      /\ Len(input') = IF Start(k + 1) <= End THEN End - Start(k + 1) ELSE 0
      /\ \A i \in 1..Len(input') : input'[i] = FlattenSeq(Full)[Start(k + 1) + i]
  BY <1>1, NextLine
<1>3. /\ line \in Seq(WordType) /\ AllSpelled(line) /\ x \in Seq(Char) /\ z \in Seq(Char)
      /\ setting.trails[k + 1] \in Seq(Char) /\ z = x \o setting.trails[k + 1]
  <2>1. setting \in Settings
    BY DEF TypeInv
  <2>2. k + 1 \in DOMAIN setting.lines
    BY <1>2, <2>1, FullType
  <2>3. AllSpelled(line)
    BY <2>2 DEF WellFormed, AllSpelled
  <2>4. Char \ {Newline} \subseteq Char
    OBVIOUS
  <2>5. setting.trails[k + 1] \in Trail
    BY <2>1, <2>2, FullType
  <2>6. setting.trails[k + 1] \in Seq(Char)
    BY <2>4, <2>5, TrailType, Widen
  <2> QED
    BY <2>1, <2>2, <2>3, <2>6, FullType DEF Raw
<1>4. Line(input) # Append(z, Newline)
  <2> SUFFICES ASSUME Line(input) = Append(z, Newline) PROVE FALSE
    OBVIOUS
  <2>1. Newline \in Char /\ Newline \notin Blank /\ z \in Seq(Char)
    BY <1>3 DEF Char, Special, Newline, Blank
  <2> HIDE DEF z
  <2>2. Len(z) + 1 \in DOMAIN Append(z, Newline) /\ Append(z, Newline)[Len(z) + 1] = Newline
    BY <2>1
  <2>3. Newline \in Range(Line(input))
    BY <2>2 DEF Range
  <2> QED
    BY <1>1, <2>1, <2>3
<1>5. line = <<>>
  <2> SUFFICES ASSUME line # <<>> PROVE FALSE
    OBVIOUS
  <2>1. x # <<>> /\ x[1] \notin Blank
    BY <1>3, LineStarts
  <2> DEFINE y == setting.trails[k + 1]
  <2> HIDE DEF x, y, z
  <2>2. 1 \in DOMAIN z /\ z[1] = x[1]
    BY <1>3, <2>1 DEF y
  <2> QED
    BY <1>1, <1>2, <1>4, <2>1, <2>2 DEF Range
<1> QED
  BY <1>2, <1>4, <1>5

LEMMA OrderSkip ==
  ASSUME TypeInv, InOrder, WellFormed, SkipBlanks
  PROVE  \E k \in 0..Len(setting.lines) : ReadUpTo(k)'
<1>1. at = "read" /\ UNCHANGED <<setting, at, words, after, args, ret, ran>>
  BY DEF SkipBlanks
<1>2. PICK k \in 0..Len(setting.lines) : ReadUpTo(k)
  BY DEF InOrder
<1>3. /\ k \in Nat /\ k + 1 = Len(setting.lines) /\ setting.lines[k + 1] = <<>>
      /\ Len(input') = IF Start(k + 1) <= End THEN End - Start(k + 1) ELSE 0
      /\ \A i \in 1..Len(input') : input'[i] = FlattenSeq(Full)[Start(k + 1) + i]
  BY <1>2, SkippedIs
<1>4. setting \in Settings /\ k < Len(setting.lines)
  BY <1>3 DEF TypeInv
<1>5. Handed' = Meant(SubSeq(setting.lines, 1, k + 1))
  <2>1. Handed' = Handed /\ Handed = Meant(SubSeq(setting.lines, 1, k))
    BY <1>1, <1>2 DEF Handed, Executed, ReadUpTo
  <2>2. /\ Meant(SubSeq(setting.lines, 1, k)) \in Seq(Word)
        /\ Meant(SubSeq(setting.lines, 1, k + 1))
             = Meant(SubSeq(setting.lines, 1, k)) \o WordsIn(setting.lines[k + 1])
    BY <1>3, <1>4, MeantStep
  <2> QED
    BY <1>3, <2>1, <2>2, NoWords, ConcatEmptySeq
<1>6. after = "read"
  BY <1>1 DEF InOrder
<1>7. \A i \in 1..k : ~Stops(i)
  BY <1>2, <1>3, <1>4, <1>6 DEF ReadUpTo
<1>8. ReadUpTo(k + 1)'
  <2>1. /\ Start(k + 1)' = Start(k + 1) /\ End' = End /\ Full' = Full
        /\ \A i : Stops(i)' = Stops(i)
    BY <1>1 DEF Start, End, Full, Raw, Stops
  <2>2. k + 1 - 1 = k /\ after' = "read"
    BY <1>1, <1>3, <1>6
  <2> QED
    BY <1>1, <1>3, <1>5, <1>7, <2>1, <2>2 DEF ReadUpTo
<1>9. k + 1 \in 0..Len(setting.lines)
  BY <1>3
<1> QED
  BY <1>8, <1>9

LEMMA OrderRead ==
  ASSUME TypeInv, InOrder, WellFormed, ReadLine
  PROVE  /\ after' # "unmatched"
         /\ \E k \in 0..Len(setting.lines) : ReadUpTo(k)'
<1>1. /\ at = "read" /\ input # <<>> /\ at' = "add"
      /\ input' = SubSeq(input, Len(Line(input)) + 1, Len(input))
      /\ UNCHANGED <<setting, args, ret, ran>>
  BY DEF ReadLine
<1>2. PICK k \in 0..Len(setting.lines) : ReadUpTo(k)
  BY DEF InOrder
<1> DEFINE line == setting.lines[k + 1]
           trail == setting.trails[k + 1]
           z == Raw(k + 1)
           y == Line(input)
           s == Scanned(y)
<1>3. /\ k \in Nat /\ k < Len(setting.lines)
      /\ y = Append(z, Newline) \/ (y = z /\ k + 1 = Len(setting.lines))
      /\ Len(input') = IF Start(k + 1) <= End THEN End - Start(k + 1) ELSE 0
      /\ \A i \in 1..Len(input') : input'[i] = FlattenSeq(Full)[Start(k + 1) + i]
  BY <1>1, <1>2, NextLine
<1>4. setting \in Settings /\ line \in Seq(WordType) /\ AllSpelled(line) /\ trail \in Trail
  <2>1. setting \in Settings
    BY DEF TypeInv
  <2>2. k + 1 \in DOMAIN setting.lines
    BY <1>3, <2>1, FullType
  <2>3. AllSpelled(line)
    BY <2>2 DEF WellFormed, AllSpelled
  <2> QED
    BY <2>1, <2>2, <2>3, FullType
<1>5. /\ s.quote = NoQuote /\ WordsOf(s) = WordsIn(line)
      /\ s.space = Newline => ~Stops(k + 1)
      /\ s.space # Newline => k + 1 = Len(setting.lines) \/ Stops(k + 1)
  <2>1. z = LineText(line) \o trail
    BY DEF Raw
  <2>2. Stops(k + 1) <=> ~(line # <<>> /\ trail = <<>>)
    BY DEF Stops
  <2> HIDE DEF y, z
  <2>3. CASE y = z
    <3>1. s.quote = NoQuote /\ WordsOf(s) = WordsIn(line) /\ s.space # Newline
      BY <1>4, <2>1, <2>3, LineScans
    <3>2. CASE y = Append(z, Newline)
      <4>1. s.space = Newline <=> line # <<>> /\ trail = <<>>
        BY <1>4, <2>1, <3>2, LineScans
      <4> QED
        BY <2>2, <3>1, <4>1
    <3> QED
      BY <1>3, <2>2, <2>3, <3>1, <3>2
  <2>4. CASE y = Append(z, Newline)
    <3>1. /\ s.quote = NoQuote /\ WordsOf(s) = WordsIn(line)
          /\ s.space = Newline <=> line # <<>> /\ trail = <<>>
      BY <1>4, <2>1, <2>4, LineScans
    <3> QED
      BY <2>2, <3>1
  <2> QED
    BY <1>3, <2>3, <2>4
<1>6. /\ words' = WordsIn(line)
      /\ after' = IF s.space = Newline THEN "read" ELSE "last"
  BY <1>5, ReadLineIs
<1>7. \A i \in 1..k : ~Stops(i)
  <2>1. after = "read"
    BY <1>1 DEF InOrder
  <2> QED
    BY <1>2, <1>3, <2>1 DEF ReadUpTo
<1>8. Handed' = Meant(SubSeq(setting.lines, 1, k + 1))
  <2>1. ~Exited /\ words = <<>>
    BY <1>1 DEF TypeInv, Exited
  <2>2. /\ Executed \in Seq(Word) /\ args \in Seq(Word)
        /\ Handed = Executed \o args \o words
    BY <2>1, HandedIs
  <2>3. Executed \o args \in Seq(Word) /\ (Executed \o args) \o <<>> = Executed \o args
    BY <2>2, ConcatProperties, ConcatEmptySeq
  <2>4. Handed' = Executed \o args \o words'
    BY <1>1 DEF Handed, Executed
  <2>5. Handed = Meant(SubSeq(setting.lines, 1, k))
    BY <1>2 DEF ReadUpTo
  <2> QED
    BY <1>3, <1>4, <1>6, <2>1, <2>2, <2>3, <2>4, <2>5, MeantStep
<1>9. ReadUpTo(k + 1)'
  <2>1. /\ Start(k + 1)' = Start(k + 1) /\ End' = End /\ Full' = Full
        /\ \A i : Stops(i)' = Stops(i)
    BY <1>1 DEF Start, End, Full, Raw, Stops
  <2>2. k + 1 - 1 = k /\ k + 1 > 0
    BY <1>3
  <2> HIDE DEF s
  <2> QED
    BY <1>1, <1>3, <1>5, <1>6, <1>7, <1>8, <2>1, <2>2 DEF ReadUpTo
<1>10. k + 1 \in 0..Len(setting.lines)
  BY <1>3, <1>4, FullType
<1> QED
  BY <1>6, <1>9, <1>10

LEMMA OrderStep ==
  ASSUME TypeInv, Counted, InOrder, NothingLeft, [Next]_vars
  PROVE  InOrder' /\ NothingLeft'
<1>0. setting' = setting
  BY DEF Next, SkipBlanks, ReadLine, AddArg, EndLine, Unmatched, LeaveLoop, Run, RunQuits, Done, vars
<1>1. WellFormed' = WellFormed /\ Given("max_lines")' = Given("max_lines")
  BY <1>0 DEF WellFormed, Given
<1> SUFFICES ASSUME WellFormed
             PROVE  InOrder' /\ NothingLeft'
  BY <1>1 DEF InOrder, NothingLeft
<1> DEFINE Ends == /\ at' = "read" => after' = "read"
                   /\ at' = "last_run" => after' = "last" \/ input' = <<>>
           Clean == Exited' /\ ret' \in {0, 123} /\ ~Given("max_lines") =>
                      (after' = "last" \/ input' = <<>>) /\ words' = <<>> /\ args' = <<>>
           Read == \E k \in 0..Len(setting.lines) : ReadUpTo(k)'
           Good == Read /\ after' # "unmatched" /\ Ends /\ Clean
<1>2. ASSUME Good PROVE InOrder' /\ NothingLeft'
  <2>1. Clean /\ (NothingLeft' <=> (WellFormed => Clean))
    BY <1>1, <1>2 DEF NothingLeft
  <2>2. Read => (\E k \in 0..Len(setting'.lines) : ReadUpTo(k)')
    BY <1>0
  <2>3. InOrder'
    BY <1>1, <1>2, <2>2 DEF InOrder
  <2> QED
    BY <2>1, <2>3
<1>3. /\ after # "unmatched"
      /\ at = "read" => after = "read"
      /\ at = "last_run" => after = "last" \/ input = <<>>
  BY DEF InOrder
<1>4. ASSUME Handed' = Handed, input' = input, after' = after PROVE Read
  <2>1. PICK k \in 0..Len(setting.lines) : ReadUpTo(k)
    BY DEF InOrder
  <2>2. /\ Start(k)' = Start(k) /\ End' = End /\ Full' = Full
        /\ \A i : Stops(i)' = Stops(i)
    BY <1>0 DEF Start, End, Full, Raw, Stops
  <2>3. ReadUpTo(k)'
    BY <1>0, <1>4, <2>1, <2>2 DEF ReadUpTo
  <2> QED
    BY <2>3
<1>5. /\ Executed \in Seq(Word) /\ args \in Seq(Word) /\ words \in Seq(Word)
      /\ ~Exited => Handed = Executed \o args \o words
      /\ Executed \o args \in Seq(Word)
      /\ (Executed \o args) \o <<>> = Executed \o args
  <2>1. /\ Executed \in Seq(Word) /\ args \in Seq(Word) /\ words \in Seq(Word)
        /\ ~Exited => Handed = Executed \o args \o words
    BY HandedIs
  <2>2. Executed \o args \in Seq(Word)
    BY <2>1, ConcatProperties
  <2> QED
    BY <2>1, <2>2, ConcatEmptySeq
<1> HIDE DEF Read
<1>6. CASE SkipBlanks
  <2>1. Read
    BY <1>6, OrderSkip DEF Read
  <2>2. at' = "read" /\ at = "read" /\ after' = after
    BY <1>6 DEF SkipBlanks
  <2> QED
    BY <1>2, <1>3, <2>1, <2>2 DEF Exited
<1>7. CASE ReadLine
  <2>1. Read /\ after' # "unmatched"
    BY <1>7, OrderRead DEF Read
  <2>2. at' = "add"
    BY <1>7 DEF ReadLine
  <2> QED
    BY <1>2, <2>1, <2>2 DEF Exited
<1>8. CASE AddArg
  <2>1. /\ at = "add" /\ words # <<>> /\ words' = Tail(words) /\ args' = Append(args, Head(words))
        /\ at' \in {"add", "run"} /\ UNCHANGED <<input, after, ran>>
    BY <1>8 DEF AddArg
  <2>2. Handed' = Executed \o args' \o words'
    BY <2>1 DEF Handed, Executed
  <2>3. Handed = Executed \o args \o words
    BY <1>5, <2>1 DEF Exited
  <2>4. Executed \o Append(args, Head(words)) \o Tail(words) = Executed \o args \o words
    BY <1>5, <2>1, Moved
  <2>5. Read
    BY <1>4, <2>1, <2>2, <2>3, <2>4
  <2> QED
    BY <1>2, <1>3, <2>1, <2>5 DEF Exited
<1>9. CASE EndLine
  <2>1. /\ at = "add" /\ at' = "read" /\ after = "read"
        /\ UNCHANGED <<input, words, after, args, ran>>
    BY <1>9 DEF EndLine
  <2>2. Handed' = Handed
    BY <2>1 DEF Handed, Executed
  <2> QED
    BY <1>2, <1>3, <1>4, <2>1, <2>2 DEF Exited
<1>10. CASE Unmatched
  BY <1>3, <1>10 DEF Unmatched
<1>11. CASE LeaveLoop
  <2>1. /\ UNCHANGED <<input, words, after, args, used_args, ret, ran>>
        /\ (at = "read" /\ input = <<>>) \/ (at = "add" /\ words = <<>> /\ after = "last")
        /\ at' = IF used_args > 0 THEN "last_run" ELSE "exited"
    BY <1>11 DEF LeaveLoop
  <2>2. ret \in {0, 123} /\ words = <<>> /\ used_args \in Nat
    BY <2>1 DEF TypeInv, Exited
  <2>3. Handed' = Handed
    BY <2>1, <2>2 DEF Handed, Executed
  <2>4. after' = "last" \/ input' = <<>>
    BY <2>1
  <2>5. Exited' /\ ~Given("max_lines") => args = <<>>
    <3>1. SUFFICES ASSUME Exited', ~Given("max_lines") PROVE args = <<>>
      OBVIOUS
    <3>2. ~(used_args > 0)
      BY <2>1, <3>1 DEF Exited
    <3>3. Len(args) = 0
      BY <2>2, <3>1, <3>2 DEF Counted
    <3> QED
      BY <1>5, <3>3
  <2>6. Read
    BY <1>4, <2>1, <2>3
  <2> QED
    BY <1>2, <1>3, <2>1, <2>2, <2>4, <2>5, <2>6
<1>12. ASSUME NEW outcome \in Outcome, Run(outcome) PROVE InOrder' /\ NothingLeft'
  <2>1. /\ at \in {"run", "last_run"} /\ Ran(outcome) /\ args' = <<>>
        /\ at' = IF at = "run" THEN "add" ELSE "exited"
        /\ UNCHANGED <<input, words, after>>
    BY <1>12 DEF Run
  <2>2. Executed' = Executed \o args
    BY <2>1, RanMore
  <2>3. Handed' = (Executed \o args) \o <<>> \o words
    BY <2>1, <2>2 DEF Handed
  <2>4. Read
    BY <1>4, <1>5, <2>1, <2>3 DEF Exited
  <2>5. Exited' => (after' = "last" \/ input' = <<>>) /\ words' = <<>>
    BY <1>3, <2>1 DEF TypeInv, Exited
  <2> QED
    BY <1>2, <1>3, <2>1, <2>4, <2>5
<1>13. ASSUME NEW outcome \in Outcome, RunQuits(outcome) PROVE InOrder' /\ NothingLeft'
  <2>1. /\ at \in {"run", "last_run"} /\ Ran(outcome) /\ at' = "exited" /\ ret' \in {126, 127}
        /\ UNCHANGED <<input, words, after>>
    BY <1>13 DEF RunQuits
  <2>2. Executed' = Executed \o args
    BY <2>1, RanMore
  <2>3. ret' > 123
    BY <2>1
  <2>4. Handed' = (Executed \o args) \o <<>> \o words
    BY <2>1, <2>2, <2>3 DEF Handed
  <2>5. Read
    BY <1>4, <1>5, <2>1, <2>4 DEF Exited
  <2> QED
    BY <1>2, <1>3, <2>1, <2>5
<1>14. CASE Done \/ UNCHANGED vars
  <2>1. UNCHANGED vars
    BY <1>14 DEF Done
  <2>2. Handed' = Handed
    BY <2>1 DEF Handed, Executed, vars
  <2>3. Clean
    BY <2>1 DEF vars, NothingLeft, Exited
  <2> QED
    BY <1>2, <1>3, <1>4, <2>1, <2>2, <2>3 DEF vars
<1> QED
  BY <1>6, <1>7, <1>8, <1>9, <1>10, <1>11, <1>12, <1>13, <1>14, Zenon DEF Next

-------------------------------------------------------------------------------
(***************************************************************************)
(* The theorems.                                                           *)
(***************************************************************************)

\* The invariant is inductive: it holds at first and every step keeps it.
THEOREM Inductive == Spec => []IInv
<1>1. Init => IInv
  BY InitType, InitOrder DEF IInv
<1>2. IInv /\ [Next]_vars => IInv'
  <2> SUFFICES ASSUME IInv, [Next]_vars PROVE IInv'
    OBVIOUS
  <2>1. TypeInv /\ Counted /\ Batches /\ Statuses /\ InOrder /\ NothingLeft
    BY DEF IInv
  <2>2. TypeInv' /\ Counted' /\ Batches' /\ Statuses'
    BY <2>1, TypeStep, CountedStep, BatchStep, StatusStep
  <2>3. InOrder' /\ NothingLeft'
    BY <2>1, OrderStep
  <2> QED
    BY <2>2, <2>3 DEF IInv
<1> QED
  BY <1>1, <1>2, PTL DEF Spec

\* With -n N every command but the last gets exactly N arguments and the last at
\* most N, whatever the lines are and wherever a batch ends in them.
THEOREM FullBatchesHolds == Spec => []FullBatches
<1>1. IInv => FullBatches
  <2> SUFFICES ASSUME IInv, setting.flags = {"max_args"}
               PROVE  \A i \in DOMAIN ran : /\ Len(ran[i].args) <= N
                                            /\ i < Len(ran) => Len(ran[i].args) = N
    BY DEF FullBatches, N
  <2> QED
    BY DEF IInv, Batches
<1> QED
  BY <1>1, Inductive, PTL

\* The exit status tells how the commands ended, and no command runs behind one
\* that is missing or cannot be started.
THEOREM StatusHolds == Spec => []StatusTells
<1>1. IInv => StatusTells
  <2> SUFFICES ASSUME IInv, ~Exited PROVE StatusTells
    BY DEF IInv, Statuses
  <2>1. \A i \in DOMAIN ran : ran[i].outcome # "missing" /\ ran[i].outcome # "no_child"
    BY DEF IInv, Statuses
  <2> QED
    BY <2>1 DEF StatusTells
<1> QED
  BY <1>1, Inductive, PTL

\* At every moment what was handed to commands, what waits in cur_argv and what
\* was scanned are the beginning of what the input spells: for words of every
\* length in every style, lines of every number, batches of every size.
THEOREM OrderHolds == Spec => []ArgumentsInOrder
<1>1. IInv => ArgumentsInOrder
  <2> SUFFICES ASSUME IInv, WellFormed PROVE IsPrefix(Handed, Meant(setting.lines))
    BY DEF ArgumentsInOrder
  <2>1. setting \in Settings
    BY DEF IInv, TypeInv
  <2>2. PICK k \in 0..Len(setting.lines) : ReadUpTo(k)
    BY DEF IInv, InOrder
  <2>3. Handed = Meant(SubSeq(setting.lines, 1, k))
    BY <2>2 DEF ReadUpTo
  <2> QED
    BY <2>1, <2>3, MeantPrefix
<1> QED
  BY <1>1, Inductive, PTL

\* When xargs returns and no command was missing, every word of the lines up to and
\* including the first that ends the input (without a word, or with a blank behind its
\* last word) has been an argument of exactly one command, in their order, and no
\* other word has.
THEOREM AllExecutedHolds == Spec => []AllExecuted
<1>1. IInv => AllExecuted
  <2> DEFINE L == setting.lines
             Upto(n) == /\ Executed = Meant(SubSeq(L, 1, n))
                        /\ n < Len(L) => n > 0 /\ Stops(n)
                        /\ \A i \in 1..(n - 1) : ~Stops(i)
  <2> SUFFICES ASSUME IInv, Exited, ret \in {0, 123}, WellFormed, ~Given("max_lines")
               PROVE  \E n \in 0..Len(L) : Upto(n)
    BY DEF AllExecuted
  <2>1. TypeInv /\ setting \in Settings
    BY DEF IInv, TypeInv
  <2>2. (after = "last" \/ input = <<>>) /\ words = <<>> /\ args = <<>> /\ after # "unmatched"
    BY DEF IInv, NothingLeft, InOrder
  <2>3. PICK k \in 0..Len(L) : ReadUpTo(k)
    BY DEF IInv, InOrder
  <2>4. Handed = Executed
    <3>1. Executed \in Seq(Word) /\ Handed = (Executed \o <<>>) \o <<>>
      BY <2>1, <2>2, HandedIs DEF Handed
    <3> QED
      BY <3>1, ConcatEmptySeq
  <2>5. Executed = Meant(SubSeq(L, 1, k)) /\ \A i \in 1..(k - 1) : ~Stops(i)
    BY <2>3, <2>4 DEF ReadUpTo
  <2>6. k \in Nat /\ Len(L) \in Nat /\ k <= Len(L) /\ k \in 0..Len(L)
    BY <2>1, FullType
  <2>7. CASE after = "last" \/ k = Len(L)
    <3>1. k < Len(L) => k > 0 /\ Stops(k)
      BY <2>3, <2>6, <2>7 DEF ReadUpTo
    <3> QED
      BY <2>5, <2>6, <3>1
  <2>8. CASE after = "read" /\ k < Len(L)
    <3> DEFINE line == L[k + 1]
               x == Raw(k + 1)
    <3>1. /\ k + 1 \in DOMAIN L /\ k + 1 \in 1..Len(L) /\ line \in Seq(WordType)
          /\ LineText(line) \in Seq(Char) /\ setting.trails[k + 1] \in Trail
      BY <2>1, <2>6, <2>8, FullType
    <3>2. AllSpelled(line)
      BY <3>1 DEF WellFormed, AllSpelled
    <3>3. /\ Start(k) \in Nat /\ Len(x) \in Nat /\ Start(k) + Len(x) + 1 <= End + 1
          /\ Start(k + 1) = Start(k) + Len(x) + 1
      BY <2>1, <2>6, <2>8, LineLies
    <3>4. End \in Nat
      BY <2>1, TextIs
    <3>5. Len(input) = 0 /\ Len(input) = IF Start(k) <= End THEN End - Start(k) ELSE 0
      BY <2>2, <2>3, <2>8 DEF ReadUpTo
    <3>6. Len(x) = 0 /\ Start(k) = End
      BY <3>3, <3>4, <3>5
    <3>7. line = <<>>
      <4> SUFFICES ASSUME line # <<>> PROVE FALSE
        OBVIOUS
      <4>1. LineText(line) # <<>>
        BY <3>1, <3>2, LineStarts
      <4> DEFINE y == LineText(line)
                 t == setting.trails[k + 1]
      <4>2. y \in Seq(Char) /\ y # <<>> /\ t \in Seq(Char \ {Newline}) /\ x = y \o t
        BY <3>1, <4>1, TrailType DEF Raw
      <4> HIDE DEF x, y, t
      <4>3. Len(y) >= 1 /\ Len(t) \in Nat /\ Len(x) = Len(y) + Len(t)
        BY <4>2
      <4> QED
        BY <3>6, <4>3
    <3>8. k + 1 = Len(L)
      <4> SUFFICES ASSUME k + 1 < Len(L) PROVE FALSE
        BY <2>6, <2>8
      <4>1. k + 1 \in Nat
        BY <2>6
      <4>2. /\ Start(k + 1) \in Nat /\ Len(Raw(k + 1 + 1)) \in Nat
            /\ Start(k + 1) + Len(Raw(k + 1 + 1)) + 1 <= End + 1
        BY <2>1, <4>1, LineLies
      <4> QED
        BY <3>3, <3>4, <3>6, <4>2
    <3>9. Meant(SubSeq(L, 1, k + 1)) = Meant(SubSeq(L, 1, k))
      <4>1. /\ Meant(SubSeq(L, 1, k)) \in Seq(Word)
            /\ Meant(SubSeq(L, 1, k + 1)) = Meant(SubSeq(L, 1, k)) \o WordsIn(line)
        BY <2>1, <2>6, <2>8, MeantStep
      <4> QED
        BY <3>7, <4>1, NoWords, ConcatEmptySeq
    <3>10. \A i \in 1..k : ~Stops(i)
      BY <2>3, <2>5, <2>6, <2>8 DEF ReadUpTo
    <3>11. k + 1 - 1 = k /\ k + 1 \in 0..Len(L) /\ ~(k + 1 < Len(L))
      BY <2>6, <3>8
    <3>12. Upto(k + 1)
      BY <2>5, <3>9, <3>10, <3>11
    <3> HIDE DEF Upto, L
    <3> QED
      BY <3>11, <3>12
  <2>9. after \in {"read", "last"}
    BY <2>1, <2>2 DEF TypeInv
  <2> HIDE DEF L
  <2> QED
    BY <2>6, <2>7, <2>8, <2>9
<1> QED
  BY <1>1, Inductive, PTL

===============================================================================
