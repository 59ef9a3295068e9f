------------------------------ MODULE WalkProofs ------------------------------
(***************************************************************************)
(* Proofs about Walk: chmod and chown change the attributes only of what   *)
(* their operands lead to, and only as the operands say (OnlyReached), for *)
(* any number of processes, any tree and any settings.                     *)
(*                                                                         *)
(* In front of them stand the proofs about Inflate: for every size of the  *)
(* window, every word and every file, valid or not, the pointers stay in   *)
(* the window and it holds the end of what has been written.               *)
(***************************************************************************)
EXTENDS Inflate, Walk, FileSystemProofs, FiniteSetTheorems

-------------------------------------------------------------------------------
(***************************************************************************)
(* Arithmetic modulo the size of the window.                               *)
(***************************************************************************)
LEMMA WindowSize == WINDOW_SIZE \in Nat /\ WINDOW_SIZE > 0
  BY InflateAssumption

\* The remainder is the only number below m at a multiple of m from i.
LEMMA RemainderIs ==
  ASSUME NEW m \in Nat, m > 0, NEW i \in Int, NEW r \in 0..(m - 1), NEW q \in Int, i = q * m + r
  PROVE  i % m = r
  OBVIOUS

LEMMA RemainderInRange ==
  ASSUME NEW m \in Nat, m > 0, NEW i \in Int
  PROVE  i % m \in 0..(m - 1)
  OBVIOUS

\* NextPtr steps through the window and starts again behind its end.
LEMMA NextPtrIs ==
  ASSUME NEW i \in 0..(WINDOW_SIZE - 1)
  PROVE  NextPtr(i) = IF i = WINDOW_SIZE - 1 THEN 0 ELSE i + 1
  <1>1. CASE i = WINDOW_SIZE - 1
    BY <1>1, WindowSize, RemainderIs DEF NextPtr
  <1>2. CASE i < WINDOW_SIZE - 1
    BY <1>2, WindowSize, RemainderIs DEF NextPtr
  <1> QED
    BY <1>1, <1>2, WindowSize

\* The place that lies d before a pointer.
LEMMA PlaceBefore ==
  ASSUME NEW i \in 0..(WINDOW_SIZE - 1), NEW d \in 1..WINDOW_SIZE
  PROVE  (i - d + WINDOW_SIZE) % WINDOW_SIZE = IF d <= i THEN i - d ELSE i - d + WINDOW_SIZE
  <1>1. CASE d <= i
    <2>1. i - d + WINDOW_SIZE = 1 * WINDOW_SIZE + (i - d)
      BY <1>1, WindowSize
    <2>2. i - d \in 0..(WINDOW_SIZE - 1)
      BY <1>1, WindowSize
    <2> QED
      BY <1>1, <2>1, <2>2, WindowSize, RemainderIs
  <1>2. CASE d > i
    <2>1. i - d + WINDOW_SIZE = 0 * WINDOW_SIZE + (i - d + WINDOW_SIZE)
      BY <1>2, WindowSize
    <2>2. i - d + WINDOW_SIZE \in 0..(WINDOW_SIZE - 1)
      BY <1>2, WindowSize
    <2> QED
      BY <1>2, <2>1, <2>2, WindowSize, RemainderIs
  <1> QED
    BY <1>1, <1>2

-------------------------------------------------------------------------------
(***************************************************************************)
(* What is read are natural numbers, whatever the bits are.                *)
(***************************************************************************)
LEMMA BitType == \A i : Bit(i) \in {0, 1}
  BY DEF Bit

LEMMA NumberType ==
  ASSUME NEW n \in Nat, NEW b \in [1..n -> {0, 1}]
  PROVE  Number(b, n) \in Nat
  <1> DEFINE bit(i) == IF i <= n THEN b[i] ELSE 0
             four(i, x) == bit(i) + 2 * bit(i + 1) + 4 * bit(i + 2) + 8 * bit(i + 3) + 16 * x
  <1>1. ASSUME NEW i \in Nat, i > 0 PROVE bit(i) \in Nat
    <2>1. CASE i <= n
      <3>1. b[i] = 0 \/ b[i] = 1
        BY <1>1, <2>1
      <3> QED
        BY <2>1, <3>1
    <2> QED
      BY <2>1
  <1> HIDE DEF bit
  <1>2. ASSUME NEW i \in Nat, i > 0, NEW x \in Nat PROVE four(i, x) \in Nat
    <2> DEFINE b0 == bit(i)
               b1 == bit(i + 1)
               b2 == bit(i + 2)
               b3 == bit(i + 3)
    <2>1. b0 \in Nat /\ b1 \in Nat /\ b2 \in Nat /\ b3 \in Nat
      BY <1>1, <1>2
    <2> HIDE DEF b0, b1, b2, b3
    <2>2. b0 + 2 * b1 + 4 * b2 + 8 * b3 + 16 * x \in Nat
      BY <1>2, <2>1
    <2> QED
      BY <2>2 DEF b0, b1, b2, b3
  <1> HIDE DEF four
  <1> DEFINE high    == four(13, 0)
             third   == four(9, high)
             second  == four(5, third)
  <1>3. high \in Nat
    BY <1>2
  <1> HIDE DEF high
  <1>4. third \in Nat
    BY <1>2, <1>3
  <1> HIDE DEF third
  <1>5. second \in Nat
    BY <1>2, <1>4
  <1> HIDE DEF second
  <1>6. four(1, second) \in Nat
    BY <1>2, <1>5
  <1> QED
    BY <1>6 DEF Number, second, third, high, four, bit

LEMMA LowType == ASSUME NEW from, NEW n \in Nat PROVE Low(from, n) \in Nat
  BY NumberType, BitType DEF Low

LEMMA HighType == ASSUME NEW from, NEW n \in Nat PROVE High(from, n) \in Nat
  BY NumberType, BitType DEF High

Entry == [base : Nat, extra_bits : Nat]

LEMMA TablesType ==
  /\ \A k \in 1..Len(lenght_table) : lenght_table[k] \in Entry
  /\ \A k \in 1..Len(dist_table) : dist_table[k] \in Entry
  /\ Len(lenght_table) \in Nat /\ Len(dist_table) \in Nat
  BY DEF lenght_table, dist_table, Table, Entry

LEMMA EntriesType ==
  ASSUME NEW table, \A k \in 1..Len(table) : table[k] \in Entry, Len(table) \in Nat, NEW index \in Nat
  PROVE  TableEntries(table, index) \subseteq Entry
  BY DEF TableEntries, Entry

LEMMA SymbolType ==
  ASSUME TypeOK
  PROVE  get_fixed_symbol \in [symbol : Int, to : Nat]
  <1> used \in Nat
    BY DEF TypeOK
  <1>1. High(used, 7) \in Nat /\ High(used, 8) \in Nat /\ High(used, 9) \in Nat
    BY HighType
  <1> QED
    BY <1>1 DEF get_fixed_symbol

-------------------------------------------------------------------------------
(***************************************************************************)
(* write_byte: the window goes on holding the end of what was written.     *)
(***************************************************************************)
IsTail(w, p, text) ==
  \A d \in 1..WINDOW_SIZE :
    w[(p - d + WINDOW_SIZE) % WINDOW_SIZE] = IF d <= Len(text) THEN text[Len(text) + 1 - d] ELSE 0

LEMMA WriteType ==
  ASSUME TypeOK, NEW byte \in Int, write_byte(byte)
  PROVE  /\ window_ptr' \in 0..(WINDOW_SIZE - 1)
         /\ window' \in [0..(WINDOW_SIZE - 1) -> Int] /\ out' \in Seq(Int)
  <1>1. window_ptr' \in 0..(WINDOW_SIZE - 1)
    BY NextPtrIs, WindowSize DEF TypeOK, write_byte
  <1> QED
    BY <1>1 DEF TypeOK, write_byte

LEMMA WriteKeepsTail ==
  ASSUME TypeOK, open, NEW byte \in Int, write_byte(byte), IsTail(window, window_ptr, out)
  PROVE  IsTail(window', window_ptr', out')
  <1> USE WindowSize
  <1> DEFINE p == window_ptr
             q == window_ptr'
  <1>1. /\ p \in 0..(WINDOW_SIZE - 1) /\ q = IF p = WINDOW_SIZE - 1 THEN 0 ELSE p + 1
        /\ window \in [0..(WINDOW_SIZE - 1) -> Int] /\ window' = [window EXCEPT ![p] = byte]
        /\ out \in Seq(Int) /\ out' = Append(out, byte)
    BY NextPtrIs DEF TypeOK, write_byte
  <1>2. q \in 0..(WINDOW_SIZE - 1)
    BY <1>1
  <1>3. /\ Len(out) \in Nat /\ Len(out') = Len(out) + 1 /\ out'[Len(out) + 1] = byte
        /\ \A k \in 1..Len(out) : out'[k] = out[k]
    BY <1>1
  <1> HIDE DEF p, q
  <1> SUFFICES ASSUME NEW d \in 1..WINDOW_SIZE
               PROVE  window'[(q - d + WINDOW_SIZE) % WINDOW_SIZE]
                        = IF d <= Len(out') THEN out'[Len(out') + 1 - d] ELSE 0
    BY DEF IsTail, q
  <1>4. (q - d + WINDOW_SIZE) % WINDOW_SIZE = IF d <= q THEN q - d ELSE q - d + WINDOW_SIZE
    BY <1>2, PlaceBefore
  <1>5. CASE d = 1
    <2>1. (q - d + WINDOW_SIZE) % WINDOW_SIZE = p
      BY <1>1, <1>4, <1>5
    <2>2. window'[p] = byte
      BY <1>1
    <2> QED
      BY <1>3, <1>5, <2>1, <2>2
  <1>6. CASE d > 1
    <2> DEFINE e == d - 1
    <2>1. e \in 1..WINDOW_SIZE
      BY <1>6
    <2>2. (p - e + WINDOW_SIZE) % WINDOW_SIZE = IF e <= p THEN p - e ELSE p - e + WINDOW_SIZE
      BY <1>1, <2>1, PlaceBefore
    <2>3. (q - d + WINDOW_SIZE) % WINDOW_SIZE = (p - e + WINDOW_SIZE) % WINDOW_SIZE
      BY <1>1, <1>4, <1>6, <2>2
    <2>4. /\ (p - e + WINDOW_SIZE) % WINDOW_SIZE \in 0..(WINDOW_SIZE - 1)
          /\ (p - e + WINDOW_SIZE) % WINDOW_SIZE # p
      BY <1>1, <1>6, <2>2
    <2>5. window'[(q - d + WINDOW_SIZE) % WINDOW_SIZE] = window[(p - e + WINDOW_SIZE) % WINDOW_SIZE]
      BY <1>1, <2>3, <2>4
    <2>6. window[(p - e + WINDOW_SIZE) % WINDOW_SIZE] = IF e <= Len(out) THEN out[Len(out) + 1 - e] ELSE 0
      BY <2>1 DEF IsTail, p
    <2>7. e <= Len(out) => out'[Len(out') + 1 - d] = out[Len(out) + 1 - e]
      BY <1>3, <1>6, <2>1
    <2> QED
      BY <1>3, <1>6, <2>5, <2>6, <2>7
  <1> QED
    BY <1>5, <1>6

-------------------------------------------------------------------------------
(***************************************************************************)
(* The inductive invariant.  A file is only begun with stdout open while   *)
(* nothing has been written: the window of the file starts empty, and so   *)
(* does what it is compared with.                                          *)
(***************************************************************************)
TailHeld == open => IsTail(window, window_ptr, out) /\ (at = "open" => out = <<>>)
IInv == TypeOK /\ TailHeld

LEMMA EmptyIsTail ==
  ASSUME NEW w, w = [i \in 0..(WINDOW_SIZE - 1) |-> 0]
  PROVE  IsTail(w, 0, <<>>)
  <1>1. ASSUME NEW d \in 1..WINDOW_SIZE PROVE w[(0 - d + WINDOW_SIZE) % WINDOW_SIZE] = 0
    BY WindowSize, PlaceBefore
  <1>2. ASSUME NEW d \in 1..WINDOW_SIZE PROVE ~(d <= Len(<<>>))
    BY WindowSize
  <1>3. ASSUME NEW d \in 1..WINDOW_SIZE
        PROVE  w[(0 - d + WINDOW_SIZE) % WINDOW_SIZE] = IF d <= Len(<<>>) THEN <<>>[Len(<<>>) + 1 - d] ELSE 0
    <2>1. w[(0 - d + WINDOW_SIZE) % WINDOW_SIZE] = 0 /\ ~(d <= Len(<<>>))
      BY <1>1, <1>2
    <2> QED
      BY ONLY <2>1, Zenon
  <1> QED
    BY <1>3, Zenon DEF IsTail

LEMMA InitIInv == GzInit => IInv
  <1> SUFFICES ASSUME GzInit PROVE IInv
    OBVIOUS
  <1>1. TypeOK
    BY WindowSize DEF GzInit, TypeOK
  <1>2. TailHeld
    BY EmptyIsTail DEF GzInit, TailHeld
  <1> QED
    BY <1>1, <1>2 DEF IInv

\* An action that writes nothing, and after which a file is over only with stdout closed.
LEMMA QuietTail ==
  ASSUME TailHeld, UNCHANGED output, open' => open, open' /\ at' = "open" => at = "open"
  PROVE  TailHeld'
  BY DEF TailHeld, IsTail, output

LEMMA OpenFileIInv == IInv /\ OpenFile => IInv'
  <1> SUFFICES ASSUME IInv, OpenFile PROVE IInv'
    OBVIOUS
  <1> USE DEF IInv
  <1> DEFINE f == Head(args)
             reads == f \in DOMAIN job.holds /\ FLAG_DECOMPRESS /\ job.holds[f].header = "gzip"
  <1>1. CASE reads
    <2>1. /\ at = "open" /\ at' = "block" /\ used' = 0 /\ final' = 0
          /\ window' = [i \in 0..(WINDOW_SIZE - 1) |-> 0] /\ window_ptr' = 0
          /\ UNCHANGED <<open, ret, left, ptr, out>>
      BY <1>1 DEF OpenFile
    <2>2. TypeOK'
      BY <2>1, WindowSize DEF TypeOK
    <2>3. TailHeld'
      BY <2>1, EmptyIsTail DEF TailHeld
    <2> QED
      BY <2>2, <2>3
  <1>2. CASE ~reads
    <2>1. /\ UNCHANGED <<used, final, window, window_ptr, out, at, left, ptr>>
          /\ ret' = 1 /\ (open' = open \/ open' = FALSE)
      BY <1>2 DEF OpenFile, Bad
    <2>2. TypeOK'
      BY <2>1 DEF TypeOK
    <2>3. TailHeld'
      BY <2>1, QuietTail DEF output
    <2> QED
      BY <2>2, <2>3
  <1> QED
    BY <1>1, <1>2

LEMMA EndsType ==
  ASSUME TypeOK, NEW place, Ends(place)
  PROVE  at' = place /\ open' \in BOOLEAN /\ (open' => open /\ place # "open")
  BY DEF Ends, TypeOK

LEMMA ReadingIInv == IInv /\ (GzExit \/ Block \/ Stored \/ EndOfBlock \/ Spin) => IInv'
  <1> SUFFICES ASSUME IInv, GzExit \/ Block \/ Stored \/ EndOfBlock \/ Spin PROVE IInv'
    OBVIOUS
  <1> USE DEF IInv
  <1>1. CASE GzExit
    <2>1. TypeOK'
      BY <1>1 DEF GzExit, TypeOK, bits, output
    <2>2. TailHeld'
      BY <1>1, QuietTail DEF GzExit
    <2> QED
      BY <2>1, <2>2
  <1>2. CASE Block
    <2>1. Low(used, 1) \in Nat
      BY LowType
    <2>2. at' \in {"open", "stored", "symbol", "block"} /\ open' \in BOOLEAN /\ ret' \in {0, 1}
      BY <1>2, EndsType DEF Block, TypeOK
    <2>3. TypeOK'
      BY <1>2, <2>1, <2>2 DEF Block, TypeOK, output
    <2>4. TailHeld'
      BY <1>2, QuietTail DEF Block, Ends, TypeOK
    <2> QED
      BY <2>3, <2>4
  <1>3. CASE Stored
    <2>1. ByteBoundary \in Nat
      BY InflateAssumption DEF ByteBoundary, bits_left, TypeOK
    <2>2. Low(ByteBoundary, 16) \in Nat
      BY LowType
    <2>3. at' \in {"open", "block", "byte"} /\ open' \in BOOLEAN
      BY <1>3, EndsType DEF Stored, NextBlock
    <2>5. TypeOK'
      BY <1>3, <2>1, <2>2, <2>3 DEF Stored, TypeOK, output
    <2>4. TailHeld'
      BY <1>3, QuietTail DEF Stored, Ends, TypeOK
    <2> QED
      BY <2>4, <2>5
  <1>4. CASE EndOfBlock
    <2>1. TypeOK'
      BY <1>4, SymbolType DEF EndOfBlock, Ends, NextBlock, TypeOK, output
    <2>2. TailHeld'
      BY <1>4, QuietTail DEF EndOfBlock, Ends, TypeOK
    <2> QED
      BY <2>1, <2>2
  <1>5. CASE Spin
    <2>1. TypeOK'
      BY <1>5 DEF Spin, TypeOK, bits, output
    <2>2. TailHeld'
      BY <1>5, QuietTail DEF Spin
    <2> QED
      BY <2>1, <2>2
  <1> QED
    BY <1>1, <1>2, <1>3, <1>4, <1>5

LEMMA ReferenceIInv == IInv /\ Reference => IInv'
  <1> SUFFICES ASSUME IInv, Reference PROVE IInv'
    OBVIOUS
  <1> USE DEF IInv
  <1>1. PICK l \in LengthEntries : \E d \in DistEntries(l) :
           /\ used' = RefEnd(l, d) /\ left' = read_extra(get_fixed_symbol.to, l).value
           /\ ptr' = StartOf(read_extra(DistFrom(l) + 5, d).value)
    BY DEF Reference
  <1>2. PICK d \in DistEntries(l) :
           /\ used' = RefEnd(l, d) /\ left' = read_extra(get_fixed_symbol.to, l).value
           /\ ptr' = StartOf(read_extra(DistFrom(l) + 5, d).value)
    BY <1>1
  <1>3. l \in Entry
    BY TablesType, EntriesType, SymbolType DEF LengthEntries, Reference
  <1>4. DistFrom(l) \in Nat /\ left' \in Int
    BY <1>2, <1>3, SymbolType, LowType DEF DistFrom, read_extra, Entry
  <1>5. d \in Entry
    BY TablesType, EntriesType, HighType DEF DistEntries
  <1>6. used' \in Nat
    BY <1>2, <1>4, <1>5 DEF RefEnd, read_extra, Entry
  <1>7. ptr' \in 0..(WINDOW_SIZE - 1)
    <2>1. read_extra(DistFrom(l) + 5, d).value \in Nat
      BY <1>4, <1>5, LowType DEF read_extra, Entry
    <2> HIDE DEF read_extra
    <2> QED
      BY <1>2, <2>1, WindowSize, RemainderInRange DEF StartOf, TypeOK
  <1>8. TypeOK'
    BY <1>4, <1>6, <1>7 DEF Reference, TypeOK, output
  <1>9. TailHeld'
    BY QuietTail DEF Reference
  <1> QED
    BY <1>8, <1>9

\* An action that writes a byte.
LEMMA WritingTail ==
  ASSUME IInv, NEW byte \in Int, write_byte(byte), open' => open, open' => at' # "open"
  PROVE  TailHeld'
  BY WriteKeepsTail DEF IInv, TailHeld

LEMMA WritingIInv == IInv /\ (Byte \/ Literal \/ CopyByte) => IInv'
  <1> SUFFICES ASSUME IInv, Byte \/ Literal \/ CopyByte PROVE IInv'
    OBVIOUS
  <1>1. CASE Byte
    <2>1. Low(used, 8) \in Int
      BY LowType
    <2>2. at' \in {"open", "block", "byte"} /\ open' \in BOOLEAN
      BY <1>1, EndsType DEF IInv, Byte, NextBlock
    <2>4. TypeOK'
      BY <1>1, <2>1, <2>2, WriteType DEF IInv, Byte, TypeOK
    <2>3. TailHeld'
      BY <1>1, <2>1, WritingTail DEF IInv, Byte, Ends, TypeOK
    <2> QED
      BY <2>3, <2>4 DEF IInv
  <1>2. CASE Literal
    <2>1. get_fixed_symbol.symbol \in Int /\ get_fixed_symbol.to \in Nat
      BY SymbolType DEF IInv
    <2>2. TypeOK'
      BY <1>2, <2>1, WriteType DEF IInv, Literal, TypeOK
    <2>3. TailHeld'
      BY <1>2, <2>1, WritingTail DEF Literal
    <2> QED
      BY <2>2, <2>3 DEF IInv
  <1>3. CASE CopyByte
    <2>1. window[ptr] \in Int /\ NextPtr(ptr) \in 0..(WINDOW_SIZE - 1)
      BY NextPtrIs, WindowSize DEF IInv, TypeOK
    <2>2. TypeOK'
      BY <1>3, <2>1, WriteType DEF IInv, CopyByte, TypeOK, bits
    <2>3. TailHeld'
      BY <1>3, <2>1, WritingTail DEF CopyByte
    <2> QED
      BY <2>2, <2>3 DEF IInv
  <1> QED
    BY <1>1, <1>2, <1>3

LEMMA NextIInv == IInv /\ [GzNext]_gzVars => IInv'
  <1> SUFFICES ASSUME IInv, [GzNext]_gzVars PROVE IInv'
    OBVIOUS
  <1>1. CASE UNCHANGED gzVars
    BY <1>1 DEF IInv, TypeOK, TailHeld, IsTail, gzVars, bits, output
  <1> QED
    BY <1>1, OpenFileIInv, ReadingIInv, ReferenceIInv, WritingIInv DEF GzNext

\* The pointers of inflate stay in the window, for every window, word and file, also
\* for files that are cut off or point behind the tables.
THEOREM TypeCorrect == GzSpec => []TypeOK
  <1>1. IInv => TypeOK
    BY DEF IInv
  <1> QED
    BY <1>1, InitIInv, NextIInv, PTL DEF GzSpec

\* The window is the end of what has been written: what handle_backward_ref repeats
\* is what came out so far back, however often the window has been filled.
THEOREM WindowIsTheTail == GzSpec => []WindowIsTail
  <1>1. IInv => WindowIsTail
    BY DEF IInv, TailHeld, IsTail, WindowIsTail, Distance
  <1> QED
    BY <1>1, InitIInv, NextIInv, PTL DEF GzSpec

-------------------------------------------------------------------------------
(***************************************************************************)
(* Where paths lead while entries come and go.                             *)
(***************************************************************************)
\* A path that is there has only directories above it, and leads where it says.
LEMMA ThereLeads ==
  ASSUME NEW w, Grown(w), NEW q \in DOMAIN w
  PROVE  /\ q \in Path /\ NoFollow(w, q) = q
         /\ Follow(w, q) = IF IsLink(w, q) THEN w[q].to ELSE q
<1>0. /\ q \in Path /\ q \in Seq(Name) /\ Len(q) \in Nat /\ LinksLead(w)
      /\ \A i \in 1..Len(q) : q[i] \in Name
  BY DEF Grown, Path
<1> DEFINE n == Len(q)
           r == Reached(w, q)
<1>1. /\ r[0] = <<>> /\ \A i \in 1..n : r[i] = Onward(w, r[i - 1], q[i])
  BY <1>0, ReachedIs
<1> HIDE DEF r
<1> DEFINE T == {m \in Nat : m < n => r[m] = SubSeq(q, 1, m)}
<1>2. 0 \in T
  <2>1. SubSeq(q, 1, 0) = <<>>
    BY <1>0
  <2> QED  BY <1>1, <2>1
<1>3. ASSUME NEW m \in Nat, m \in T PROVE m + 1 \in T
  <2> SUFFICES ASSUME m + 1 < n PROVE r[m + 1] = SubSeq(q, 1, m + 1)
    OBVIOUS
  <2>1. m + 1 \in 1..n /\ (m + 1) - 1 = m /\ m < Len(q) /\ r[m] = SubSeq(q, 1, m)
    BY <1>0, <1>3
  <2>2. /\ SubSeq(q, 1, m + 1) = Append(SubSeq(q, 1, m), q[m + 1])
        /\ SubSeq(q, 1, m + 1) \in Seq(Name)
    BY <1>0, <2>1, OneMore
  <2>3. IsPrefix(SubSeq(q, 1, m + 1), q) /\ Len(SubSeq(q, 1, m + 1)) = m + 1
    BY <1>0, <2>1 DEF IsPrefix
  <2>4. SubSeq(q, 1, m + 1) # q
    BY <2>3
  <2>5. IsDir(w, SubSeq(q, 1, m + 1))
    BY <2>2, <2>3, <2>4, AboveIsGrown DEF Path
  <2>6. ~IsLink(w, SubSeq(q, 1, m + 1))
    BY <2>5 DEF IsDir, IsLink
  <2> QED  BY <1>1, <2>1, <2>2, <2>6 DEF Onward
<1>4. Nat \subseteq T
  <2> HIDE DEF T
  <2> QED  BY <1>2, <1>3, InductionOnSet
<1>5. CASE q = <<>>
  <2>1. NoFollow(w, q) = q /\ Follow(w, q) = q
    BY <1>0, <1>5, FollowIs
  <2>2. ~IsLink(w, q)
    BY <1>5 DEF Grown, IsDir, IsLink
  <2> QED  BY <1>0, <2>1, <2>2
<1>6. CASE q # <<>>
  <2>1. n - 1 \in Nat /\ n - 1 < n /\ n >= 1
    BY <1>0, <1>6
  <2>2. r[n - 1] = SubSeq(q, 1, n - 1)
    BY <1>4, <2>1
  <2>3. q = Append(Front(q), Last(q)) /\ Front(q) = SubSeq(q, 1, n - 1)
    BY <1>0, <1>6, FrontAndLast DEF Front
  <2>4. NoFollow(w, q) = q
    <3>1. NoFollow(w, q) = Append(r[n - 1], Last(q))
      BY <1>0, <1>6, LastStep DEF r
    <3> HIDE DEF n
    <3> QED  BY <2>2, <2>3, <3>1
  <2> QED  BY <1>0, <1>6, <2>4, FollowIs
<1> QED  BY <1>5, <1>6

\* t has some of the entries of w, and each as it is there.
PartOf(t, w) == Grown(t) /\ DOMAIN t \subseteq DOMAIN w /\ \A q \in DOMAIN t : t[q] = w[q]

\* What is there is also in the whole, and is of the same kind.
LEMMA PartHas ==
  ASSUME NEW t, NEW w, PartOf(t, w), NEW q, Exists(t, q)
  PROVE  /\ Exists(w, q) /\ t[q] = w[q] /\ (IsDir(t, q) <=> IsDir(w, q)) /\ (IsLink(t, q) <=> IsLink(w, q))
  BY DEF PartOf, Exists, IsDir, IsLink

\* What a path leads to while it is there, it leads to also when all others are there.
LEMMA PartFollows ==
  ASSUME NEW t, NEW w, PartOf(t, w), Grown(w), NEW p \in Path
  PROVE  /\ Exists(t, Follow(t, p)) => Follow(t, p) = Follow(w, p)
         /\ Exists(t, NoFollow(t, p)) => NoFollow(t, p) = NoFollow(w, p)
<1>0. /\ Len(p) \in Nat /\ LinksLead(t) /\ LinksLead(w) /\ Grown(t)
      /\ \A i \in 1..Len(p) : p[i] \in Name
  BY DEF Grown, Path, PartOf
<1> DEFINE n == Len(p)
           r == Reached(t, p)
           s == Reached(w, p)
<1>1. /\ r \in [0..n -> Path] /\ r[0] = <<>> /\ \A i \in 1..n : r[i] = Onward(t, r[i - 1], p[i])
      /\ s \in [0..n -> Path] /\ s[0] = <<>> /\ \A i \in 1..n : s[i] = Onward(w, s[i - 1], p[i])
  BY <1>0, ReachedIs
<1>2. Follow(t, p) = r[n] /\ Follow(w, p) = s[n]
  BY DEF Follow
<1> HIDE DEF r, s
<1>3. ASSUME NEW d \in Path, NEW m \in Name
      PROVE  /\ Exists(t, Append(d, m)) => Exists(t, d)
             /\ Exists(t, Onward(t, d, m)) => Exists(t, d) /\ Onward(t, d, m) = Onward(w, d, m)
  <2>1. Append(d, m) # <<>> /\ Front(Append(d, m)) = d
    BY FrontOfAppend DEF Path
  <2>2. Exists(t, Append(d, m)) => Exists(t, d)
    BY <1>0, <2>1 DEF Grown, IsDir, Exists
  <2>3. Exists(t, Onward(t, d, m)) => Exists(t, Append(d, m))
    BY DEF Onward, IsLink
  <2>4. Exists(t, Append(d, m)) => Onward(t, d, m) = Onward(w, d, m)
    BY PartHas DEF Onward
  <2> QED  BY <2>2, <2>3, <2>4
<1> DEFINE T == {m \in Nat : m <= n => (Exists(t, r[m]) => r[m] = s[m])}
<1>4. 0 \in T
  BY <1>1
<1>5. ASSUME NEW m \in Nat, m \in T PROVE m + 1 \in T
  <2> SUFFICES ASSUME m + 1 <= n, Exists(t, r[m + 1]) PROVE r[m + 1] = s[m + 1]
    OBVIOUS
  <2>1. /\ m + 1 \in 1..n /\ (m + 1) - 1 = m /\ m \in 0..n /\ m <= n /\ p[m + 1] \in Name
        /\ Exists(t, r[m]) => r[m] = s[m]
    BY <1>0, <1>5
  <2>2. r[m + 1] = Onward(t, r[m], p[m + 1]) /\ s[m + 1] = Onward(w, s[m], p[m + 1]) /\ r[m] \in Path
    BY <1>1, <2>1
  <2> QED  BY <1>3, <2>1, <2>2
<1>6. Nat \subseteq T
  <2> HIDE DEF T
  <2> QED  BY <1>4, <1>5, InductionOnSet
<1>7. Exists(t, Follow(t, p)) => Follow(t, p) = Follow(w, p)
  BY <1>0, <1>2, <1>6
<1>8. CASE p = <<>>
  BY <1>7, <1>8 DEF NoFollow
<1>9. CASE p # <<>>
  <2>1. n - 1 \in 0..n /\ n - 1 \in Nat /\ n - 1 <= n
    <3>1. n # 0
      BY <1>9 DEF Path
    <3> QED  BY <1>0, <3>1
  <2>2. /\ NoFollow(t, p) = Append(r[n - 1], Last(p)) /\ NoFollow(w, p) = Append(s[n - 1], Last(p))
        /\ Last(p) \in Name
    BY <1>0, <1>9, LastStep DEF r, s
  <2>3. r[n - 1] \in Path
    BY <1>1, <2>1
  <2> QED  BY <1>3, <1>6, <1>7, <2>1, <2>2, <2>3
<1> QED  BY <1>7, <1>8, <1>9

-------------------------------------------------------------------------------
(***************************************************************************)
(* What a recursion over a tree reaches.                                   *)
(***************************************************************************)
\* A recursion over the natural numbers has a function that satisfies it.
LEMMA NatRecursion ==
  ASSUME NEW V, NEW z \in V, NEW H \in [V -> V]
  PROVE  \E f \in [Nat -> V] : f[0] = z /\ \A k \in Nat : f[k + 1] = H[f[k]]
<1> DEFINE Good(n, g) == g \in [0..n -> V] /\ g[0] = z /\ \A i \in 1..n : g[i] = H[g[i - 1]]
           T == {n \in Nat : \E g : Good(n, g)}
<1>1. 0 \in T
  <2> DEFINE g == [i \in 0..0 |-> z]
  <2>1. Good(0, g)
    OBVIOUS
  <2> HIDE DEF Good
  <2> QED  BY <2>1
<1>2. ASSUME NEW n \in Nat, n \in T PROVE n + 1 \in T
  <2>1. PICK g : Good(n, g)
    BY <1>2
  <2> DEFINE h == [i \in 0..(n + 1) |-> IF i = n + 1 THEN H[g[n]] ELSE g[i]]
  <2>2. g[n] \in V /\ H[g[n]] \in V
    BY <2>1
  <2>3. h \in [0..(n + 1) -> V] /\ h[n + 1] = H[g[n]] /\ \A i \in 0..n : h[i] = g[i]
    BY <2>1, <2>2
  <2> HIDE DEF h
  <2>4. ASSUME NEW i \in 1..(n + 1) PROVE h[i] = H[h[i - 1]]
    <3>1. CASE i = n + 1
      BY <2>3, <3>1
    <3>2. CASE i \in 1..n
      <4>1. i \in 0..n /\ i - 1 \in 0..n
        BY <3>2
      <4> QED  BY <2>1, <2>3, <3>2, <4>1
    <3> QED  BY <3>1, <3>2
  <2>5. Good(n + 1, h)
    BY <2>1, <2>3, <2>4
  <2> HIDE DEF Good
  <2> QED  BY <2>5
<1>3. \A n \in Nat : \E g : Good(n, g)
  <2> HIDE DEF T, Good
  <2>1. Nat \subseteq T
    BY <1>1, <1>2, InductionOnSet
  <2> QED  BY <2>1 DEF T
<1> DEFINE part(n) == CHOOSE g : Good(n, g)
           f == [n \in Nat |-> part(n)[n]]
<1>4. \A n \in Nat : Good(n, part(n))
  <2> HIDE DEF Good
  <2> QED  BY <1>3
<1> HIDE DEF part
<1>5. ASSUME NEW n \in Nat PROVE part(n + 1)[n] = part(n)[n]
  <2> DEFINE g == part(n)
             h == part(n + 1)
             S == {k \in Nat : k <= n => h[k] = g[k]}
  <2>1. Good(n, g) /\ Good(n + 1, h)
    <3> HIDE DEF Good
    <3> QED  BY <1>4
  <2> HIDE DEF g, h
  <2>2. 0 \in S
    BY <2>1
  <2>3. ASSUME NEW k \in Nat, k \in S PROVE k + 1 \in S
    <3> SUFFICES ASSUME k + 1 <= n PROVE h[k + 1] = g[k + 1]
      OBVIOUS
    <3>1. k + 1 \in 1..n /\ k + 1 \in 1..(n + 1) /\ (k + 1) - 1 = k /\ h[k] = g[k]
      BY <2>3
    <3> QED  BY <2>1, <3>1
  <2>4. Nat \subseteq S
    <3> HIDE DEF S
    <3> QED  BY <2>2, <2>3, InductionOnSet
  <2>5. h[n] = g[n]
    BY <2>4
  <2> QED  BY <2>5 DEF g, h
<1>6. ASSUME NEW n \in Nat PROVE f[n] = part(n)[n] /\ f[n] \in V
  <2>1. part(n)[n] \in V
    BY <1>4
  <2> QED  BY <2>1
<1>7. ASSUME NEW n \in Nat PROVE f[n + 1] = H[f[n]]
  <2>1. n + 1 \in Nat /\ n + 1 \in 1..(n + 1) /\ (n + 1) - 1 = n
    OBVIOUS
  <2>2. part(n + 1)[n + 1] = H[part(n + 1)[n]]
    BY <1>4, <2>1
  <2> HIDE DEF f
  <2> QED  BY <1>5, <1>6, <2>1, <2>2
<1>8. f[0] = z
  <2>1. part(0)[0] = z
    BY <1>4
  <2> QED  BY <2>1
<1>9. f \in [Nat -> V]
  BY <1>6
<1> HIDE DEF f
<1> QED  BY <1>7, <1>8, <1>9

UnderOf(w, S) == {q \in DOMAIN w : \E d \in S : IsPrefix(d, q)}
EndsOf(w, S)  == {Follow(w, q) : q \in S}
MoreOf(w, S)  == UnderOf(w, S) \cup EndsOf(w, UnderOf(w, S))
LinksOf(w)    == {q \in DOMAIN w : IsLink(w, q)}
ToOf(w, S)    == {w[l].to : l \in S}

\* What lies under paths, and where its links lead.
LEMMA MoreIs ==
  ASSUME NEW w, Grown(w), NEW S \in SUBSET Path
  PROVE  /\ UnderOf(w, S) \subseteq DOMAIN w /\ UnderOf(w, S) \in SUBSET Path
         /\ S \cap DOMAIN w \subseteq UnderOf(w, S)
         /\ UnderOf(w, UnderOf(w, S)) = UnderOf(w, S)
         /\ MoreOf(w, S) = UnderOf(w, S) \cup ToOf(w, UnderOf(w, S) \cap LinksOf(w))
         /\ MoreOf(w, S) \in SUBSET Path
<1>1. \A q \in DOMAIN w : q \in Path
  BY DEF Grown
<1>2. UnderOf(w, S) \subseteq DOMAIN w /\ UnderOf(w, S) \in SUBSET Path
  BY <1>1 DEF UnderOf
<1>3. S \cap DOMAIN w \subseteq UnderOf(w, S)
  <2> SUFFICES ASSUME NEW q \in S, q \in DOMAIN w PROVE q \in UnderOf(w, S)
    OBVIOUS
  <2>1. IsPrefix(q, q)
    BY PrefixElements DEF Path
  <2> QED  BY <2>1 DEF UnderOf
<1>4. UnderOf(w, UnderOf(w, S)) = UnderOf(w, S)
  <2>1. ASSUME NEW q \in UnderOf(w, UnderOf(w, S)) PROVE q \in UnderOf(w, S)
    <3>1. PICK d \in UnderOf(w, S) : IsPrefix(d, q)
      BY <2>1 DEF UnderOf
    <3>2. PICK e \in S : IsPrefix(e, d)
      BY <3>1 DEF UnderOf
    <3>3. q \in DOMAIN w /\ q \in Path /\ d \in Path /\ e \in Path
      BY <1>1, <1>2, <2>1 DEF UnderOf
    <3>4. IsPrefix(e, q)
      BY <3>1, <3>2, <3>3, PrefixTransitive DEF Path
    <3> QED  BY <3>3, <3>4 DEF UnderOf
  <2>2. ASSUME NEW q \in UnderOf(w, S) PROVE q \in UnderOf(w, UnderOf(w, S))
    <3>1. IsPrefix(q, q) /\ q \in DOMAIN w
      BY <1>2, PrefixElements DEF Path
    <3> QED  BY <3>1 DEF UnderOf
  <2> QED  BY <2>1, <2>2
<1> DEFINE U == UnderOf(w, S)
<1>5. U \subseteq DOMAIN w
  BY <1>2
<1> HIDE DEF U
<1>6. U \cup EndsOf(w, U) = U \cup ToOf(w, U \cap LinksOf(w))
  <2>1. ASSUME NEW q \in U PROVE Follow(w, q) = IF IsLink(w, q) THEN w[q].to ELSE q
    BY <1>5, ThereLeads
  <2>2. ASSUME NEW q \in U PROVE IsLink(w, q) <=> q \in LinksOf(w)
    BY <1>5 DEF LinksOf
  <2>3. ASSUME NEW x \in EndsOf(w, U) PROVE x \in U \cup ToOf(w, U \cap LinksOf(w))
    <3>1. PICK q \in U : x = Follow(w, q)
      BY DEF EndsOf
    <3> QED  BY <2>1, <2>2, <3>1 DEF ToOf
  <2>4. ASSUME NEW x \in ToOf(w, U \cap LinksOf(w)) PROVE x \in EndsOf(w, U)
    <3>1. PICK q \in U \cap LinksOf(w) : x = w[q].to
      BY DEF ToOf
    <3>2. x = Follow(w, q)
      BY <2>1, <2>2, <3>1
    <3> QED  BY <3>2 DEF EndsOf
  <2> QED  BY <2>3, <2>4
<1>7. ToOf(w, U \cap LinksOf(w)) \in SUBSET Path
  BY <1>5 DEF ToOf, LinksOf, Grown, LinksLead
<1>8. MoreOf(w, S) = U \cup EndsOf(w, U)
  BY DEF MoreOf, U
<1> QED  BY <1>2, <1>3, <1>4, <1>6, <1>7, <1>8 DEF U

\* What lies under more paths, and where more links lead, is more.
LEMMA UnderGrows ==
  ASSUME NEW w, NEW S, NEW R
  PROVE  UnderOf(w, S \cup R) = UnderOf(w, S) \cup UnderOf(w, R)
  BY DEF UnderOf

LEMMA ToGrows ==
  ASSUME NEW w, NEW S, NEW R, S \subseteq R
  PROVE  ToOf(w, S) \subseteq ToOf(w, R)
  BY DEF ToOf

\* The recursion of Reach.
DeepOf(w, S) ==
  LET deep[k \in Nat] == IF k = 0 THEN EndsOf(w, S) ELSE MoreOf(w, deep[k - 1])
  IN  deep

\* The recursion has a solution: the ends of the paths first, and then turn by turn more.
LEMMA DeepIs ==
  ASSUME NEW w, Grown(w), NEW S \in SUBSET Path
  PROVE  /\ DeepOf(w, S) \in [Nat -> SUBSET Path] /\ DeepOf(w, S)[0] = EndsOf(w, S)
         /\ \A k \in Nat : DeepOf(w, S)[k + 1] = MoreOf(w, DeepOf(w, S)[k])
<1> DEFINE H == [X \in SUBSET Path |-> MoreOf(w, X)]
           Rec(f) == [k \in Nat |-> IF k = 0 THEN EndsOf(w, S) ELSE MoreOf(w, f[k - 1])]
           h == CHOOSE f : f = Rec(f)
<1>1. H \in [SUBSET Path -> SUBSET Path]
  BY MoreIs
<1>2. EndsOf(w, S) \in SUBSET Path
  BY FollowIs DEF EndsOf, Grown
<1>3. \A X \in SUBSET Path : H[X] = MoreOf(w, X)
  OBVIOUS
<1> HIDE DEF H
<1>4. PICK f \in [Nat -> SUBSET Path] : f[0] = EndsOf(w, S) /\ \A k \in Nat : f[k + 1] = H[f[k]]
  <2> DEFINE V == SUBSET Path
             z == EndsOf(w, S)
  <2>1. z \in V /\ H \in [V -> V]
    BY <1>1, <1>2
  <2> HIDE DEF V, z
  <2>2. \E f \in [Nat -> V] : f[0] = z /\ \A k \in Nat : f[k + 1] = H[f[k]]
    BY <2>1, NatRecursion
  <2> QED  BY <2>2 DEF V, z
<1>5. ASSUME NEW k \in Nat, k # 0 PROVE f[k] = MoreOf(w, f[k - 1])
  <2>1. k - 1 \in Nat /\ (k - 1) + 1 = k
    BY <1>5
  <2> QED  BY <1>3, <1>4, <2>1
<1>6. f = Rec(f)
  BY <1>4, <1>5
<1>7. h = Rec(h)
  <2> HIDE DEF Rec
  <2> QED  BY <1>6
<1>8. DeepOf(w, S) = h
  BY DEF DeepOf
<1> HIDE DEF h
<1>9. DOMAIN h = Nat /\ h[0] = EndsOf(w, S) /\ h = [k \in Nat |-> h[k]]
  BY <1>7
<1>10. ASSUME NEW k \in Nat PROVE h[k + 1] = MoreOf(w, h[k])
  <2>1. k + 1 \in Nat /\ k + 1 # 0 /\ (k + 1) - 1 = k
    OBVIOUS
  <2> QED  BY <1>7, <2>1
<1> DEFINE T == {k \in Nat : h[k] \in SUBSET Path}
<1>11. 0 \in T
  BY <1>2, <1>9
<1>12. ASSUME NEW k \in Nat, k \in T PROVE k + 1 \in T
  <2>1. h[k] \in SUBSET Path
    BY <1>12
  <2>2. MoreOf(w, h[k]) \in SUBSET Path
    BY <2>1, MoreIs
  <2> QED  BY <1>10, <2>2
<1>13. Nat \subseteq T
  <2> HIDE DEF T
  <2> QED  BY <1>11, <1>12, InductionOnSet
<1> QED  BY <1>8, <1>9, <1>10, <1>13

\* With every turn the recursion comes to one more link, or to nothing more.
LEMMA DeepCloses ==
  ASSUME NEW w, Grown(w), IsFiniteSet(DOMAIN w), NEW S \in SUBSET Path
  PROVE  MoreOf(w, DeepOf(w, S)[1 + Cardinality(LinksOf(w))]) = DeepOf(w, S)[1 + Cardinality(LinksOf(w))]
<1> DEFINE L == LinksOf(w)
           n == Cardinality(L)
           X == DeepOf(w, S)
           U(k) == UnderOf(w, X[k])
           M(k) == U(k) \cap L
<1>1. L \in SUBSET DOMAIN w
  BY DEF LinksOf
<1>2. IsFiniteSet(L) /\ n \in Nat
  BY <1>1, FS_Subset, FS_CardinalityType
<1>3. /\ X \in [Nat -> SUBSET Path]
      /\ \A k \in Nat : X[k + 1] = MoreOf(w, X[k])
  BY DeepIs
<1> HIDE DEF X, L, n
<1>4. ASSUME NEW k \in Nat
      PROVE  X[k + 1] = U(k) \cup ToOf(w, M(k)) /\ U(k + 1) = U(k) \cup UnderOf(w, ToOf(w, M(k)))
  <2>1. X[k] \in SUBSET Path
    BY <1>3
  <2>2. /\ UnderOf(w, UnderOf(w, X[k])) = UnderOf(w, X[k])
        /\ MoreOf(w, X[k]) = UnderOf(w, X[k]) \cup ToOf(w, UnderOf(w, X[k]) \cap LinksOf(w))
    BY <2>1, MoreIs
  <2>3. X[k + 1] = U(k) \cup ToOf(w, M(k))
    BY <1>3, <2>2 DEF L
  <2>4. U(k + 1) = UnderOf(w, U(k)) \cup UnderOf(w, ToOf(w, M(k)))
    <3> DEFINE A == U(k)
               B == ToOf(w, M(k))
    <3>1. U(k + 1) = UnderOf(w, A \cup B)
      BY <2>3
    <3> HIDE DEF A, B, U
    <3>2. UnderOf(w, A \cup B) = UnderOf(w, A) \cup UnderOf(w, B)
      BY UnderGrows
    <3> QED  BY <3>1, <3>2 DEF A, B
  <2> QED  BY <2>2, <2>3, <2>4
<1> HIDE DEF U
<1>5. \A k \in Nat : M(k) \subseteq M(k + 1) /\ M(k) \subseteq L
  BY <1>4
\* When no link is new, there is nothing new from the next turn on.
<1>6. ASSUME NEW k \in Nat, M(k + 1) = M(k) PROVE MoreOf(w, X[k + 2]) = X[k + 2]
  <2>1. k + 1 \in Nat /\ k + 2 \in Nat /\ (k + 1) + 1 = k + 2 /\ (k + 2) + 1 = k + 3
    OBVIOUS
  <2>2. U(k + 2) = U(k + 1)
    <3>1. U(k + 2) = U(k + 1) \cup UnderOf(w, ToOf(w, M(k + 1)))
      BY <1>4, <2>1
    <3>2. UnderOf(w, ToOf(w, M(k))) \subseteq U(k + 1)
      BY <1>4
    <3> QED  BY <1>6, <3>1, <3>2
  <2>3. X[k + 2] = U(k + 1) \cup ToOf(w, M(k + 1)) /\ X[k + 3] = U(k + 2) \cup ToOf(w, M(k + 2))
    BY <1>4, <2>1
  <2>4. X[k + 3] = X[k + 2]
    BY <2>2, <2>3
  <2>5. X[k + 3] = MoreOf(w, X[k + 2])
    BY <1>3, <2>1
  <2> QED  BY <2>4, <2>5
<1>7. ASSUME M(0) = {} PROVE MoreOf(w, X[1]) = X[1]
  <2>1. ToOf(w, {}) = {} /\ UnderOf(w, {}) = {}
    BY DEF ToOf, UnderOf
  <2>2. 0 \in Nat /\ 1 \in Nat /\ 0 + 1 = 1 /\ 1 + 1 = 2
    OBVIOUS
  <2>3. X[1] = U(0) /\ U(1) = U(0)
    BY <1>4, <1>7, <2>1, <2>2
  <2>4. M(1) = {}
    BY <1>7, <2>3
  <2>5. X[2] = U(1) \cup ToOf(w, M(1))
    BY <1>4, <2>2
  <2>6. X[2] = X[1]
    BY <2>1, <2>3, <2>4, <2>5
  <2>7. X[2] = MoreOf(w, X[1])
    BY <1>3, <2>2
  <2> QED  BY <2>6, <2>7
\* So there is a turn early enough.
<1> DEFINE Still(m) == m <= n + 1 /\ MoreOf(w, X[m]) = X[m]
<1>8. \E m \in Nat : Still(m)
  <2>1. CASE M(0) = {}
    <3>1. Still(1)
      BY <1>2, <1>7, <2>1
    <3> HIDE DEF Still
    <3> QED  BY <3>1
  <2>2. CASE M(0) # {}
    <3> DEFINE T == {k \in Nat : k <= n => \/ \E j \in Nat : j < k /\ M(j + 1) = M(j)
                                           \/ Cardinality(M(k)) >= k + 1}
    <3>0. ASSUME NEW k \in Nat PROVE IsFiniteSet(M(k)) /\ Cardinality(M(k)) \in Nat
      <4>1. M(k) \in SUBSET L
        OBVIOUS
      <4> HIDE DEF M
      <4> QED  BY <1>2, <4>1, FS_Subset, FS_CardinalityType
    <3>1. 0 \in T
      <4>1. IsFiniteSet(M(0)) /\ Cardinality(M(0)) \in Nat
        BY <3>0
      <4> HIDE DEF M
      <4>2. Cardinality(M(0)) # 0
        BY <2>2, <4>1, FS_EmptySet
      <4> QED  BY <4>1, <4>2
    <3>2. ASSUME NEW k \in Nat, k \in T PROVE k + 1 \in T
      <4>1. M(k) \subseteq M(k + 1)
        BY <1>5
      <4> HIDE DEF M
      <4> SUFFICES ASSUME k + 1 <= n, ~\E j \in Nat : j < k + 1 /\ M(j + 1) = M(j)
                   PROVE  Cardinality(M(k + 1)) >= k + 1 + 1
        OBVIOUS
      <4>2. Cardinality(M(k)) >= k + 1
        <5>1. ~\E j \in Nat : j < k /\ M(j + 1) = M(j)
          <6> SUFFICES ASSUME NEW j \in Nat, j < k, M(j + 1) = M(j) PROVE FALSE
            OBVIOUS
          <6>1. j < k + 1
            OBVIOUS
          <6> QED  BY <6>1
        <5>2. k <= n
          BY <1>2
        <5> QED  BY <3>2, <5>1, <5>2
      <4>3. M(k + 1) # M(k)
        <5>1. k < k + 1
          OBVIOUS
        <5> QED  BY <5>1
      <4>4. Cardinality(M(k)) <= Cardinality(M(k + 1)) /\ Cardinality(M(k + 1)) # Cardinality(M(k))
        <5>1. IsFiniteSet(M(k + 1)) /\ M(k) \in SUBSET M(k + 1)
          BY <3>0, <4>1
        <5> QED  BY <4>3, <5>1, FS_Subset
      <4>5. Cardinality(M(k)) \in Nat /\ Cardinality(M(k + 1)) \in Nat
        BY <3>0
      <4> QED  BY <4>2, <4>4, <4>5
    <3>3. n \in T
      <4> HIDE DEF T
      <4> QED  BY <1>2, <3>1, <3>2, InductionOnSet
    <3>4. ~(Cardinality(M(n)) >= n + 1)
      <4>1. M(n) \in SUBSET L
        OBVIOUS
      <4>2. Cardinality(M(n)) \in Nat
        BY <1>2, <3>0
      <4> HIDE DEF M
      <4>3. Cardinality(M(n)) <= n
        BY <1>2, <4>1, FS_Subset DEF n
      <4> QED  BY <1>2, <4>2, <4>3
    <3> HIDE DEF M
    <3>5. PICK j \in Nat : j < n /\ M(j + 1) = M(j)
      BY <1>2, <3>3, <3>4
    <3>6. Still(j + 2) /\ j + 2 \in Nat
      BY <1>2, <1>6, <3>5
    <3> HIDE DEF Still
    <3> QED  BY <3>6
  <2> QED  BY <2>1, <2>2
<1>9. PICK m \in Nat : Still(m)
  BY <1>8
<1> DEFINE R == {i \in Nat : X[m + i] = X[m]}
<1>10. 0 \in R
  OBVIOUS
<1>11. ASSUME NEW i \in Nat, i \in R PROVE i + 1 \in R
  <2>1. m + i \in Nat /\ (m + i) + 1 = m + (i + 1)
    OBVIOUS
  <2>2. X[m + (i + 1)] = MoreOf(w, X[m + i])
    BY <1>3, <2>1
  <2> QED  BY <1>9, <1>11, <2>2
<1>12. Nat \subseteq R
  <2> HIDE DEF R
  <2> QED  BY <1>10, <1>11, InductionOnSet
<1>13. X[1 + n] = X[m]
  <2>1. (n + 1) - m \in Nat /\ m + ((n + 1) - m) = 1 + n
    BY <1>2, <1>9
  <2>2. (n + 1) - m \in R
    BY <1>12, <2>1
  <2> QED  BY <2>1, <2>2
<1> QED  BY <1>9, <1>13 DEF X, n, L

\* Reach, of a tree and a command line.
RootsOf(w, c) == {NoFollow(w, q) : q \in ToSet(c.args)}
ReachOf(w, c) ==
  CASE "recursive" \notin c.flags -> EndsOf(w, ToSet(c.args))
    [] "recursive" \in c.flags /\ c.name = "chmod" -> DeepOf(w, ToSet(c.args))[1 + Cardinality(LinksOf(w))]
    [] OTHER -> EndsOf(w, ToSet(c.args)) \cup EndsOf(w, UnderOf(w, RootsOf(w, c)))

\* It is the Reach of Walk.
LEMMA ReachIs == \A p : Reach(p) = ReachOf(World, Cmd(p))
  BY DEF Reach, ReachOf, DeepOf, EndsOf, UnderOf, MoreOf, LinksOf, RootsOf, Under, Given, Is

\* The path of an activation of ch(): what it leads to is within reach.
Within(w, c, path) ==
  /\ Follow(w, path) \in DOMAIN w => Follow(w, path) \in ReachOf(w, c)
  /\ "recursive" \in c.flags /\ c.name # "chmod" /\ NoFollow(w, path) \in DOMAIN w =>
       NoFollow(w, path) \in UnderOf(w, RootsOf(w, c))

\* An operand is within reach, with -R also if it leads to a link.
LEMMA OperandWithin ==
  ASSUME NEW w, Grown(w), IsFiniteSet(DOMAIN w), NEW c, c.args \in Seq(Path), NEW q \in ToSet(c.args)
  PROVE  Within(w, c, q)
<1> DEFINE S == ToSet(c.args)
           X == DeepOf(w, S)
           n == Cardinality(LinksOf(w))
<1>1. S \in SUBSET Path /\ q \in S
  BY DEF ToSet
<1>2. Follow(w, q) \in EndsOf(w, S) /\ NoFollow(w, q) \in RootsOf(w, c)
  BY DEF EndsOf, RootsOf
<1>3. n \in Nat
  <2>1. LinksOf(w) \in SUBSET DOMAIN w
    BY DEF LinksOf
  <2> QED  BY <2>1, FS_Subset, FS_CardinalityType
<1>4. ASSUME Follow(w, q) \in DOMAIN w PROVE Follow(w, q) \in X[1 + n]
  <2>1. X \in [Nat -> SUBSET Path] /\ X[0] = EndsOf(w, S) /\ \A k \in Nat : X[k + 1] = MoreOf(w, X[k])
    <3> HIDE DEF S
    <3> QED  BY <1>1, DeepIs
  <2> HIDE DEF X, n
  <2> DEFINE T == {k \in Nat : Follow(w, q) \in X[k]}
  <2>2. 0 \in T
    BY <1>2, <2>1
  <2>3. ASSUME NEW k \in Nat, k \in T PROVE k + 1 \in T
    <3>1. X[k] \in SUBSET Path /\ Follow(w, q) \in X[k]
      BY <2>1, <2>3
    <3>2. Follow(w, q) \in MoreOf(w, X[k])
      <4> DEFINE Y == X[k]
      <4>1. Y \in SUBSET Path /\ Follow(w, q) \in Y
        BY <3>1
      <4> HIDE DEF Y
      <4>2. Y \cap DOMAIN w \subseteq UnderOf(w, Y)
        BY <4>1, MoreIs
      <4> QED  BY <1>4, <4>1, <4>2 DEF MoreOf, Y
    <3> QED  BY <2>1, <3>2
  <2>4. Nat \subseteq T
    <3> HIDE DEF T
    <3> QED  BY <2>2, <2>3, InductionOnSet
  <2> QED  BY <1>3, <2>4
<1>5. RootsOf(w, c) \in SUBSET Path
  BY <1>1, FollowIs DEF RootsOf, Grown
<1>6. NoFollow(w, q) \in DOMAIN w => NoFollow(w, q) \in UnderOf(w, RootsOf(w, c))
  BY <1>2, <1>5, MoreIs
<1>7. Follow(w, q) \in DOMAIN w => Follow(w, q) \in ReachOf(w, c)
  BY <1>2, <1>4 DEF ReachOf
<1> QED  BY <1>6, <1>7 DEF Within

\* So is an entry of a directory that is within reach: of chmod because it goes behind
\* links as often as there are links, of chown because it goes down no link at all.
LEMMA EntryWithin ==
  ASSUME NEW w, Grown(w), IsFiniteSet(DOMAIN w), NEW c, c.args \in Seq(Path), "recursive" \in c.flags,
         NEW path \in Path, Within(w, c, path), NEW n \in Name,
         Follow(w, path) \in DOMAIN w, Append(Follow(w, path), n) \in DOMAIN w,
         c.name # "chmod" => NoFollow(w, path) = Follow(w, path)
  PROVE  Append(path, n) \in Path /\ Within(w, c, Append(path, n))
<1> DEFINE d == Follow(w, path)
           r == Append(path, n)
           q == Append(d, n)
           S == ToSet(c.args)
<1>1. S \in SUBSET Path
  BY DEF ToSet
<1>2. /\ r \in Path /\ r # <<>> /\ Front(r) = path /\ Last(r) = n
  <2>1. path \in Seq(Name) /\ r \in Seq(Name)
    BY DEF Path
  <2>2. Front(r) = path /\ r # <<>>
    BY <2>1, FrontOfAppend
  <2> QED  BY <2>1, <2>2 DEF Path, Last
<1>3. NoFollow(w, r) = q
  BY <1>2 DEF NoFollow
<1>4. Follow(w, r) = Follow(w, q)
  <2>1. Follow(w, r) = IF IsLink(w, q) THEN w[q].to ELSE q
    <3> HIDE DEF q, r
    <3> QED  BY <1>2, <1>3, FollowIs DEF Grown
  <2> QED  BY <2>1, ThereLeads
<1>5. IsPrefix(d, q) /\ d \in Path /\ q \in Path
  <2>1. d \in Path /\ q \in Path
    BY DEF Grown
  <2>2. IsPrefix(d, q)
    <3>1. d \in Seq(Name) /\ q \in Seq(Name)
      BY <2>1 DEF Path
    <3> HIDE DEF d
    <3>2. Len(q) = Len(d) + 1 /\ \A i \in 1..Len(d) : q[i] = d[i]
      BY <3>1
    <3> HIDE DEF q
    <3>3. Len(d) <= Len(q)
      BY <3>1, <3>2
    <3> QED  BY <3>1, <3>2, <3>3, PrefixElements
  <2> QED  BY <2>1, <2>2
<1>6. CASE c.name = "chmod"
  <2> DEFINE D == DeepOf(w, S)[1 + Cardinality(LinksOf(w))]
  <2>1. ReachOf(w, c) = D
    BY <1>6 DEF ReachOf
  <2>2. MoreOf(w, D) = D
    <3> HIDE DEF S
    <3> QED  BY <1>1, DeepCloses
  <2> HIDE DEF D
  <2>3. d \in D
    BY <2>1 DEF Within
  <2>4. q \in UnderOf(w, D)
    BY <1>5, <2>3 DEF UnderOf
  <2>5. Follow(w, q) \in D
    BY <2>2, <2>4 DEF MoreOf, EndsOf
  <2> QED  BY <1>2, <1>4, <1>6, <2>1, <2>5 DEF Within
<1>7. CASE c.name # "chmod"
  <2> DEFINE B == RootsOf(w, c)
  <2>1. B \in SUBSET Path
    BY <1>1, FollowIs DEF RootsOf, Grown
  <2> HIDE DEF B
  <2>2. d \in UnderOf(w, B)
    BY <1>7 DEF Within, B
  <2>3. q \in UnderOf(w, UnderOf(w, B))
    BY <1>5, <2>2 DEF UnderOf
  <2>4. q \in UnderOf(w, B)
    BY <2>1, <2>3, MoreIs
  <2>5. Follow(w, q) \in ReachOf(w, c)
    BY <1>7, <2>4 DEF ReachOf, EndsOf, B
  <2> QED  BY <1>2, <1>3, <1>4, <2>4, <2>5 DEF Within, B
<1> QED  BY <1>6, <1>7

-------------------------------------------------------------------------------
(***************************************************************************)
(* The operand of chmod.                                                   *)
(***************************************************************************)
\* What is behind the end is in none of the classes of characters.
Stops(ch) == ch \notin Perms /\ ch \notin Digits /\ ch \notin Octals

\* The end of the operand and a comma end each run of characters.
LEMMA EndStops == \A mode, i : ~(i <= Len(mode)) => Stops(Char(mode, i)) /\ Char(mode, i) # ","
  BY DEF Char, Stops, Perms, Digits, Octals

LEMMA CommaStops == Stops(",")
  BY DEF Stops, Perms, Digits, Octals

\* Where a run of characters of one class ends.
LEMMA RunEndIs ==
  ASSUME NEW mode \in Seq(STRING), NEW i \in Nat, i <= Len(mode) + 2, NEW set, set \in {Perms, Octals}
  PROVE  /\ RunEnd(mode, i, set) \in i..(Len(mode) + 2)
         /\ Char(mode, RunEnd(mode, i, set)) \notin set
         /\ \A j \in i..(RunEnd(mode, i, set) - 1) : Char(mode, j) \in set
<1> DEFINE n == Len(mode)
           T == {k \in i..(n + 2) : Char(mode, k) \notin set}
<1>1. n \in Nat
  OBVIOUS
<1>2. n + 2 \in T
  <2>1. Stops(Char(mode, n + 2))
    <3>1. ~(n + 2 <= Len(mode))
      BY <1>1
    <3> HIDE DEF n
    <3> QED  BY <3>1, EndStops, Zenon
  <2> QED  BY <1>1, <2>1 DEF Stops
<1>3. PICK k \in T : \A j \in T : k <= j
  <2>1. T \in SUBSET Nat /\ T # {}
    BY <1>1, <1>2
  <2> HIDE DEF T
  <2> QED  BY <2>1, LeastElement
<1>4. \A j \in i..(k - 1) : Char(mode, j) \in set
  <2> SUFFICES ASSUME NEW j \in i..(k - 1) PROVE Char(mode, j) \in set
    OBVIOUS
  <2>1. j \in i..(n + 2) /\ ~(k <= j)
    BY <1>1, <1>3
  <2> QED  BY <1>3, <2>1
<1>5. \E x \in i..(n + 2) : Char(mode, x) \notin set /\ \A j \in i..(x - 1) : Char(mode, j) \in set
  BY <1>3, <1>4
<1> QED  BY <1>5 DEF RunEnd

\* The only place where a run can end.
LEMMA RunEndAt ==
  ASSUME NEW mode \in Seq(STRING), NEW i \in Nat, NEW e \in Nat, i <= e, e <= Len(mode) + 2,
         NEW set, set \in {Perms, Octals}, Char(mode, e) \notin set, \A j \in i..(e - 1) : Char(mode, j) \in set
  PROVE  RunEnd(mode, i, set) = e
<1> DEFINE x == RunEnd(mode, i, set)
<1>1. /\ x \in i..(Len(mode) + 2) /\ Char(mode, x) \notin set
      /\ \A j \in i..(x - 1) : Char(mode, j) \in set
  BY RunEndIs
<1> HIDE DEF x
<1>2. ~(x < e)
  <2> SUFFICES ASSUME x < e PROVE FALSE
    OBVIOUS
  <2>1. x \in i..(e - 1)
    BY <1>1
  <2> QED  BY <1>1, <2>1
<1>3. ~(e < x)
  <2> SUFFICES ASSUME e < x PROVE FALSE
    OBVIOUS
  <2>1. e \in i..(x - 1)
    BY <1>1
  <2> QED  BY <1>1, <2>1
<1> QED  BY <1>1, <1>2, <1>3 DEF x

\* A turn does not go back, and what it takes are bits.
LEMMA ClauseIs ==
  ASSUME NEW mode \in Seq(STRING), NEW i \in 1..Len(mode)
  PROVE  /\ Clause(mode, i).next \in i..(Len(mode) + 2)
         /\ Clause(mode, i).bits \in SUBSET Bits
<1> DEFINE n      == Len(mode)
           place  == IF mode[i] \in Letters THEN i + 1 ELSE i
           digit  == Char(mode, place) \in Digits
           start  == IF digit THEN place ELSE place + 1
           number == Char(mode, start) \in Digits
           set    == IF number THEN Octals ELSE Perms
           end    == RunEnd(mode, start, set)
           next   == IF Char(mode, end) = "," THEN end + 1 ELSE end
<1>1. n \in Nat /\ i \in Nat
  OBVIOUS
<1>2. place \in Nat /\ place >= i /\ place <= i + 1
  BY <1>1
<1> HIDE DEF place
<1>3. start \in Nat /\ start >= i /\ start <= i + 2
  BY <1>1, <1>2
<1>4. set \in {Perms, Octals}
  OBVIOUS
<1> HIDE DEF start, set
<1>5. end \in i..(n + 2)
  <2>1. start <= n + 2
    BY <1>1, <1>3
  <2>2. end \in start..(n + 2)
    BY <1>3, <1>4, <2>1, RunEndIs
  <2> QED  BY <1>1, <1>3, <2>2
<1> HIDE DEF end
<1>6. next \in i..(n + 2)
  <2>1. Char(mode, end) = "," => end <= n
    BY EndStops, Zenon
  <2> DEFINE comma == Char(mode, end) = ","
  <2>2. next = IF comma THEN end + 1 ELSE end
    OBVIOUS
  <2>3. comma => end <= n
    BY <2>1
  <2> HIDE DEF comma, next, n
  <2> QED  BY <1>1, <1>5, <2>2, <2>3
<1>7. Clause(mode, i).next = next
  BY DEF Clause, next, end, set, number, start, digit, place
<1>8. Clause(mode, i).bits \in SUBSET Bits
  <2>1. Mask(mode[i]) \in SUBSET Bits
    BY DEF Mask, Bits, Sticky, Classes
  <2> QED  BY <2>1 DEF Clause
<1> QED  BY <1>6, <1>7, <1>8

\* A list from the end on: the element at i, and then the list at the next place.
Listing(f, n, elt, next) ==
  /\ f[n + 1] = <<>>
  /\ \A i \in 1..n : f[i] = IF next[i] \in {i, n + 2} THEN <<elt[i]>> ELSE <<elt[i]>> \o f[next[i]]

\* There is such a list from each place on.
LEMMA ListingExists ==
  ASSUME NEW n \in Nat, NEW C, NEW elt \in [1..n -> C], NEW next \in [1..n -> Nat],
         \A i \in 1..n : next[i] \in i..(n + 2)
  PROVE  \E f \in [1..(n + 1) -> Seq(C)] : Listing(f, n, elt, next)
<1> DEFINE Here(f, i) == IF next[i] \in {i, n + 2} THEN <<elt[i]>> ELSE <<elt[i]>> \o f[next[i]]
           Good(k, f) == /\ f \in [(n + 1 - k)..(n + 1) -> Seq(C)] /\ f[n + 1] = <<>>
                         /\ \A i \in (n + 1 - k)..n : f[i] = Here(f, i)
           T == {k \in Nat : k <= n => \E f : Good(k, f)}
<1>1. 0 \in T
  <2> DEFINE f == [i \in (n + 1 - 0)..(n + 1) |-> <<>>]
  <2>1. f \in [(n + 1 - 0)..(n + 1) -> Seq(C)] /\ f[n + 1] = <<>>
    OBVIOUS
  <2>2. \A i \in (n + 1 - 0)..n : FALSE
    OBVIOUS
  <2> HIDE DEF f
  <2>3. Good(0, f)
    BY <2>1, <2>2
  <2> HIDE DEF Good
  <2> QED  BY <2>3
<1>2. ASSUME NEW k \in Nat, k \in T PROVE k + 1 \in T
  <2> SUFFICES ASSUME k + 1 <= n PROVE \E f : Good(k + 1, f)
    <3> HIDE DEF Good
    <3> QED  OBVIOUS
  <2>1. PICK f : Good(k, f)
    <3> HIDE DEF Good
    <3> QED  BY <1>2
  <2> DEFINE m == n - k
             g == [i \in m..(n + 1) |-> IF i = m THEN Here(f, m) ELSE f[i]]
  <2>2. m \in 1..n /\ n + 1 - k = m + 1 /\ n + 1 - (k + 1) = m
    OBVIOUS
  <2>3. f \in [(m + 1)..(n + 1) -> Seq(C)] /\ f[n + 1] = <<>> /\ \A i \in (m + 1)..n : f[i] = Here(f, i)
    BY <2>1, <2>2
  <2> HIDE DEF m, Good
  <2>4. Here(f, m) \in Seq(C)
    <3>1. elt[m] \in C /\ <<elt[m]>> \in Seq(C)
      BY <2>2
    <3>2. next[m] \notin {m, n + 2} => next[m] \in (m + 1)..(n + 1)
      BY <2>2
    <3>3. next[m] \notin {m, n + 2} => f[next[m]] \in Seq(C)
      BY <2>3, <3>2
    <3>4. next[m] \notin {m, n + 2} => <<elt[m]>> \o f[next[m]] \in Seq(C)
      BY <3>1, <3>3
    <3> QED  BY <3>1, <3>4
  <2>5. g \in [m..(n + 1) -> Seq(C)] /\ g[m] = Here(f, m) /\ \A i \in (m + 1)..(n + 1) : g[i] = f[i]
    <3> DEFINE V == Seq(C)
               x == Here(f, m)
    <3>1. x \in V /\ f \in [(m + 1)..(n + 1) -> V]
      BY <2>3, <2>4
    <3>2. \A i \in m..(n + 1) : i = m \/ i \in (m + 1)..(n + 1)
      BY <2>2
    <3>3. m \in m..(n + 1) /\ \A i \in (m + 1)..(n + 1) : i \in m..(n + 1) /\ i # m
      BY <2>2
    <3> HIDE DEF V, x
    <3>4. g = [i \in m..(n + 1) |-> IF i = m THEN x ELSE f[i]]
      BY DEF x
    <3> HIDE DEF Here, g
    <3>5. g \in [m..(n + 1) -> V] /\ g[m] = x /\ \A i \in (m + 1)..(n + 1) : g[i] = f[i]
      BY <3>1, <3>2, <3>3, <3>4
    <3> QED  BY <3>5 DEF V, x
  <2> HIDE DEF g
  <2>6. ASSUME NEW i \in m..n PROVE g[i] = Here(g, i)
    <3>1. i \in 1..n /\ (next[i] \notin {i, n + 2} => next[i] \in (m + 1)..(n + 1))
      BY <2>2
    <3>2. Here(g, i) = Here(f, i)
      BY <2>5, <3>1
    <3>3. i = m \/ i \in (m + 1)..n
      BY <2>2
    <3>4. CASE i = m
      BY <2>5, <3>2, <3>4
    <3>5. CASE i \in (m + 1)..n
      <4>1. g[i] = f[i] /\ f[i] = Here(f, i)
        BY <2>2, <2>3, <2>5, <3>5
      <4> HIDE DEF Here
      <4> QED  BY <3>2, <4>1
    <3> QED  BY <3>3, <3>4, <3>5
  <2>7. g[n + 1] = <<>>
    BY <2>2, <2>3, <2>5
  <2>8. Good(k + 1, g)
    BY <2>2, <2>5, <2>6, <2>7 DEF Good
  <2> QED  BY <2>8
<1>3. n \in T
  <2> HIDE DEF T
  <2> QED  BY <1>1, <1>2, InductionOnSet
<1>4. PICK f : Good(n, f)
  <2> HIDE DEF Good
  <2> QED  BY <1>3
<1>5. n + 1 - n = 1
  OBVIOUS
<1>6. f \in [1..(n + 1) -> Seq(C)] /\ f[n + 1] = <<>> /\ \A i \in 1..n : f[i] = Here(f, i)
  BY <1>4, <1>5
<1> QED  BY <1>6 DEF Listing

\* There is only one.
Goes(next, n)   == next \in [1..n -> Nat] /\ \A i \in 1..n : next[i] \in i..(n + 2)
Agree(f, h, n)  == \A i \in 1..(n + 1) : h[i] = f[i]

LEMMA ListingUnique ==
  ASSUME NEW n \in Nat, NEW elt, NEW next, Goes(next, n),
         NEW f, NEW h, Listing(f, n, elt, next), Listing(h, n, elt, next)
  PROVE  Agree(f, h, n)
<1>0. next \in [1..n -> Nat] /\ \A i \in 1..n : next[i] \in i..(n + 2)
  BY DEF Goes
<1> DEFINE T == {k \in Nat : \A i \in 1..(n + 1) : i >= n + 1 - k => h[i] = f[i]}
<1>1. 0 \in T
  <2>1. \A i \in 1..(n + 1) : i >= n + 1 - 0 => i = n + 1
    OBVIOUS
  <2> QED  BY <2>1 DEF Listing
<1>2. ASSUME NEW k \in Nat, k \in T PROVE k + 1 \in T
  <2> SUFFICES ASSUME NEW i \in 1..(n + 1), i >= n + 1 - (k + 1) PROVE h[i] = f[i]
    OBVIOUS
  <2>1. CASE i = n + 1
    BY <2>1 DEF Listing
  <2>2. CASE i \in 1..n
    <3>1. next[i] \notin {i, n + 2} => next[i] \in 1..(n + 1) /\ next[i] >= n + 1 - k
      <4>1. next[i] \in i..(n + 2)
        BY <1>0, <2>2
      <4> QED  BY <2>2, <4>1
    <3>2. next[i] \notin {i, n + 2} => h[next[i]] = f[next[i]]
      BY <1>2, <3>1
    <3>3. /\ f[i] = IF next[i] \in {i, n + 2} THEN <<elt[i]>> ELSE <<elt[i]>> \o f[next[i]]
          /\ h[i] = IF next[i] \in {i, n + 2} THEN <<elt[i]>> ELSE <<elt[i]>> \o h[next[i]]
      BY <2>2 DEF Listing
    <3> QED  BY <3>2, <3>3
  <2> QED  BY <2>1, <2>2
<1>3. n \in T
  <2> HIDE DEF T
  <2> QED  BY <1>1, <1>2, InductionOnSet
<1> QED  BY <1>3 DEF Agree

\* The turns of chmod's loop are such a list.
TurnsOf(mode) == [i \in 1..Len(mode) |-> Clause(mode, i)]
NextsOf(mode) == [i \in 1..Len(mode) |-> Clause(mode, i).next]

\* The turns of the loop of ch() are the clauses: NextsOf tells where the next turn starts.
LEMMA ClausesAre ==
  ASSUME NEW mode \in Seq(STRING)
  PROVE  \E f \in [1..(Len(mode) + 1) -> Seq({Clause(mode, i) : i \in 1..Len(mode)})] :
            Listing(f, Len(mode), TurnsOf(mode), NextsOf(mode)) /\ Clauses(mode) = f[1]
<1> DEFINE n == Len(mode)
           C == {Clause(mode, i) : i \in 1..n}
           Rec(f) == [i \in 1..(n + 1) |->
                        IF i > n THEN <<>>
                        ELSE LET c == Clause(mode, i)
                             IN  <<c>> \o (IF c.next \in {i, n + 2} THEN <<>> ELSE f[c.next])]
           h == CHOOSE f : f = Rec(f)
           elt == TurnsOf(mode)
           next == NextsOf(mode)
<1>1. n \in Nat
  OBVIOUS
<1>2. /\ elt \in [1..n -> C] /\ \A i \in 1..n : elt[i] = Clause(mode, i)
  BY DEF TurnsOf
<1>3. /\ next \in [1..n -> Nat] /\ \A i \in 1..n : next[i] = Clause(mode, i).next /\ next[i] \in i..(n + 2)
  <2>1. \A i \in 1..n : Clause(mode, i).next \in i..(n + 2)
    BY ClauseIs
  <2>2. \A i \in 1..n : Clause(mode, i).next \in Nat
    BY <1>1, <2>1
  <2> QED  BY <2>1, <2>2 DEF NextsOf
<1> HIDE DEF elt, next, C
<1>4. PICK f \in [1..(n + 1) -> Seq(C)] : Listing(f, n, elt, next)
  <2> HIDE DEF n
  <2> QED  BY <1>1, <1>2, <1>3, ListingExists
<1>5. ASSUME NEW g, NEW i \in 1..n
      PROVE  Rec(g)[i] = IF next[i] \in {i, n + 2} THEN <<elt[i]>> ELSE <<elt[i]>> \o g[next[i]]
  <2>1. elt[i] \in C /\ <<elt[i]>> \in Seq(C) /\ <<elt[i]>> \o <<>> = <<elt[i]>>
    BY <1>2
  <2>2. i \in 1..(n + 1) /\ ~(i > n)
    BY <1>1
  <2>3. Rec(g)[i] = <<Clause(mode, i)>> \o (IF Clause(mode, i).next \in {i, n + 2} THEN <<>> ELSE g[Clause(mode, i).next])
    BY <2>2
  <2>4. Rec(g)[i] = <<elt[i]>> \o (IF next[i] \in {i, n + 2} THEN <<>> ELSE g[next[i]])
    BY <1>2, <1>3, <2>3
  <2> HIDE DEF Rec
  <2> QED  BY <2>1, <2>4
<1>6. \A g : DOMAIN Rec(g) = 1..(n + 1) /\ Rec(g)[n + 1] = <<>> /\ Rec(g) = [i \in 1..(n + 1) |-> Rec(g)[i]]
  BY <1>1
<1> HIDE DEF Rec
<1>7. f = Rec(f)
  <2>1. ASSUME NEW i \in 1..(n + 1) PROVE f[i] = Rec(f)[i]
    <3>1. i = n + 1 \/ i \in 1..n
      BY <1>1
    <3>2. CASE i = n + 1
      BY <1>4, <1>6, <3>2 DEF Listing
    <3>3. CASE i \in 1..n
      BY <1>4, <1>5, <3>3 DEF Listing
    <3> QED  BY <3>1, <3>2, <3>3
  <2>2. f = [i \in 1..(n + 1) |-> f[i]]
    BY <1>4
  <2> QED  BY <1>6, <2>1, <2>2
<1>8. h = Rec(h)
  BY <1>7
<1> HIDE DEF h
<1>9. Listing(h, n, elt, next)
  BY <1>5, <1>6, <1>8 DEF Listing
<1>10. h[1] = f[1]
  <2>1. 1 \in 1..(n + 1)
    BY <1>1
  <2>2. \A i \in 1..n : next[i] \in i..(n + 2)
    BY <1>3
  <2> HIDE DEF n
  <2>3. Goes(next, n)
    BY <1>3, <2>2 DEF Goes
  <2>4. Agree(f, h, n)
    BY <1>1, <1>4, <1>9, <2>3, ListingUnique
  <2> QED  BY <2>1, <2>4 DEF Agree
<1>11. Clauses(mode) = h[1]
  BY DEF Clauses, h, Rec
<1> QED  BY <1>4, <1>10, <1>11 DEF n, elt, next, C

\* A sequence of all elements of a set.
LEMMA SetToSeqIs ==
  ASSUME NEW S, IsFiniteSet(S)
  PROVE  SetToSeq(S) \in Seq(S) /\ ToSet(SetToSeq(S)) = S
<1> DEFINE n == Cardinality(S)
           s == SetToSeq(S)
<1>1. n \in Nat /\ ExistsBijection(1..n, S)
  BY FS_CardinalityType
<1>2. \E f \in [1..n -> S] : IsInjective(f)
  BY <1>1 DEF ExistsBijection, Bijection, Injection, Surjection, IsInjective
<1>3. s \in [1..n -> S] /\ IsInjective(s)
  BY <1>2 DEF SetToSeq
<1> HIDE DEF s
<1>4. s \in Injection(1..n, S) /\ IsFiniteSet(1..n) /\ Cardinality(1..n) = n
  <2>1. IsFiniteSet(1..n) /\ Cardinality(1..n) = IF 1 > n THEN 0 ELSE n - 1 + 1
    BY <1>1, FS_Interval
  <2> QED  BY <1>1, <1>3, <2>1 DEF Injection
<1>5. s \in Surjection(1..n, S)
  BY <1>4, FS_Injection
<1>6. s \in Seq(S) /\ DOMAIN s = 1..n
  BY <1>1, <1>3
<1>7. ToSet(s) = S
  BY <1>3, <1>5, <1>6 DEF Surjection, ToSet
<1> QED  BY <1>6, <1>7 DEF s

\* Who, what, and which are told apart by their characters.
Silent(who) == who = ""
Ops == {"+", "-", "="}

\* No character belongs to two parts of a clause.
LEMMA CharKinds ==
  /\ \A who \in Letters : ~Silent(who)
  /\ \A op \in Ops : op \notin Letters /\ Stops(op)
  /\ \A d \in Octals : d \in Digits /\ d \notin Letters /\ d # ","
  /\ \A x \in Perms : x \notin Digits /\ x # ","
  /\ IsFiniteSet(Perms)
<1>1. \A who \in Letters : ~Silent(who)
  BY DEF Letters, Classes, Silent
<1>2. \A op \in Ops : op \notin Letters /\ Stops(op)
  BY DEF Ops, Letters, Classes, Stops, Perms, Digits, Octals
<1>3. \A d \in Octals : d \in Digits /\ d \notin Letters /\ d # ","
  BY DEF Octals, Digits, Letters, Classes
<1>4. \A x \in Perms : x \notin Digits /\ x # ","
  BY DEF Perms, Digits, Octals
<1>5. IsFiniteSet(Perms)
  <2>1. Perms = (((({} \cup {"r"}) \cup {"w"}) \cup {"x"}) \cup {"s"}) \cup {"t"}
    BY DEF Perms
  <2> QED  BY <2>1, FS_EmptySet, FS_AddElement
<1> QED  BY <1>1, <1>2, <1>3, <1>4, <1>5

IsComma(ch) == ch = ","

\* The characters t are in the mode from i on, and then comes the end or a comma.
Standing(mode, i, t) ==
  /\ i + Len(t) <= Len(mode) + 1 /\ \A j \in 1..Len(t) : mode[(i - 1) + j] = t[j]
  /\ i + Len(t) <= Len(mode) => IsComma(mode[i + Len(t)])

\* Where the turn that reads them ends.
After(mode, i, t) == IF i + Len(t) <= Len(mode) THEN i + Len(t) + 1 ELSE i + Len(t)

ReadAs(mode, i, c) ==
  Clause(mode, i).op = c.op /\ Clause(mode, i).bits = c.bits \cap Bits /\ Clause(mode, i).next = After(mode, i, c.text)

\* Behind the characters of a clause its run ends, and there is a comma or the end.
LEMMA StandingEnd ==
  ASSUME NEW mode \in Seq(STRING), NEW i \in 1..Len(mode), NEW t, Len(t) \in Nat, Standing(mode, i, t)
  PROVE  Stops(Char(mode, i + Len(t))) /\ (IsComma(Char(mode, i + Len(t))) <=> i + Len(t) <= Len(mode))
<1> DEFINE e == i + Len(t)
<1>1. e <= Len(mode) => IsComma(Char(mode, e))
  BY DEF Standing, Char
<1>2. ~(e <= Len(mode)) => Stops(Char(mode, e)) /\ ~IsComma(Char(mode, e))
  BY EndStops, Zenon DEF IsComma
<1>3. \A ch : IsComma(ch) => Stops(ch)
  BY CommaStops, Zenon DEF IsComma
<1> QED  BY <1>1, <1>2, <1>3

\* An octal number.
LEMMA OctalReads ==
  ASSUME NEW mode \in Seq(STRING), NEW i \in 1..Len(mode), NEW t \in Seq(Octals), t # <<>>, Standing(mode, i, t)
  PROVE  ReadAs(mode, i, Octal(t))
<1> DEFINE n      == Len(mode)
           place  == IF mode[i] \in Letters THEN i + 1 ELSE i
           digit  == Char(mode, place) \in Digits
           start  == IF digit THEN place ELSE place + 1
           number == Char(mode, start) \in Digits
           set    == IF number THEN Octals ELSE Perms
           end    == RunEnd(mode, start, set)
           what   == SubSeq(mode, start, end - 1)
           e      == i + Len(t)
<1>0. n \in Nat /\ i \in Nat /\ i <= n /\ i >= 1 /\ Len(t) \in Nat /\ Len(t) >= 1 /\ e \in Nat /\ e <= n + 1 /\ i <= e
  BY DEF Standing
<1>1. \A j \in 1..Len(t) : mode[(i - 1) + j] = t[j] /\ t[j] \in Octals
  BY DEF Standing
<1>2. mode[i] = t[1] /\ mode[i] \in Octals
  BY <1>0, <1>1
<1>3. mode[i] \notin Letters /\ mode[i] \in Digits
  BY <1>2, CharKinds
<1>4. place = i /\ Char(mode, i) = mode[i]
  BY <1>0, <1>3 DEF Char
<1>5. start = i
  BY <1>3, <1>4
<1>6. set = Octals
  BY <1>3, <1>4, <1>5
<1>7. end = e
  <2>1. Stops(Char(mode, e))
    BY <1>0, StandingEnd
  <2>2. Char(mode, e) \notin Octals
    BY <2>1 DEF Stops
  <2>3. \A j \in i..(e - 1) : Char(mode, j) \in Octals
    <3> SUFFICES ASSUME NEW j \in i..(e - 1) PROVE Char(mode, j) \in Octals
      OBVIOUS
    <3>1. j - i + 1 \in 1..Len(t) /\ (i - 1) + (j - i + 1) = j /\ j <= n
      BY <1>0
    <3> QED  BY <1>1, <3>1 DEF Char
  <2> DEFINE f == Octals
  <2>4. f \in {Perms, Octals} /\ Char(mode, e) \notin f /\ \A j \in i..(e - 1) : Char(mode, j) \in f
    BY <2>2, <2>3
  <2> HIDE DEF f, e, n
  <2>5. RunEnd(mode, i, f) = e
    BY <1>0, <2>4, RunEndAt DEF n
  <2> QED  BY <1>5, <1>6, <2>5 DEF f
<1>8. what = t
  <2>1. SubSeq(mode, i, e - 1) \in Seq(STRING) /\ Len(SubSeq(mode, i, e - 1)) = Len(t)
    BY <1>0
  <2>2. \A j \in 1..Len(t) : SubSeq(mode, i, e - 1)[j] = t[j]
    BY <1>0, <1>1
  <2>3. SubSeq(mode, i, e - 1) = t
    BY <2>1, <2>2
  <2> QED  BY <1>5, <1>7, <2>3
<1>9. Mask(mode[i]) = Bits
  BY <1>3 DEF Mask, Letters
<1>10. Clause(mode, i).op = "="
  BY <1>3, <1>4 DEF Clause
<1>11. Clause(mode, i).bits = OctalBits(t) \cap Bits
  <2>1. Clause(mode, i).bits = (IF number THEN OctalBits(what) ELSE PermBits(ToSet(what))) \cap Mask(mode[i])
    BY DEF Clause
  <2>2. number
    BY <1>3, <1>4, <1>5
  <2> HIDE DEF number, what
  <2> QED  BY <1>8, <1>9, <2>1, <2>2
<1>12. Clause(mode, i).next = After(mode, i, t)
  <2>1. Clause(mode, i).next = IF IsComma(Char(mode, end)) THEN end + 1 ELSE end
    BY DEF Clause, IsComma
  <2>2. IsComma(Char(mode, e)) <=> e <= n
    BY <1>0, StandingEnd
  <2> HIDE DEF end, n
  <2> QED  BY <1>7, <2>1, <2>2 DEF After, n
<1> QED  BY <1>10, <1>11, <1>12 DEF ReadAs, Octal

\* The text of a clause is at most a letter, an operation, and permissions.
Whom       == Letters \cup {""}
Glyphs     == Whom \cup Ops \cup Perms
Ahead(who) == IF Silent(who) THEN 0 ELSE 1

\* The characters of a clause that names permissions.
LEMMA GivesText ==
  ASSUME NEW who \in Whom, NEW op \in Ops, NEW perms \in SUBSET Perms
  PROVE  LET t == Gives(who, op, perms).text
             s == SetToSeq(perms)
         IN  /\ s \in Seq(Perms) /\ ToSet(s) = perms /\ t \in Seq(Glyphs)
             /\ Len(t) = Ahead(who) + 1 + Len(s) /\ t[Ahead(who) + 1] = op
             /\ \A j \in 1..Len(s) : t[Ahead(who) + 1 + j] = s[j]
             /\ ~Silent(who) => t[1] = who
<1> DEFINE t == Gives(who, op, perms).text
           s == SetToSeq(perms)
<1>1. s \in Seq(perms) /\ ToSet(s) = perms
  <2>1. IsFiniteSet(perms)
    BY CharKinds, FS_Subset
  <2> QED  BY <2>1, SetToSeqIs
<1>2. s \in Seq(Perms)
  BY <1>1
<1>3. \A x \in Perms : x \in Glyphs
  BY DEF Glyphs
<1>4. s \in Seq(Glyphs)
  BY <1>2, <1>3
<1>5. t = (IF Silent(who) THEN <<>> ELSE <<who>>) \o <<op>> \o s
  BY DEF Gives, Silent
<1>6. who \in Glyphs /\ op \in Glyphs
  BY DEF Glyphs
<1> HIDE DEF s, t
<1>7. CASE Silent(who)
  <2>1. t = <<op>> \o s
    BY <1>4, <1>5, <1>6, <1>7
  <2> QED  BY <1>1, <1>2, <1>4, <1>6, <1>7, <2>1 DEF Ahead, s, t
<1>8. CASE ~Silent(who)
  <2>1. t = <<who>> \o <<op>> \o s
    BY <1>5, <1>8
  <2> QED  BY <1>1, <1>2, <1>4, <1>6, <1>8, <2>1 DEF Ahead, s, t
<1> QED  BY <1>7, <1>8

\* Of whom the bits are.
LEMMA GivesBits ==
  ASSUME NEW who \in Whom, NEW op \in Ops, NEW perms, NEW first, first = IF Silent(who) THEN op ELSE who
  PROVE  Gives(who, op, perms).bits = PermBits(perms) \cap Mask(first)
<1>1. Gives(who, op, perms).bits = {b \in Bits : b[2] \in perms /\ (Silent(who) \/ who = "a" \/ b[1] = who \/ b = Sticky)}
  BY DEF Gives, Silent
<1>2. CASE Silent(who)
  <2>1. Mask(first) = Bits
    BY <1>2, CharKinds DEF Mask, Letters
  <2> QED  BY <1>1, <1>2, <2>1 DEF PermBits
<1>3. CASE ~Silent(who) /\ who = "a"
  <2>1. who \notin Classes /\ first = who
    BY <1>3 DEF Classes
  <2>2. Mask(first) = Bits
    BY <2>1 DEF Mask
  <2> QED  BY <1>1, <1>3, <2>2 DEF PermBits
<1>4. CASE ~Silent(who) /\ who # "a"
  <2>1. who \in Classes /\ first = who
    <3>1. who \in Letters
      BY <1>4, Zenon DEF Silent, Whom
    <3> QED  BY <1>4, <3>1 DEF Letters
  <2>2. Mask(first) = {b \in Bits : b[1] = who} \cup {Sticky}
    BY <2>1 DEF Mask
  <2>3. Sticky \in Bits
    BY DEF Bits
  <2> QED  BY <1>1, <1>4, <2>2, <2>3 DEF PermBits
<1> QED  BY <1>2, <1>3, <1>4

\* It is read as what it was meant to be.
LEMMA GivesReads ==
  ASSUME NEW mode \in Seq(STRING), NEW i \in 1..Len(mode),
         NEW who \in Whom, NEW op \in Ops, NEW perms \in SUBSET Perms,
         Standing(mode, i, Gives(who, op, perms).text)
  PROVE  ReadAs(mode, i, Gives(who, op, perms))
<1> DEFINE n      == Len(mode)
           place  == IF mode[i] \in Letters THEN i + 1 ELSE i
           digit  == Char(mode, place) \in Digits
           start  == IF digit THEN place ELSE place + 1
           number == Char(mode, start) \in Digits
           set    == IF number THEN Octals ELSE Perms
           end    == RunEnd(mode, start, set)
           what   == SubSeq(mode, start, end - 1)
           t      == Gives(who, op, perms).text
           s      == SetToSeq(perms)
           e      == i + Len(t)
           a      == i + Ahead(who)
<1>1. /\ s \in Seq(Perms) /\ ToSet(s) = perms /\ t \in Seq(Glyphs)
      /\ Len(t) = Ahead(who) + 1 + Len(s) /\ t[Ahead(who) + 1] = op
      /\ \A j \in 1..Len(s) : t[Ahead(who) + 1 + j] = s[j]
      /\ ~Silent(who) => t[1] = who
  BY GivesText
<1> HIDE DEF s, t
<1>2. /\ n \in Nat /\ i \in Nat /\ i <= n /\ i >= 1 /\ Len(s) \in Nat /\ Len(t) \in Nat
      /\ Ahead(who) \in {0, 1} /\ (Silent(who) <=> Ahead(who) = 0)
  BY <1>1 DEF Ahead
<1>3. /\ e = a + 1 + Len(s) /\ e \in Nat /\ a \in Nat /\ i <= a /\ e <= n + 1
  <2>1. Standing(mode, i, t)
    BY DEF t
  <2>2. i + Len(t) <= n + 1
    BY <2>1 DEF Standing
  <2> DEFINE A == Ahead(who)
             L == Len(s)
             T == Len(t)
             N == n
  <2>3. A \in 0..1 /\ L \in Nat /\ T = A + 1 + L /\ N \in Nat /\ i + T <= N + 1
    BY <1>1, <1>2, <2>2
  <2> HIDE DEF A, L, T, N
  <2>4. /\ i + T = (i + A) + 1 + L /\ i + T \in Nat /\ i + A \in Nat /\ i <= i + A
        /\ i + T <= N + 1
    BY <1>2, <2>3
  <2> QED  BY <2>4 DEF A, L, T, N
<1>4. \A j \in 1..Len(t) : mode[(i - 1) + j] = t[j]
  BY DEF Standing, t
<1>5. mode[a] = op /\ a <= n
  <2>1. Ahead(who) + 1 \in 1..Len(t) /\ (i - 1) + (Ahead(who) + 1) = a /\ a <= n
    BY <1>1, <1>2, <1>3
  <2> QED  BY <1>1, <1>4, <2>1
<1>6. \A j \in 1..Len(s) : mode[a + j] = s[j] /\ s[j] \in Perms /\ a + j <= n
  <2> SUFFICES ASSUME NEW j \in 1..Len(s) PROVE mode[a + j] = s[j] /\ s[j] \in Perms /\ a + j <= n
    OBVIOUS
  <2> DEFINE h == Ahead(who)
             m == Len(s)
  <2>0. h \in {0, 1} /\ m \in Nat /\ j \in 1..m /\ Len(t) = h + 1 + m /\ a = i + h /\ e = a + 1 + m
    BY <1>1, <1>2, <1>3
  <2> HIDE DEF h, m, a, e
  <2>1. h + 1 + j \in 1..Len(t) /\ (i - 1) + (h + 1 + j) = a + j /\ a + j <= n
    BY <1>2, <1>3, <2>0
  <2> USE DEF h
  <2> QED  BY <1>1, <1>4, <2>1
<1>7. mode[i] = IF Silent(who) THEN op ELSE who
  <2>1. CASE Silent(who)
    BY <1>2, <1>5, <2>1
  <2>2. CASE ~Silent(who)
    <3>1. 1 \in 1..Len(t) /\ (i - 1) + 1 = i
      BY <1>1, <1>2
    <3> QED  BY <1>1, <1>4, <2>2, <3>1
  <2> QED  BY <2>1, <2>2
<1>8. op \notin Letters /\ Stops(op) /\ (who \in Letters <=> ~Silent(who))
  <2>1. ~Silent(who) => who \in Letters
    BY Zenon DEF Silent, Whom
  <2> QED  BY <2>1, CharKinds
<1>9. place = a
  BY <1>2, <1>7, <1>8
<1>10. Char(mode, a) = op /\ ~digit
  <2>1. Char(mode, a) = op
    BY <1>5 DEF Char
  <2> QED  BY <1>8, <1>9, <2>1 DEF Stops
<1>11. start = a + 1
  BY <1>9, <1>10
<1>12. Stops(Char(mode, e)) /\ (IsComma(Char(mode, e)) <=> e <= n)
  <2>1. Standing(mode, i, t)
    BY DEF t
  <2> QED  BY <1>2, <2>1, StandingEnd
<1>13. ~number
  <2>1. CASE Len(s) = 0
    <3>1. start = e
      BY <1>3, <1>11, <2>1
    <3> HIDE DEF start, e
    <3> QED  BY <1>12, <3>1 DEF Stops
  <2>2. CASE Len(s) # 0
    <3>1. 1 \in 1..Len(s)
      BY <1>2, <2>2
    <3>2. Char(mode, start) \in Perms
      BY <1>6, <1>11, <3>1 DEF Char
    <3> QED  BY <3>2, CharKinds
  <2> QED  BY <2>1, <2>2
<1>14. end = e
  <2> DEFINE f == Perms
  <2>1. \A j \in (a + 1)..(e - 1) : Char(mode, j) \in f
    <3> SUFFICES ASSUME NEW j \in (a + 1)..(e - 1) PROVE Char(mode, j) \in Perms
      OBVIOUS
    <3>1. j - a \in 1..Len(s) /\ a + (j - a) = j
      BY <1>2, <1>3
    <3>2. mode[j] \in Perms /\ j <= n
      BY <1>6, <3>1
    <3> QED  BY <3>2 DEF Char
  <2>2. f \in {Perms, Octals} /\ Char(mode, e) \notin f
    BY <1>12 DEF Stops
  <2>3. a + 1 \in Nat /\ a + 1 <= e /\ e <= n + 2
    BY <1>2, <1>3
  <2>4. end = RunEnd(mode, a + 1, f)
    BY <1>11, <1>13
  <2> HIDE DEF f, e, n, a, end
  <2>5. RunEnd(mode, a + 1, f) = e
    BY <1>3, <2>1, <2>2, <2>3, RunEndAt DEF n
  <2> QED  BY <2>4, <2>5
<1>15. ToSet(what) = perms
  <2> DEFINE w == SubSeq(mode, a + 1, e - 1)
  <2>1. what = w
    BY <1>11, <1>14
  <2>2. w \in Seq(STRING) /\ Len(w) = Len(s) /\ \A j \in 1..Len(w) : w[j] = mode[a + j]
    <3>1. a + 1 \in 1..(n + 1) /\ e - 1 \in a..n
      BY <1>2, <1>3
    <3>2. (e - 1) - (a + 1) + 1 = Len(s)
      BY <1>2, <1>3
    <3> HIDE DEF e, a
    <3>3. w \in Seq(STRING) /\ Len(w) = Len(s)
      BY <1>2, <1>3, <3>1, <3>2
    <3>4. \A j \in 1..Len(s) : w[j] = mode[a + j]
      BY <1>2, <1>3, <3>1, <3>2
    <3> QED  BY <3>3, <3>4
  <2> HIDE DEF w, what
  <2>3. DOMAIN w = 1..Len(s) /\ DOMAIN s = 1..Len(s) /\ \A j \in 1..Len(s) : w[j] = s[j]
    BY <1>1, <1>6, <2>2
  <2>4. ToSet(w) = ToSet(s)
    BY <2>3 DEF ToSet
  <2> QED  BY <1>1, <2>1, <2>4
<1>16. Clause(mode, i).op = op
  <2>1. Clause(mode, i).op = IF digit THEN "=" ELSE Char(mode, place)
    BY DEF Clause
  <2> QED  BY <1>9, <1>10, <2>1
<1>17. Clause(mode, i).bits = PermBits(perms) \cap Mask(mode[i])
  <2>1. Clause(mode, i).bits = (IF number THEN OctalBits(what) ELSE PermBits(ToSet(what))) \cap Mask(mode[i])
    BY DEF Clause
  <2> HIDE DEF number, what
  <2> QED  BY <1>13, <1>15, <2>1
<1>18. Clause(mode, i).next = After(mode, i, t)
  <2>1. Clause(mode, i).next = IF IsComma(Char(mode, end)) THEN end + 1 ELSE end
    BY DEF Clause, IsComma
  <2> HIDE DEF end
  <2> QED  BY <1>12, <1>14, <2>1 DEF After
<1>19. Gives(who, op, perms).bits = PermBits(perms) \cap Mask(mode[i])
  BY <1>7, GivesBits
<1>20. Gives(who, op, perms).bits \cap Bits = Gives(who, op, perms).bits /\ Gives(who, op, perms).op = op
  BY DEF Gives
<1> QED  BY <1>16, <1>17, <1>18, <1>19, <1>20 DEF ReadAs, t

\* Where the parts of a flattened sequence are.
Parts(o, q, r) ==
  /\ o \in [0..Len(q) -> Nat] /\ o[0] = 0 /\ o[Len(q)] = Len(r)
  /\ \A k \in 1..Len(q) : o[k] = o[k - 1] + Len(q[k]) /\ o[k] <= Len(r)
  /\ \A k \in 1..Len(q) : \A j \in 1..Len(q[k]) : r[o[k - 1] + j] = q[k][j]

\* Each sequence that is flattened is a part of the result.
LEMMA FlatParts ==
  ASSUME NEW S, NEW q \in Seq(Seq(S)), q # <<>>
  PROVE  FlattenSeq(q) \in Seq(S) /\ \E o : Parts(o, q, FlattenSeq(q))
<1> DEFINE n == Len(q)
           r == FlattenSeq(q)
<1>0. n \in Nat /\ n >= 1 /\ \A k \in 1..n : q[k] \in Seq(S) /\ Len(q[k]) \in Nat
  <2>1. \A k \in 1..n : q[k] \in Seq(S)
    OBVIOUS
  <2> QED  BY <2>1
<1>1. PICK f \in [1..n -> Seq(S)] : \A i \in 1..n : f[i] = IF i = 1 THEN q[i] ELSE f[i - 1] \o q[i]
  BY FlatExists
<1>2. r = f[n]
  BY <1>1, FlatIs
<1> HIDE DEF r, n
<1> DEFINE o == [k \in 0..n |-> IF k = 0 THEN 0 ELSE Len(f[k])]
<1>3. /\ o \in [0..n -> Nat] /\ o[0] = 0 /\ o[n] = Len(r)
      /\ \A k \in 1..n : o[k] = Len(f[k])
  <2>1. \A k \in 1..n : Len(f[k]) \in Nat /\ k # 0
    BY <1>1
  <2> QED  BY <1>0, <1>2, <2>1
<1> HIDE DEF o
<1>4. ASSUME NEW k \in 1..n
      PROVE  /\ f[k] \in Seq(S) /\ Len(f[k]) = o[k - 1] + Len(q[k]) /\ o[k - 1] \in Nat
             /\ \A j \in 1..Len(q[k]) : f[k][o[k - 1] + j] = q[k][j]
             /\ \A j \in 1..o[k - 1] : f[k][j] = f[k - 1][j]
  <2>1. CASE k = 1
    <3>0. k - 1 = 0
      BY <2>1
    <3>1. o[k - 1] = 0 /\ f[k] = q[k]
      BY <1>1, <1>3, <2>1, <3>0
    <3> QED  BY <1>0, <1>1, <3>1
  <2>2. CASE k # 1
    <3>1. k - 1 \in 1..n /\ k - 1 # 0
      BY <1>0, <2>2
    <3>2. o[k - 1] = Len(f[k - 1]) /\ f[k] = f[k - 1] \o q[k] /\ f[k - 1] \in Seq(S) /\ q[k] \in Seq(S)
      BY <1>0, <1>1, <1>3, <2>2, <3>1
    <3> DEFINE s == f[k - 1]
               t == q[k]
    <3>3. s \in Seq(S) /\ t \in Seq(S) /\ f[k] = s \o t /\ o[k - 1] = Len(s)
      BY <3>2
    <3> HIDE DEF s, t
    <3>4. /\ f[k] \in Seq(S) /\ Len(f[k]) = Len(s) + Len(t) /\ Len(s) \in Nat
          /\ \A j \in 1..Len(t) : f[k][Len(s) + j] = t[j]
          /\ \A j \in 1..Len(s) : f[k][j] = s[j]
      BY <3>3
    <3> QED  BY <3>3, <3>4 DEF s, t
  <2> QED  BY <2>1, <2>2
\* Nothing is written over.
<1> DEFINE T == {m \in Nat : \A k \in 1..n : k + m <= n => /\ o[k] <= o[k + m]
                                                          /\ \A j \in 1..o[k] : f[k + m][j] = f[k][j]}
<1>5. 0 \in T
  <2>1. \A k \in 1..n : o[k] \in Nat /\ k + 0 = k
    BY <1>0, <1>3
  <2> QED  BY <2>1
<1>6. ASSUME NEW m \in Nat, m \in T PROVE m + 1 \in T
  <2> SUFFICES ASSUME NEW k \in 1..n, k + (m + 1) <= n
               PROVE  o[k] <= o[k + (m + 1)] /\ \A j \in 1..o[k] : f[k + (m + 1)][j] = f[k][j]
    OBVIOUS
  <2> DEFINE x == k + m
  <2>1. x \in 1..n /\ x + 1 \in 1..n /\ (x + 1) - 1 = x /\ k + (m + 1) = x + 1 /\ x <= n
    BY <1>0
  <2>2. o[k] <= o[x] /\ \A j \in 1..o[k] : f[x][j] = f[k][j]
    BY <1>6, <2>1
  <2> HIDE DEF x
  <2>3. /\ o[x + 1] = o[x] + Len(q[x + 1])
        /\ \A j \in 1..o[x] : f[x + 1][j] = f[x][j]
    BY <1>4, <1>3, <2>1
  <2>4. o[x] \in Nat /\ o[k] \in Nat /\ Len(q[x + 1]) \in Nat
    BY <1>0, <1>3, <2>1
  <2>5. o[k] <= o[x + 1]
    BY <2>2, <2>3, <2>4
  <2>6. \A j \in 1..o[k] : f[x + 1][j] = f[k][j]
    BY <2>2, <2>3, <2>4
  <2> QED  BY <2>1, <2>5, <2>6
<1>7. Nat \subseteq T
  <2> HIDE DEF T
  <2> QED  BY <1>5, <1>6, InductionOnSet
<1>8. ASSUME NEW k \in 1..n PROVE o[k] <= Len(r) /\ \A j \in 1..o[k] : r[j] = f[k][j]
  <2>1. n - k \in Nat /\ k + (n - k) = n
    BY <1>0
  <2>2. n - k \in T
    BY <1>7, <2>1
  <2>3. k + (n - k) <= n => o[k] <= o[k + (n - k)] /\ \A j \in 1..o[k] : f[k + (n - k)][j] = f[k][j]
    BY <2>2
  <2> QED  BY <1>0, <1>2, <1>3, <2>1, <2>3
<1>9. ASSUME NEW k \in 1..n, NEW j \in 1..Len(q[k]) PROVE r[o[k - 1] + j] = q[k][j]
  <2>1. Len(q[k]) \in Nat /\ o[k - 1] \in Nat /\ o[k] = o[k - 1] + Len(q[k])
    BY <1>0, <1>4, <1>3
  <2>2. o[k - 1] + j \in 1..o[k]
    BY <2>1
  <2> QED  BY <1>4, <1>8, <2>2
<1>10. \A k \in 1..n : o[k] = o[k - 1] + Len(q[k]) /\ o[k] <= Len(r)
  BY <1>4, <1>3, <1>8
<1>11. Parts(o, q, r)
  BY <1>3, <1>9, <1>10 DEF Parts, n
<1>12. r \in Seq(S)
  BY <1>0, <1>1, <1>2
<1> QED  BY <1>11, <1>12 DEF r

Signs == Glyphs \cup Octals \cup {","}

\* A clause has characters, and wherever they stand a turn reads them as the clause.
LEMMA ClauseText ==
  ASSUME NEW c, IsClause(c)
  PROVE  /\ c.text \in Seq(Signs) /\ Len(c.text) \in Nat /\ Len(c.text) >= 1
         /\ \A mode \in Seq(STRING) : \A i \in 1..Len(mode) : Standing(mode, i, c.text) => ReadAs(mode, i, c)
<1>1. ASSUME NEW who \in Whom, NEW op \in Ops, NEW perms \in SUBSET Perms, c = Gives(who, op, perms)
      PROVE  /\ c.text \in Seq(Signs) /\ Len(c.text) \in Nat /\ Len(c.text) >= 1
             /\ \A mode \in Seq(STRING) : \A i \in 1..Len(mode) : Standing(mode, i, c.text) => ReadAs(mode, i, c)
  <2>1. c.text \in Seq(Glyphs) /\ Len(c.text) = Ahead(who) + 1 + Len(SetToSeq(perms)) /\ SetToSeq(perms) \in Seq(Perms)
    BY <1>1, GivesText
  <2>2. Len(c.text) \in Nat /\ Len(c.text) >= 1
    BY <2>1 DEF Ahead
  <2>3. c.text \in Seq(Signs)
    <3>1. Glyphs \subseteq Signs
      BY Zenon DEF Signs
    <3> QED  BY <2>1, <3>1
  <2> QED  BY <1>1, <2>2, <2>3, GivesReads
<1>2. ASSUME c.text # <<>>, c.text \in Seq(Octals), c = Octal(c.text)
      PROVE  /\ c.text \in Seq(Signs) /\ Len(c.text) \in Nat /\ Len(c.text) >= 1
             /\ \A mode \in Seq(STRING) : \A i \in 1..Len(mode) : Standing(mode, i, c.text) => ReadAs(mode, i, c)
  <2> DEFINE t == c.text
  <2>0. t # <<>> /\ t \in Seq(Octals) /\ c = Octal(t)
    BY <1>2
  <2> HIDE DEF t
  <2>1. Len(t) \in Nat /\ Len(t) >= 1
    BY <2>0
  <2>2. t \in Seq(Signs)
    <3>1. Octals \subseteq Signs
      BY Zenon DEF Signs
    <3> QED  BY <2>0, <3>1
  <2>3. \A mode \in Seq(STRING) : \A i \in 1..Len(mode) : Standing(mode, i, t) => ReadAs(mode, i, c)
    BY <2>0, OctalReads
  <2> QED  BY <2>1, <2>2, <2>3 DEF t
<1>3. \/ \E who \in Whom, op \in Ops, perms \in SUBSET Perms : c = Gives(who, op, perms)
      \/ c.text # <<>> /\ c.text \in Seq(Octals) /\ c = Octal(c.text)
  BY Zenon DEF IsClause, Whom, Ops
<1> QED  BY <1>1, <1>2, <1>3

\* What a clause of the operand does, one of the clauses that were meant does.
Says(means, c) == \E m \in ToSet(means) : c.op = m.op /\ c.bits = m.bits \cap Bits

\* So an operand that was written to mean something says nothing else.
LEMMA WrittenReads ==
  ASSUME NEW means, means \in Seq(ToSet(means)), means # <<>>, \A c \in ToSet(means) : IsClause(c),
         NEW mode \in Seq(STRING), mode = Written(means)
  PROVE  \A c \in ToSet(Clauses(mode)) : Says(means, c)
<1> DEFINE n    == Len(means)
           text(k) == means[k].text
           comma(k) == IF k < n THEN <<",">> ELSE <<>>
           q    == [k \in DOMAIN means |-> text(k) \o comma(k)]
           z    == Len(mode)
<1>0. n \in Nat /\ n >= 1 /\ DOMAIN means = 1..n /\ \A k \in 1..n : means[k] \in ToSet(means) /\ IsClause(means[k])
  BY DEF ToSet
<1>1. z \in Nat
  OBVIOUS
<1>2. ASSUME NEW k \in 1..n
      PROVE  /\ text(k) \in Seq(Signs) /\ Len(text(k)) \in Nat /\ Len(text(k)) >= 1
             /\ \A i \in 1..Len(mode) : Standing(mode, i, text(k)) => ReadAs(mode, i, means[k])
  BY <1>0, ClauseText
<1>3. ASSUME NEW k \in 1..n
      PROVE  /\ q[k] \in Seq(Signs) /\ \A j \in 1..Len(text(k)) : q[k][j] = text(k)[j]
             /\ k < n => Len(q[k]) = Len(text(k)) + 1 /\ IsComma(q[k][Len(text(k)) + 1])
             /\ k >= n => Len(q[k]) = Len(text(k))
  <2> DEFINE t == text(k)
             e == comma(k)
  <2>1. \A x : IsComma(x) <=> x = ","
    BY DEF IsComma
  <2>2. k < n => \E x \in Signs : IsComma(x) /\ e = <<x>>
    BY <2>1, Zenon DEF Signs
  <2>3. k >= n => e = <<>>
    BY <1>0
  <2>4. t \in Seq(Signs)
    BY <1>2
  <2>5. q[k] = t \o e
    BY <1>0
  <2> HIDE DEF t, e, q
  <2>6. CASE k < n
    <3>1. PICK x \in Signs : IsComma(x) /\ e = <<x>>
      BY <2>2, <2>6
    <3>3. /\ q[k] \in Seq(Signs) /\ Len(q[k]) = Len(t) + 1 /\ q[k][Len(t) + 1] = x
          /\ \A j \in 1..Len(t) : q[k][j] = t[j]
      BY <2>4, <2>5, <3>1
    <3>4. ~(k >= n)
      BY <1>0, <2>6
    <3> QED  BY <3>1, <3>3, <3>4 DEF t
  <2>7. CASE k >= n
    <3>1. q[k] = t
      BY <2>3, <2>4, <2>5, <2>7
    <3>2. ~(k < n)
      BY <1>0, <2>7
    <3> QED  BY <2>4, <2>7, <3>1, <3>2 DEF t
  <2> QED  BY <1>0, <2>6, <2>7
<1>4. mode = FlattenSeq(q)
  BY DEF Written
<1>5. q \in Seq(Seq(Signs)) /\ q # <<>> /\ Len(q) = n
  <2>1. DOMAIN q = 1..n /\ q = [k \in 1..n |-> q[k]]
    BY <1>0
  <2> HIDE DEF q
  <2> DEFINE V == Seq(Signs)
  <2>2. q \in [1..n -> V]
    BY <1>3, <2>1
  <2> HIDE DEF V, n
  <2>3. q \in Seq(V) /\ q # <<>> /\ Len(q) = n
    BY <1>0, <2>1, <2>2
  <2> QED  BY <2>3 DEF V
<1> HIDE DEF q
<1>6. PICK o : Parts(o, q, mode)
  BY <1>4, <1>5, FlatParts
<1>7. /\ o \in [0..n -> Nat] /\ o[0] = 0 /\ o[n] = z
      /\ \A k \in 1..n : o[k] = o[k - 1] + Len(q[k]) /\ o[k] <= z
      /\ \A k \in 1..n : \A j \in 1..Len(q[k]) : mode[o[k - 1] + j] = q[k][j]
  BY <1>5, <1>6 DEF Parts
\* Each text stands where it is read, and the next is read behind it.
<1>8. ASSUME NEW k \in 1..n
      PROVE  /\ o[k - 1] \in Nat /\ o[k] \in Nat /\ o[k - 1] + 1 <= o[k] /\ o[k - 1] + 1 \in 1..z
             /\ ReadAs(mode, o[k - 1] + 1, means[k])
             /\ After(mode, o[k - 1] + 1, text(k)) = o[k] + 1
  <2> DEFINE t == text(k)
             b == o[k - 1]
             a == o[k]
  <2>1. Len(t) \in Nat /\ Len(t) >= 1
    BY <1>2
  <2>2. k - 1 \in 0..n /\ k \in 0..n
    BY <1>0
  <2>3. b \in Nat /\ a \in Nat /\ a = b + Len(q[k]) /\ a <= z
    BY <1>7, <2>2
  <2>4. /\ \A j \in 1..Len(t) : q[k][j] = t[j]
        /\ k < n => Len(q[k]) = Len(t) + 1 /\ IsComma(q[k][Len(t) + 1])
        /\ k >= n => Len(q[k]) = Len(t)
    BY <1>3
  <2>5. \A j \in 1..Len(q[k]) : mode[b + j] = q[k][j]
    BY <1>7
  <2>6. k >= n => a = z
    BY <1>0, <1>7
  <2> HIDE DEF t, b, a, z
  <2>7. (b + 1) - 1 = b /\ b + 1 \in 1..z /\ b + 1 <= a
    <3>1. Len(q[k]) >= Len(t) /\ Len(q[k]) \in Nat
      BY <1>0, <2>1, <2>4
    <3> QED  BY <1>1, <2>1, <2>3, <3>1
  <2>8. Standing(mode, b + 1, t) /\ After(mode, b + 1, t) = a + 1
    <3>1. CASE k < n
      <4>1. a = b + Len(t) + 1 /\ Len(t) + 1 \in 1..Len(q[k])
        <5>1. Len(q[k]) = Len(t) + 1
          BY <2>4, <3>1
        <5> DEFINE T == Len(t)
                   Q == Len(q[k])
        <5>2. T \in Nat /\ Q = T + 1 /\ a = b + Q /\ a \in Nat /\ b \in Nat
          BY <2>1, <2>3, <5>1
        <5> HIDE DEF T, Q
        <5>3. a = b + T + 1 /\ T + 1 \in 1..Q
          BY <5>2
        <5> QED  BY <5>3 DEF T, Q
      <4>2. \A j \in 1..Len(t) : mode[b + j] = t[j]
        BY <2>1, <2>4, <2>5, <3>1
      <4>3. mode[b + (Len(t) + 1)] = q[k][Len(t) + 1]
        BY <2>5, <4>1
      <4>4. IsComma(mode[b + 1 + Len(t)])
        <5>1. b + (Len(t) + 1) = b + 1 + Len(t)
          BY <2>1, <2>3
        <5> QED  BY <2>4, <3>1, <4>3, <5>1
      <4>5. b + 1 + Len(t) <= z /\ b + 1 + Len(t) <= z + 1 /\ b + 1 + Len(t) + 1 = a + 1
        BY <1>1, <2>1, <2>3, <4>1
      <4> QED  BY <2>7, <4>2, <4>4, <4>5 DEF Standing, After, z
    <3>2. CASE k >= n
      <4>1. a = b + Len(t) /\ a = z /\ Len(q[k]) = Len(t)
        BY <2>3, <2>4, <2>6, <3>2
      <4>2. \A j \in 1..Len(t) : mode[b + j] = t[j]
        BY <2>4, <2>5, <4>1
      <4>3. ~(b + 1 + Len(t) <= z) /\ b + 1 + Len(t) <= z + 1 /\ b + 1 + Len(t) = a + 1
        BY <1>1, <2>1, <2>3, <4>1
      <4> QED  BY <2>7, <4>2, <4>3 DEF Standing, After, z
    <3> QED  BY <1>0, <3>1, <3>2
  <2>9. ReadAs(mode, b + 1, means[k])
    <3> DEFINE i == b + 1
    <3>1. i \in 1..Len(mode) /\ Standing(mode, i, t)
      BY <2>7, <2>8 DEF z
    <3> HIDE DEF i
    <3>2. ReadAs(mode, i, means[k])
      BY <1>2, <3>1 DEF t
    <3> QED  BY <3>2 DEF i
  <2> QED  BY <2>3, <2>7, <2>8, <2>9 DEF t, a, b
<1> DEFINE Good == {c \in {Clause(mode, i) : i \in 1..z} : Says(means, c)}
<1>9. PICK f \in [1..(z + 1) -> Seq({Clause(mode, i) : i \in 1..z})] :
        Listing(f, z, TurnsOf(mode), NextsOf(mode)) /\ Clauses(mode) = f[1]
  BY ClausesAre
<1> DEFINE T == {m \in Nat : m <= n => f[o[n - m] + 1] \in Seq(Good)}
<1>10. 0 \in T
  <2>1. n - 0 = n /\ f[z + 1] = <<>>
    BY <1>0, <1>9 DEF Listing
  <2> HIDE DEF Good
  <2>2. f[o[n - 0] + 1] = <<>>
    BY <1>7, <2>1
  <2>3. <<>> \in Seq(Good)
    OBVIOUS
  <2>4. f[o[n - 0] + 1] \in Seq(Good)
    BY <2>2, <2>3, Zenon
  <2> QED  BY <2>4
<1>11. ASSUME NEW m \in Nat, m \in T PROVE m + 1 \in T
  <2> SUFFICES ASSUME m + 1 <= n PROVE f[o[n - (m + 1)] + 1] \in Seq(Good)
    OBVIOUS
  <2> DEFINE k == n - m
             i == o[k - 1] + 1
  <2>1. k \in 1..n /\ k - 1 = n - (m + 1) /\ m <= n
    BY <1>0
  <2>2. f[o[k] + 1] \in Seq(Good)
    BY <1>11, <2>1
  <2>3. i = o[n - (m + 1)] + 1
    BY <2>1
  <2> HIDE DEF k, T
  <2>4. /\ o[k - 1] \in Nat /\ o[k] \in Nat /\ i \in 1..z /\ i <= o[k]
        /\ ReadAs(mode, i, means[k]) /\ After(mode, i, text(k)) = o[k] + 1 /\ o[k] <= z
    BY <1>7, <1>8, <2>1
  <2> HIDE DEF i
  <2>5. Clause(mode, i).next = o[k] + 1
    BY <2>4 DEF ReadAs
  <2>6. TurnsOf(mode)[i] = Clause(mode, i) /\ NextsOf(mode)[i] = o[k] + 1
    BY <2>4, <2>5 DEF TurnsOf, NextsOf
  <2>7. NextsOf(mode)[i] \notin {i, z + 2}
    BY <1>1, <2>4, <2>6
  <2>8. f[i] = <<Clause(mode, i)>> \o f[o[k] + 1]
    <3>1. f[i] = <<TurnsOf(mode)[i]>> \o f[NextsOf(mode)[i]]
      BY <1>9, <2>4, <2>7 DEF Listing
    <3> QED  BY <2>6, <3>1
  <2>9. Clause(mode, i) \in Good
    <3>1. means[k] \in ToSet(means)
      BY <1>0, <2>1
    <3>2. Says(means, Clause(mode, i))
      BY <2>4, <3>1 DEF Says, ReadAs
    <3> QED  BY <2>4, <3>2
  <2> HIDE DEF Good
  <2>10. f[i] \in Seq(Good)
    BY <2>2, <2>8, <2>9
  <2> QED  BY <2>3, <2>10
<1>12. n \in T
  <2> HIDE DEF T
  <2> QED  BY <1>0, <1>10, <1>11, InductionOnSet
<1>13. f[1] \in Seq(Good)
  <2>1. n - n = 0 /\ o[0] + 1 = 1
    BY <1>0, <1>7
  <2>2. f[o[n - n] + 1] \in Seq(Good)
    BY <1>0, <1>12
  <2> QED  BY <2>1, <2>2
<1>14. ToSet(f[1]) \subseteq Good
  <2> HIDE DEF Good
  <2> QED  BY <1>13 DEF ToSet
<1> QED  BY <1>9, <1>14

\* What every clause keeps, all of them keep.
LEMMA NewModeStays ==
  ASSUME NEW mode \in Seq(STRING), NEW Good, NEW m \in Good,
         \A c \in ToSet(Clauses(mode)) : \A x \in Good : Apply(x, c) \in Good
  PROVE  NewMode(mode, m) \in Good
<1> DEFINE cs == Clauses(mode)
           n == Len(cs)
           Rec(g) == [s \in SUBSET (1..n) |-> IF s = {} THEN m ELSE Apply(g[s \ {Max(s)}], cs[Max(s)])]
           h == CHOOSE g : g = Rec(g)
<1>1. n \in Nat /\ DOMAIN cs = 1..n /\ \A i \in 1..n : cs[i] \in ToSet(cs)
  <2> DEFINE C == {Clause(mode, i) : i \in 1..Len(mode)}
  <2>1. PICK f \in [1..(Len(mode) + 1) -> Seq(C)] : cs = f[1]
    BY ClausesAre
  <2>2. 1 \in 1..(Len(mode) + 1)
    OBVIOUS
  <2> HIDE DEF C, cs
  <2>3. cs \in Seq(C)
    BY <2>1, <2>2
  <2> QED  BY <2>3 DEF ToSet
<1>2. \A i \in 1..n : \A x \in Good : Apply(x, cs[i]) \in Good
  BY <1>1
<1> HIDE DEF cs
<1>3. \E g : g = Rec(g)
  <2> DEFINE step == [x \in Good \X (1..n) |-> Apply(x[1], cs[x[2]])]
  <2>1. step \in [Good \X (1..n) -> Good]
    BY <1>2
  <2>2. \A a \in Good, i \in 1..n : step[<<a, i>>] = Apply(a, cs[i])
    OBVIOUS
  <2> HIDE DEF step, n
  <2>3. PICK f \in [SUBSET (1..n) -> Good] : FoldsOver(f, n, m, step)
    BY <1>1, <2>1, FoldExists
  <2>4. ASSUME NEW s \in SUBSET (1..n), s # {}
        PROVE  step[<<f[s \ {Max(s)}], Max(s)>>] = Apply(f[s \ {Max(s)}], cs[Max(s)])
    <3>1. Max(s) \in 1..n
      BY <1>1, <2>4, MaxIs
    <3>2. f[s \ {Max(s)}] \in Good
      OBVIOUS
    <3> QED  BY <2>2, <3>1, <3>2
  <2>5. f = Rec(f)
    BY <2>3, <2>4 DEF FoldsOver
  <2> QED  BY <2>5
<1>4. h = Rec(h)
  <2> HIDE DEF Rec
  <2> QED  BY <1>3
<1>5. NewMode(mode, m) = h[1..n]
  BY <1>1 DEF NewMode, FoldLeft, MapThenFoldSet, cs
<1> HIDE DEF h, n
<1>6. h[{}] \in Good
  BY <1>4
<1>7. ASSUME NEW k \in 1..n, h[1..k \ {Max(1..k)}] \in Good PROVE h[1..k] \in Good
  <2>1. 1..k \in SUBSET (1..n) /\ 1..k # {} /\ 1..k \in SUBSET (1..k) /\ k \in Nat
    <3>1. k \in Nat /\ k \in 1..k /\ \A i \in 1..k : i \in 1..n
      BY <1>1
    <3> QED  BY <3>1
  <2>2. Max(1..k) \in 1..k
    BY <2>1, MaxIs
  <2>3. h[1..k] = Apply(h[1..k \ {Max(1..k)}], cs[Max(1..k)])
    BY <1>4, <2>1
  <2>4. Max(1..k) \in 1..n
    BY <1>1, <2>2
  <2> QED  BY <1>2, <1>7, <2>3, <2>4
<1> QED  BY <1>1, <1>5, <1>6, <1>7, FoldStays

-------------------------------------------------------------------------------
(***************************************************************************)
(* What may become of a file, told of the setting only.                    *)
(***************************************************************************)
Runs(s, name, q) == {p \in DOMAIN s.cmds : s.cmds[p].name = name /\ q \in ReachOf(Universe(s), s.cmds[p])}
Free(s, q)       == \E p \in Runs(s, "chmod", q) : s.cmds[p].means = <<>>
Sets(c, b)       == c.op # "-" /\ b \in c.bits
Clears(c, b)     == (c.op = "-" /\ b \in c.bits) \/ (c.op = "=" /\ b \notin c.bits)
MaySet(s, q, b)  == Free(s, q) \/ \E p \in Runs(s, "chmod", q) : \E c \in ToSet(s.cmds[p].means) : Sets(c, b)
MayLose(s, q, b) == /\ Runs(s, "chown", q) # {} /\ ~IsDir(Universe(s), q)
                    /\ b = SetUserId \/ (b = SetGroupId /\ (GroupRuns \in s.attr[q].mode \/ MaySet(s, q, GroupRuns)))
MayClear(s, q, b) ==
  \/ Free(s, q)
  \/ MayLose(s, q, b)
  \/ \E p \in Runs(s, "chmod", q) : \E c \in ToSet(s.cmds[p].means) : Clears(c, b)

ModeFits(s, q, x) ==
  /\ \A b \in x \ s.attr[q].mode : MaySet(s, q, b)
  /\ \A b \in s.attr[q].mode \ x : MayClear(s, q, b)
UidFits(s, q, u) == u = s.attr[q].uid \/ \E p \in Runs(s, "chown", q) : u = str2uid(s.cmds[p].owner)
GidFits(s, q, g) ==
  \/ g = s.attr[q].gid
  \/ \E p \in Runs(s, "chown", q) : "chgrp" \in s.cmds[p].flags /\ g = str2uid(s.cmds[p].group)
  \/ \E p \in Runs(s, "chown", q) : \E l \in LinksOf(Universe(s)) : Universe(s)[l].to = q /\ g = s.attr[l].gid

\* What chmod makes of a mode that fits, fits.
FitModes(s, q) == {x \in SUBSET (Bits \cup {S_IFDIR}) : ModeFits(s, q, x \cap Bits)}

\* One clause makes of a mode that fits one that fits.
LEMMA ApplyFits ==
  ASSUME NEW s, NEW q, s.attr[q].mode \in SUBSET Bits, NEW c, c.bits \in SUBSET Bits,
         \A b \in Bits : Sets(c, b) => MaySet(s, q, b), \A b \in Bits : Clears(c, b) => MayClear(s, q, b),
         NEW x \in FitModes(s, q)
  PROVE  Apply(x, c) \in FitModes(s, q)
<1> DEFINE old == s.attr[q].mode
           y == Apply(x, c)
<1>1. x \in SUBSET (Bits \cup {S_IFDIR})
  BY DEF FitModes
<1>2. \A b \in (x \cap Bits) \ old : MaySet(s, q, b)
  BY DEF FitModes, ModeFits
<1>3. \A b \in old \ (x \cap Bits) : MayClear(s, q, b)
  BY DEF FitModes, ModeFits
<1> HIDE DEF old
<1>4. CASE c.op = "="
  <2>1. y = c.bits
    BY <1>4 DEF Apply
  <2>2. \A b \in Bits : (b \in c.bits => Sets(c, b)) /\ (b \notin c.bits => Clears(c, b))
    BY <1>4 DEF Sets, Clears
  <2>3. y \in SUBSET (Bits \cup {S_IFDIR}) /\ y \cap Bits = c.bits
    BY <2>1
  <2>4. ModeFits(s, q, y \cap Bits)
    BY <2>2, <2>3 DEF ModeFits
  <2> QED  BY <2>3, <2>4 DEF FitModes
<1>5. CASE c.op = "+"
  <2>1. y = x \cup c.bits
    BY <1>5 DEF Apply
  <2>2. \A b \in Bits : b \in c.bits => Sets(c, b)
    BY <1>5 DEF Sets
  <2>3. y \in SUBSET (Bits \cup {S_IFDIR}) /\ y \cap Bits = (x \cap Bits) \cup c.bits
    BY <1>1, <2>1
  <2>4. ModeFits(s, q, y \cap Bits)
    BY <1>2, <1>3, <2>2, <2>3 DEF ModeFits, old
  <2> QED  BY <2>3, <2>4 DEF FitModes
<1>6. CASE c.op = "-"
  <2>1. y = x \ c.bits
    BY <1>6 DEF Apply
  <2>2. \A b \in Bits : b \in c.bits => Clears(c, b)
    BY <1>6 DEF Clears
  <2>3. y \in SUBSET (Bits \cup {S_IFDIR}) /\ y \cap Bits = (x \cap Bits) \ c.bits
    BY <1>1, <2>1
  <2>4. ModeFits(s, q, y \cap Bits)
    BY <1>2, <1>3, <2>2, <2>3 DEF ModeFits, old
  <2> QED  BY <2>3, <2>4 DEF FitModes
<1>7. CASE c.op \notin {"=", "+", "-"}
  BY <1>7 DEF Apply
<1> QED  BY <1>4, <1>5, <1>6, <1>7

\* And so does the whole operand of a chmod, which either was meant or frees every bit.
LEMMA NewModeFits ==
  ASSUME NEW s, Setting(s), NEW p \in DOMAIN s.cmds, s.cmds[p].name = "chmod",
         NEW q \in DOMAIN Universe(s), q \in ReachOf(Universe(s), s.cmds[p]), NEW x \in FitModes(s, q)
  PROVE  NewMode(s.cmds[p].mode, x) \in FitModes(s, q)
<1> DEFINE c == s.cmds[p]
           mode == c.mode
<1>1. Command(c)
  BY DEF Setting
<1>2. mode \in Seq(STRING) /\ p \in Runs(s, "chmod", q)
  BY <1>1 DEF Command, Runs
<1>3. c.means # <<>> => /\ c.means \in Seq(ToSet(c.means)) /\ \A e \in ToSet(c.means) : IsClause(e)
                        /\ mode = Written(c.means)
  BY <1>1 DEF Command
<1>4. s.attr[q].mode \in SUBSET Bits
  BY DEF Setting, Attribute
<1>5. ASSUME NEW e \in ToSet(Clauses(mode)), NEW b \in Bits
      PROVE  (Sets(e, b) => MaySet(s, q, b)) /\ (Clears(e, b) => MayClear(s, q, b))
  <2>1. CASE c.means = <<>>
    <3>1. Free(s, q)
      BY <1>2, <2>1 DEF Free
    <3> QED  BY <3>1 DEF MaySet, MayClear
  <2>2. CASE c.means # <<>>
    <3> DEFINE means == c.means
    <3>1. /\ means # <<>> /\ means \in Seq(ToSet(means)) /\ (\A a \in ToSet(means) : IsClause(a))
          /\ mode = Written(means)
      BY <1>3, <2>2
    <3> HIDE DEF means, mode
    <3>2. Says(means, e)
      BY <1>2, <3>1, WrittenReads
    <3>3. PICK m \in ToSet(means) : e.op = m.op /\ e.bits = m.bits \cap Bits
      BY <3>2 DEF Says
    <3>4. (Sets(e, b) => Sets(m, b)) /\ (Clears(e, b) => Clears(m, b))
      BY <3>3 DEF Sets, Clears
    <3> QED  BY <1>2, <3>4 DEF MaySet, MayClear, means
  <2> QED  BY <2>1, <2>2
<1>6. ASSUME NEW e \in ToSet(Clauses(mode)) PROVE e.bits \in SUBSET Bits
  <2> DEFINE C == {Clause(mode, i) : i \in 1..Len(mode)}
             cs == Clauses(mode)
  <2>1. PICK f \in [1..(Len(mode) + 1) -> Seq(C)] : cs = f[1]
    BY <1>2, ClausesAre
  <2>2. 1 \in 1..(Len(mode) + 1)
    BY <1>2
  <2>3. cs \in Seq(C)
    <3> HIDE DEF C, cs
    <3> QED  BY <2>1, <2>2
  <2>4. e \in C
    <3> HIDE DEF C
    <3> QED  BY <2>3 DEF ToSet
  <2> QED  BY <1>2, <2>4, ClauseIs
<1>7. \A e \in ToSet(Clauses(mode)) : \A y \in FitModes(s, q) : Apply(y, e) \in FitModes(s, q)
  BY <1>4, <1>5, <1>6, ApplyFits
<1> HIDE DEF mode
<1>8. NewMode(mode, x) \in FitModes(s, q)
  BY <1>2, <1>7, NewModeStays
<1> QED  BY <1>8 DEF mode

-------------------------------------------------------------------------------
(***************************************************************************)
(* The invariant, told of a setting and a process at a time.               *)
(***************************************************************************)
AttrOK(s, q, a) ==
  /\ a = [s.attr[q] EXCEPT !.mode = a.mode, !.uid = a.uid, !.gid = a.gid]
  /\ a.mode \in SUBSET Bits /\ a.uid \in Int /\ a.gid \in Int
  /\ ModeFits(s, q, a.mode) /\ UidFits(s, q, a.uid) /\ GidFits(s, q, a.gid)
  /\ IsLink(Universe(s), q) => a = s.attr[q]

EntryNames == Name \cup Dots
Acts ==
  [at : {"stat", "set", "opendir", "readdir", "lstat"}, path : Path, st_mode : SUBSET (Bits \cup {S_IFDIR}),
   group : Int, dir : Path, snap : SUBSET EntryNames, seen : SUBSET EntryNames, name : EntryNames]

\* What stat told of a file: for chmod what is to be its mode, and for chown its group.
Told(s, c, a) ==
  LET w == Universe(s)
      q == Follow(w, a.path)
  IN  /\ c.name = "chmod" /\ q \in DOMAIN w => a.st_mode \in FitModes(s, q)
      /\ c.name = "chown" /\ q \in DOMAIN w => GidFits(s, q, a.group)
      /\ c.name = "chown" /\ S_IFDIR \in a.st_mode => IsDir(w, NoFollow(w, a.path))

\* The stream of a directory.
Streamed(w, a) == a.dir = Follow(w, a.path) /\ IsDir(w, a.dir) /\ a.snap \subseteq Entries(w, a.dir) \cup Dots

ChActOK(s, c, a) ==
  LET w == Universe(s)
  IN  /\ a.at \in {"stat", "set", "opendir", "readdir"} /\ Within(w, c, a.path)
      /\ a.at = "set" => Told(s, c, a)
      /\ a.at \in {"opendir", "readdir"} =>
           /\ "recursive" \in c.flags
           /\ c.name = "chown" => IsDir(w, NoFollow(w, a.path))
      /\ a.at = "readdir" => Streamed(w, a)

ActOK(s, c, a) ==
  CASE c.name \in {"chmod", "chown"} -> ChActOK(s, c, a)
    [] c.name = "ls" -> a.at \in {"opendir", "readdir", "lstat"}
    [] OTHER -> FALSE

ActsOf(s, c) == {a \in Acts : ActOK(s, c, a)}

ProcOK(s, c, r) ==
  /\ r = [at |-> r.at, operand |-> r.operand, stack |-> r.stack, ret |-> r.ret, entries |-> r.entries, out |-> r.out]
  /\ r.operand \in Nat /\ r.stack \in Seq(ActsOf(s, c))

AttrsOK == /\ DOMAIN attr = DOMAIN World /\ attr = [q \in DOMAIN attr |-> attr[q]]
           /\ \A q \in DOMAIN World : AttrOK(setting, q, attr[q])
ProcsOK == DOMAIN proc = Proc /\ \A p \in Proc : ProcOK(setting, Cmd(p), proc[p])

WalkInv == setting \in Settings /\ PartOf(tree, World) /\ AttrsOK /\ ProcsOK

\* A setting, and all that can be in its tree.
LEMMA SettingIs ==
  ASSUME NEW s \in Settings
  PROVE  /\ Setting(s) /\ Grown(Universe(s)) /\ IsFiniteSet(DOMAIN Universe(s))
         /\ \A l \in LinksOf(Universe(s)) : Universe(s)[l].to \in Path /\ ~IsLink(Universe(s), Universe(s)[l].to)
         /\ \A p \in DOMAIN s.cmds : Command(s.cmds[p]) /\ s.cmds[p].args \in Seq(Path)
         /\ DOMAIN s.attr = DOMAIN Universe(s)
         /\ \A q \in DOMAIN Universe(s) : s.attr[q] \in Attribute
<1>1. Setting(s)
  BY WalkAssumption
<1>2. Grown(Universe(s)) /\ IsFiniteSet(DOMAIN Universe(s)) /\ IsTree(Universe(s))
  BY <1>1, TreeIsGrown DEF Setting
<1>3. \A l \in LinksOf(Universe(s)) : Universe(s)[l].to \in Path /\ ~IsLink(Universe(s), Universe(s)[l].to)
  BY <1>2 DEF IsTree, LinksOf
<1>4. \A p \in DOMAIN s.cmds : Command(s.cmds[p]) /\ s.cmds[p].args \in Seq(Path)
  BY <1>1 DEF Setting, Command
<1>5. DOMAIN s.attr = DOMAIN Universe(s) /\ \A q \in DOMAIN Universe(s) : s.attr[q] \in Attribute
  BY <1>1 DEF Setting
<1> QED  BY <1>1, <1>2, <1>3, <1>4, <1>5

\* What is followed to its end is no link.
LEMMA EndIsNoLink ==
  ASSUME NEW s \in Settings, NEW p \in Path
  PROVE  ~IsLink(Universe(s), Follow(Universe(s), p))
<1> DEFINE w == Universe(s)
           l == NoFollow(w, p)
<1>1. Grown(w) /\ LinksLead(w) /\ \A k \in LinksOf(w) : ~IsLink(w, w[k].to)
  BY SettingIs DEF Grown
<1> HIDE DEF w
<1>2. CASE p = <<>>
  <2>1. Follow(w, p) = <<>>
    BY <1>1, <1>2, FollowIs
  <2> QED  BY <1>1, <2>1 DEF Grown, IsDir, IsLink, w
<1>3. CASE p # <<>>
  <2>1. Follow(w, p) = IF IsLink(w, l) THEN w[l].to ELSE l
    BY <1>1, <1>3, FollowIs
  <2>2. IsLink(w, l) => l \in LinksOf(w)
    BY DEF LinksOf, IsLink, Exists
  <2> HIDE DEF l
  <2>3. ~IsLink(w, Follow(w, p))
    BY <1>1, <2>1, <2>2
  <2> QED  BY <2>3 DEF w
<1> QED  BY <1>2, <1>3

\* At first, and after an Appear, everything fits.
LEMMA OldFits ==
  ASSUME NEW s \in Settings, NEW q \in DOMAIN Universe(s)
  PROVE  AttrOK(s, q, s.attr[q])
<1>1. s.attr[q] \in Attribute
  BY SettingIs
<1> DEFINE a == s.attr[q]
<1>2. a \in Attribute
  BY <1>1
<1>3. /\ a.mode \in SUBSET Bits /\ a.uid \in Int /\ a.gid \in Int
      /\ a = [a EXCEPT !.mode = a.mode, !.uid = a.uid, !.gid = a.gid]
  <2> HIDE DEF a
  <2>1. a \in [mode : SUBSET Bits, uid : Nat, gid : Nat, size : Nat, mtime : Nat, ctime : Nat, atime : Nat]
    BY <1>2 DEF Attribute
  <2>2. a.mode \in SUBSET Bits /\ a.uid \in Nat /\ a.gid \in Nat
    BY <2>1
  <2>3. a = [a EXCEPT !.mode = a.mode, !.uid = a.uid, !.gid = a.gid]
    BY <2>1
  <2> QED  BY <2>2, <2>3
<1> QED  BY <1>3 DEF AttrOK, ModeFits, UidFits, GidFits

\* The tree with one more, or one less, of what can be there.
LEMMA PartWith ==
  ASSUME NEW t, NEW w, PartOf(t, w), Grown(w), NEW q \in DOMAIN w, CanMake(t, q), NEW node, node = w[q]
  PROVE  PartOf(With(t, q, node), w)
<1> DEFINE u == With(t, q, node)
<1>1. /\ DOMAIN u = DOMAIN t \cup {q} /\ u[q] = w[q] /\ \A r \in DOMAIN t : u[r] = t[r] /\ u[r] = w[r]
      /\ u = [r \in DOMAIN u |-> u[r]] /\ q \notin DOMAIN t
  BY DEF With, CanMake, Exists, PartOf
<1> HIDE DEF u
<1>2. DOMAIN u \subseteq DOMAIN w /\ \A r \in DOMAIN u : u[r] = w[r] /\ r \in Path
  BY <1>1 DEF PartOf, Grown
<1>3. \A r : IsDir(t, r) => IsDir(u, r)
  BY <1>1 DEF IsDir, Exists
<1>4. IsDir(u, <<>>) /\ \A r \in DOMAIN u : r # <<>> => IsDir(u, Front(r))
  BY <1>1, <1>3 DEF PartOf, Grown, CanMake
<1>5. LinksLead(u)
  BY <1>2 DEF LinksLead, IsLink, Exists, Grown
<1>6. Grown(u)
  BY <1>1, <1>2, <1>4, <1>5 DEF Grown
<1> QED  BY <1>2, <1>6 DEF PartOf, u

LEMMA PartWithout ==
  ASSUME NEW t, NEW w, PartOf(t, w), NEW q, CanUnlink(t, q) \/ CanRmdir(t, q)
  PROVE  PartOf(Without(t, q), w)
<1>1. Grown(Without(t, q))
  BY WithoutIsGrown DEF PartOf
<1> QED  BY <1>1 DEF PartOf, Without

\* The invariant holds at first.
LEMMA WalkStarts == Init => WalkInv
<1> SUFFICES ASSUME Init PROVE WalkInv
  OBVIOUS
<1> DEFINE w == Universe(setting)
<1>1. setting \in Settings /\ Setting(setting) /\ Grown(w) /\ DOMAIN setting.attr = DOMAIN w
  BY SettingIs DEF Init
<1>2. PartOf(tree, World)
  <2>1. Grown(setting.tree)
    BY <1>1, TreeIsGrown DEF Setting
  <2>2. DOMAIN setting.tree \subseteq DOMAIN w /\ \A q \in DOMAIN setting.tree : setting.tree[q] = w[q]
    BY DEF Universe
  <2> QED  BY <2>1, <2>2 DEF PartOf, World, Init
<1>3. AttrsOK
  <2>1. attr = setting.attr /\ DOMAIN attr = DOMAIN w
    BY <1>1 DEF Init
  <2>2. attr = [q \in DOMAIN attr |-> attr[q]]
    <3>1. setting.attr \in [DOMAIN w -> Attribute]
      BY <1>1 DEF Setting
    <3> QED  BY <2>1, <3>1
  <2>3. \A q \in DOMAIN w : AttrOK(setting, q, attr[q])
    BY <1>1, <2>1, OldFits
  <2> QED  BY <2>1, <2>2, <2>3 DEF AttrsOK, World
<1>4. ProcsOK
  <2>1. DOMAIN proc = Proc /\ \A p \in Proc : proc[p] = Idle
    BY DEF Init, Proc
  <2>2. \A p \in Proc : ProcOK(setting, Cmd(p), Idle)
    BY DEF ProcOK, Idle
  <2> QED  BY <2>1, <2>2 DEF ProcsOK
<1> QED  BY <1>1, <1>2, <1>3, <1>4 DEF WalkInv

\* The steps of other programs.
LEMMA AppearKeeps == WalkInv /\ Appear => WalkInv'
<1> SUFFICES ASSUME WalkInv, Appear PROVE WalkInv'
  OBVIOUS
<1> PICK q \in DOMAIN setting.fresh :
       /\ CanMake(tree, q)
       /\ tree' = With(tree, q, setting.fresh[q])
       /\ attr' = [attr EXCEPT ![q] = setting.attr[q]]
  BY DEF Appear
<1>1. setting' = setting /\ proc' = proc /\ setting \in Settings /\ PartOf(tree, World) /\ AttrsOK /\ ProcsOK
  BY DEF Appear, WalkInv
<1>2. Grown(World) /\ Setting(setting)
  BY <1>1, SettingIs DEF World
<1>3. q \in DOMAIN World /\ setting.fresh[q] = World[q]
  BY <1>2 DEF World, Universe, Setting
<1>4. PartOf(tree', World)
  BY <1>1, <1>2, <1>3, PartWith
<1>5. World' = World
  BY <1>1 DEF World
<1>6. AttrsOK'
  <2>1. attr' = [attr EXCEPT ![q] = setting.attr[q]]
    OBVIOUS
  <2>2. AttrOK(setting, q, setting.attr[q])
    BY <1>1, <1>3, OldFits DEF World
  <2>3. /\ DOMAIN attr' = DOMAIN World /\ attr' = [r \in DOMAIN attr' |-> attr'[r]]
        /\ \A r \in DOMAIN World : attr'[r] = IF r = q THEN setting.attr[q] ELSE attr[r]
    BY <1>1, <1>3, <2>1 DEF AttrsOK
  <2>4. \A r \in DOMAIN World : AttrOK(setting, r, attr'[r])
    BY <1>1, <2>2, <2>3 DEF AttrsOK
  <2> QED  BY <1>1, <1>5, <2>3, <2>4 DEF AttrsOK
<1>7. ProcsOK'
  BY <1>1 DEF ProcsOK, Proc, Cmd
<1> QED  BY <1>1, <1>4, <1>5, <1>6, <1>7 DEF WalkInv

LEMMA VanishKeeps == WalkInv /\ Vanish => WalkInv'
<1> SUFFICES ASSUME WalkInv, Vanish PROVE WalkInv'
  OBVIOUS
<1> PICK q \in setting.gone : (CanUnlink(tree, q) \/ CanRmdir(tree, q)) /\ tree' = Without(tree, q)
  BY DEF Vanish
<1>1. /\ setting' = setting /\ proc' = proc /\ attr' = attr
      /\ setting \in Settings /\ PartOf(tree, World) /\ AttrsOK /\ ProcsOK
  BY DEF Vanish, WalkInv
<1>2. PartOf(tree', World)
  BY <1>1, PartWithout
<1>3. World' = World /\ AttrsOK' /\ ProcsOK'
  BY <1>1 DEF World, AttrsOK, ProcsOK, Proc, Cmd
<1> QED  BY <1>1, <1>2, <1>3 DEF WalkInv

-------------------------------------------------------------------------------
(***************************************************************************)
(* The steps of a process.                                                 *)
(***************************************************************************)
LEMMA ProcIs ==
  ASSUME WalkInv, NEW p \in Proc
  PROVE  /\ setting \in Settings /\ ProcOK(setting, Cmd(p), proc[p]) /\ Command(Cmd(p)) /\ Cmd(p).args \in Seq(Path)
         /\ proc[p].operand \in Nat /\ proc[p].stack \in Seq(ActsOf(setting, Cmd(p)))
         /\ PartOf(tree, World) /\ Grown(World) /\ World = Universe(setting)
         /\ proc[p].stack # <<>> => /\ Top(p) \in ActsOf(setting, Cmd(p))
                                    /\ Front(proc[p].stack) \in Seq(ActsOf(setting, Cmd(p)))
<1>1. setting \in Settings /\ ProcOK(setting, Cmd(p), proc[p]) /\ PartOf(tree, World) /\ World = Universe(setting)
  BY DEF WalkInv, ProcsOK, World
<1>2. Command(Cmd(p)) /\ Cmd(p).args \in Seq(Path) /\ Grown(World)
  BY <1>1, SettingIs DEF Proc, Cmd
<1>3. proc[p].operand \in Nat /\ proc[p].stack \in Seq(ActsOf(setting, Cmd(p)))
  BY <1>1 DEF ProcOK
<1>4. proc[p].stack # <<>> => /\ Last(proc[p].stack) \in ActsOf(setting, Cmd(p))
                              /\ Front(proc[p].stack) \in Seq(ActsOf(setting, Cmd(p)))
  BY <1>3, FrontAndLast
<1> QED  BY <1>1, <1>2, <1>3, <1>4 DEF Top

\* A process that goes on as it should, while nothing else changes but attributes.
LEMMA SetKeeps ==
  ASSUME WalkInv, NEW p \in Proc, NEW r, ProcOK(setting, Cmd(p), r), Set(p, r),
         setting' = setting, tree' = tree, attr' = attr \/ AttrsOK'
  PROVE  WalkInv'
<1>1. setting \in Settings /\ PartOf(tree, World) /\ AttrsOK /\ ProcsOK
  BY DEF WalkInv
<1>2. World' = World /\ AttrsOK'
  BY <1>1 DEF World, AttrsOK
<1>3. ProcsOK'
  <2>1. DOMAIN proc = Proc /\ \A x \in Proc : ProcOK(setting, Cmd(x), proc[x])
    BY <1>1 DEF ProcsOK
  <2>2. DOMAIN proc' = Proc /\ \A x \in Proc : proc'[x] = IF x = p THEN r ELSE proc[x]
    BY <2>1 DEF Set
  <2>3. \A x \in Proc : ProcOK(setting, Cmd(x), proc'[x])
    BY <2>1, <2>2
  <2> QED  BY <2>2, <2>3 DEF ProcsOK, Proc, Cmd
<1> QED  BY <1>1, <1>2, <1>3 DEF WalkInv

\* Records of processes, changed field by field.
LEMMA StackSet ==
  ASSUME NEW s, NEW c, NEW r, ProcOK(s, c, r), NEW k \in Seq(ActsOf(s, c))
  PROVE  ProcOK(s, c, [r EXCEPT !.stack = k])
  BY DEF ProcOK

LEMMA AtSet ==
  ASSUME NEW s, NEW c, NEW r, ProcOK(s, c, r), NEW x
  PROVE  ProcOK(s, c, [r EXCEPT !.at = x])
  BY DEF ProcOK

LEMMA RetSet ==
  ASSUME NEW s, NEW c, NEW r, ProcOK(s, c, r), NEW x
  PROVE  ProcOK(s, c, [r EXCEPT !.ret = x])
  BY DEF ProcOK

\* A call follows another of the same activation.
LEMMA GoOnKeeps ==
  ASSUME WalkInv, NEW p \in Proc, NEW act \in ActsOf(setting, Cmd(p)), GoOn(p, act), proc[p].stack # <<>>,
         setting' = setting, tree' = tree, attr' = attr \/ AttrsOK'
  PROVE  WalkInv'
<1> DEFINE k == Append(Front(proc[p].stack), act)
           r == [proc[p] EXCEPT !.stack = k]
<1>1. ProcOK(setting, Cmd(p), proc[p]) /\ k \in Seq(ActsOf(setting, Cmd(p)))
  BY ProcIs
<1>2. Set(p, r)
  BY DEF GoOn
<1> HIDE DEF k
<1>3. ProcOK(setting, Cmd(p), r)
  BY <1>1, StackSet
<1> HIDE DEF r
<1> QED  BY <1>2, <1>3, SetKeeps

\* An activation returns, and its callers go on or return, too.
LEMMA BackKeeps ==
  ASSUME WalkInv, NEW p \in Proc, NEW x, Back(p, x), proc[p].stack # <<>>,
         setting' = setting, tree' = tree, attr' = attr \/ AttrsOK'
  PROVE  WalkInv'
<1> DEFINE k == Below(proc[p].stack, x)
           r == [proc[p] EXCEPT !.ret = x, !.stack = Below(@, x)]
<1>1. ProcOK(setting, Cmd(p), proc[p]) /\ k \in Seq(ActsOf(setting, Cmd(p)))
  BY ProcIs DEF Below
<1>2. Set(p, r)
  BY DEF Back
<1>3. ProcOK(setting, Cmd(p), r)
  <2> DEFINE q == [proc[p] EXCEPT !.ret = x]
  <2>1. ProcOK(setting, Cmd(p), q)
    BY <1>1, RetSet
  <2>2. r = [q EXCEPT !.stack = k]
    BY <1>1 DEF ProcOK
  <2> HIDE DEF q, k, r
  <2> QED  BY <1>1, <2>1, <2>2, StackSet
<1> HIDE DEF r
<1> QED  BY <1>2, <1>3, SetKeeps

\* A call of ch() is made only by chmod and chown, and ls makes lstat alone.
LEMMA CallIs ==
  ASSUME WalkInv, NEW p \in Proc, NEW call, Busy(p, call)
  PROVE  /\ proc[p].stack # <<>> /\ Top(p) \in Acts /\ Top(p).at = call
         /\ Cmd(p).name \in {"chmod", "chown", "ls"}
         /\ Cmd(p).name # "ls" => ChActOK(setting, Cmd(p), Top(p))
         /\ Cmd(p).name = "ls" => call \in {"opendir", "readdir", "lstat"}
<1>1. proc[p].stack # <<>> /\ Top(p).at = call
  BY DEF Busy, Top
<1>2. Top(p) \in Acts /\ ActOK(setting, Cmd(p), Top(p))
  BY <1>1, ProcIs DEF ActsOf
<1> QED  BY <1>1, <1>2 DEF ActOK

\* Calls that fail.
LEMMA StatFailsKeeps == \A p \in Proc : WalkInv /\ StatFails(p) => WalkInv'
<1> SUFFICES ASSUME NEW p \in Proc, WalkInv, StatFails(p) PROVE WalkInv'
  OBVIOUS
<1>1. Back(p, 1) /\ proc[p].stack # <<>> /\ setting' = setting /\ tree' = tree /\ attr' = attr
  BY DEF StatFails, Fail, Busy, NoCall
<1> QED  BY <1>1, BackKeeps

LEMMA SetFailsKeeps == \A p \in Proc : WalkInv /\ SetFails(p) => WalkInv'
<1> SUFFICES ASSUME NEW p \in Proc, WalkInv, SetFails(p) PROVE WalkInv'
  OBVIOUS
<1>1. Back(p, 1) /\ proc[p].stack # <<>> /\ setting' = setting /\ tree' = tree /\ attr' = attr
  BY DEF SetFails, Fail, Busy, NoCall
<1> QED  BY <1>1, BackKeeps

LEMMA OpendirFailsKeeps == \A p \in Proc : WalkInv /\ OpendirFails(p) => WalkInv'
<1> SUFFICES ASSUME NEW p \in Proc, WalkInv, OpendirFails(p) PROVE WalkInv'
  OBVIOUS
<1>1. Back(p, 1) /\ proc[p].stack # <<>> /\ setting' = setting /\ tree' = tree /\ attr' = attr
  BY DEF OpendirFails, Fail, Busy, NoCall
<1> QED  BY <1>1, BackKeeps

\* A process exits.
LEMMA ExitKeeps == \A p \in Proc : WalkInv /\ Exit(p) => WalkInv'
<1> SUFFICES ASSUME NEW p \in Proc, WalkInv, Exit(p) PROVE WalkInv'
  OBVIOUS
<1> DEFINE status == IF Operands(p) = <<>> THEN 1 ELSE proc[p].ret
           r      == [proc[p] EXCEPT !.at = "exit", !.ret = IF Operands(p) = <<>> THEN 1 ELSE @]
<1>1. ProcOK(setting, Cmd(p), proc[p])
  BY ProcIs
<1>2. Set(p, r) /\ setting' = setting /\ tree' = tree /\ attr' = attr
  BY DEF Exit, NoCall
<1>3. ProcOK(setting, Cmd(p), r)
  <2> DEFINE q == [proc[p] EXCEPT !.at = "exit"]
  <2>1. ProcOK(setting, Cmd(p), q)
    BY <1>1, AtSet
  <2>2. r = [q EXCEPT !.ret = status]
    BY <1>1 DEF ProcOK
  <2> HIDE DEF q, status, r
  <2> QED  BY <2>1, <2>2, RetSet
<1> HIDE DEF r
<1> QED  BY <1>2, <1>3, SetKeeps

\* test has no activation, and changes nothing.
LEMMA EvaluateKeeps == \A p \in Proc : WalkInv /\ Evaluate(p) => WalkInv'
<1> SUFFICES ASSUME NEW p \in Proc, WalkInv, Evaluate(p) PROVE WalkInv'
  OBVIOUS
<1>1. ProcOK(setting, Cmd(p), proc[p])
  BY ProcIs
<1>2. setting' = setting /\ tree' = tree /\ attr' = attr /\ \E x : Set(p, [proc[p] EXCEPT !.at = "exit", !.ret = x])
  BY DEF Evaluate, NoCall
<1>3. PICK x : Set(p, [proc[p] EXCEPT !.at = "exit", !.ret = x])
  BY <1>2
<1> DEFINE r == [proc[p] EXCEPT !.at = "exit", !.ret = x]
<1>4. ProcOK(setting, Cmd(p), r)
  <2> DEFINE q == [proc[p] EXCEPT !.at = "exit"]
  <2>1. ProcOK(setting, Cmd(p), q)
    BY <1>1, AtSet
  <2>2. r = [q EXCEPT !.ret = x]
    BY <1>1 DEF ProcOK
  <2> HIDE DEF q, r
  <2> QED  BY <2>1, <2>2, RetSet
<1> HIDE DEF r
<1> QED  BY <1>2, <1>3, <1>4, SetKeeps DEF r

\* A new activation, and a new record of a process.
LEMMA CallOK ==
  ASSUME NEW call \in {"stat", "opendir"}, NEW path \in Path
  PROVE  Call(call, path) \in Acts /\ Call(call, path).at = call /\ Call(call, path).path = path
<1>1. "." \in EntryNames
  BY DEF EntryNames, Dots
<1> QED  BY <1>1 DEF Call, Acts

LEMMA ProcRecord ==
  ASSUME NEW s, NEW c, NEW x, NEW operand \in Nat, NEW stack \in Seq(ActsOf(s, c)), NEW y, NEW z, NEW o
  PROVE  ProcOK(s, c, [at |-> x, operand |-> operand, stack |-> stack, ret |-> y, entries |-> z, out |-> o])
  BY DEF ProcOK

\* The next operand: it is within reach.
LEMMA NextOperandKeeps == \A p \in Proc : WalkInv /\ NextOperand(p) => WalkInv'
<1> SUFFICES ASSUME NEW p \in Proc, WalkInv, NextOperand(p) PROVE WalkInv'
  OBVIOUS
<1> DEFINE n    == proc[p].operand
           path == Operands(p)[n + 1]
           call == Call(IF Is(p, "ls") THEN "opendir" ELSE "stat", path)
           k    == <<call>>
           o    == Append(proc[p].out, [path |-> path, header |-> Len(Operands(p)) > 1, entries |-> <<>>, rows |-> <<>>])
           r    == [proc[p] EXCEPT !.operand = @ + 1, !.stack = k, !.out = o]
<1>1. /\ ProcOK(setting, Cmd(p), proc[p]) /\ Command(Cmd(p)) /\ Cmd(p).args \in Seq(Path) /\ n \in Nat
      /\ setting \in Settings /\ World = Universe(setting)
  BY ProcIs
<1>2. Set(p, r) /\ setting' = setting /\ tree' = tree /\ attr' = attr /\ n < Len(Operands(p)) /\ ~Evaluates(p)
  BY DEF NextOperand, NoCall
<1>3. Cmd(p).name \in {"ls", "chmod", "chown"}
  BY <1>1, <1>2 DEF Command, Evaluates
<1>4. path \in Path /\ (~Is(p, "ls") => path \in ToSet(Cmd(p).args))
  <2> DEFINE q == Operands(p)
  <2>1. q \in Seq(Path) /\ (~Is(p, "ls") => q = Cmd(p).args)
    <3>1. <<>> \in Path /\ <<<<>>>> \in Seq(Path)
      BY DEF Path
    <3> QED  BY <1>1, <3>1 DEF Operands
  <2>2. n < Len(q)
    BY <1>2
  <2> HIDE DEF q, n
  <2>3. n + 1 \in 1..Len(q) /\ q[n + 1] \in Path /\ n + 1 \in DOMAIN q
    BY <1>1, <2>1, <2>2
  <2> QED  BY <2>1, <2>3 DEF ToSet, q
<1> HIDE DEF path, o
<1>5. call \in ActsOf(setting, Cmd(p))
  <2>1. CASE Is(p, "ls")
    <3>1. call \in Acts /\ call.at = "opendir"
      BY <1>4, <2>1, CallOK
    <3> QED  BY <2>1, <3>1 DEF ActsOf, ActOK, Is
  <2>2. CASE ~Is(p, "ls")
    <3>1. call \in Acts /\ call.at = "stat" /\ call.path = path
      BY <1>4, <2>2, CallOK
    <3>2. Within(Universe(setting), Cmd(p), path)
      BY <1>1, <1>4, <2>2, SettingIs, OperandWithin
    <3> HIDE DEF call
    <3>3. ChActOK(setting, Cmd(p), call)
      BY <3>1, <3>2 DEF ChActOK
    <3>4. Cmd(p).name \in {"chmod", "chown"}
      BY <1>3, <2>2 DEF Is
    <3> QED  BY <3>1, <3>3, <3>4 DEF ActsOf, ActOK
  <2> QED  BY <2>1, <2>2
<1> HIDE DEF call
<1>6. k \in Seq(ActsOf(setting, Cmd(p)))
  BY <1>5
<1> HIDE DEF k
<1>7. ProcOK(setting, Cmd(p), r)
  <2> DEFINE q == proc[p]
  <2>1. /\ q = [at |-> q.at, operand |-> q.operand, stack |-> q.stack, ret |-> q.ret, entries |-> q.entries, out |-> q.out]
        /\ q.operand + 1 \in Nat
    BY <1>1 DEF ProcOK
  <2>2. r = [q EXCEPT !.operand = q.operand + 1, !.stack = k, !.out = o]
    OBVIOUS
  <2> HIDE DEF q, r
  <2>3. r = [at |-> q.at, operand |-> q.operand + 1, stack |-> k, ret |-> q.ret, entries |-> q.entries, out |-> o]
    BY <2>1, <2>2
  <2> QED  BY <1>6, <2>1, <2>3, ProcRecord
<1> HIDE DEF r
<1> QED  BY <1>2, <1>7, SetKeeps

\* The steps after which there is no activation.
LEMMA NoStack ==
  ASSUME NEW s, NEW c, NEW r, ProcOK(s, c, r), NEW x, NEW y, NEW z
  PROVE  /\ ProcOK(s, c, [r EXCEPT !.at = x, !.stack = <<>>])
         /\ ProcOK(s, c, [r EXCEPT !.stack = <<>>, !.entries = y, !.out = z])
<1> DEFINE k == <<>>
           u == [r EXCEPT !.at = x, !.stack = k]
           v == [r EXCEPT !.stack = k, !.entries = y, !.out = z]
<1>1. k \in Seq(ActsOf(s, c))
  OBVIOUS
<1> HIDE DEF k
<1>2. /\ r = [at |-> r.at, operand |-> r.operand, stack |-> r.stack, ret |-> r.ret, entries |-> r.entries, out |-> r.out]
      /\ r.operand \in Nat
  BY DEF ProcOK
<1>3. u = [r EXCEPT !.at = x, !.stack = k] /\ v = [r EXCEPT !.stack = k, !.entries = y, !.out = z]
  OBVIOUS
<1> HIDE DEF u, v
<1>4. u = [at |-> x, operand |-> r.operand, stack |-> k, ret |-> r.ret, entries |-> r.entries, out |-> r.out]
  BY <1>2, <1>3
<1>7. v = [at |-> r.at, operand |-> r.operand, stack |-> k, ret |-> r.ret, entries |-> y, out |-> z]
  BY <1>2, <1>3
<1>5. ProcOK(s, c, u)
  BY <1>1, <1>2, <1>4, ProcRecord
<1>6. ProcOK(s, c, v)
  BY <1>1, <1>2, <1>7, ProcRecord
<1> QED  BY <1>5, <1>6 DEF k, u, v

\* At the end of a directory ch() is killed, and ls prints.
LEMMA ReaddirEndOfChKeeps == \A p \in Proc : WalkInv /\ ReaddirEndOfCh(p) => WalkInv'
<1> SUFFICES ASSUME NEW p \in Proc, WalkInv, ReaddirEndOfCh(p) PROVE WalkInv'
  OBVIOUS
<1> DEFINE r == [proc[p] EXCEPT !.at = "killed", !.stack = <<>>]
<1>1. Set(p, r) /\ setting' = setting /\ tree' = tree /\ attr' = attr
  BY DEF ReaddirEndOfCh, NoCall
<1>2. ProcOK(setting, Cmd(p), r)
  BY ProcIs, NoStack
<1> HIDE DEF r
<1> QED  BY <1>1, <1>2, SetKeeps

LEMMA ReaddirEndOfLsKeeps == \A p \in Proc : WalkInv /\ ReaddirEndOfLs(p) => WalkInv'
<1> SUFFICES ASSUME NEW p \in Proc, WalkInv, ReaddirEndOfLs(p) PROVE WalkInv'
  OBVIOUS
<1>1. /\ setting' = setting /\ tree' = tree /\ attr' = attr
      /\ \E z : Set(p, [proc[p] EXCEPT !.stack = <<>>, !.entries = <<>>, !.out = z])
  BY DEF ReaddirEndOfLs, NoCall
<1>2. PICK z : Set(p, [proc[p] EXCEPT !.stack = <<>>, !.entries = <<>>, !.out = z])
  BY <1>1
<1> DEFINE r == [proc[p] EXCEPT !.stack = <<>>, !.entries = <<>>, !.out = z]
<1>3. ProcOK(setting, Cmd(p), r)
  BY ProcIs, NoStack
<1> HIDE DEF r
<1> QED  BY <1>1, <1>2, <1>3, SetKeeps DEF r

\* ls goes on reading its directory.
LEMMA MkentKeeps == \A p \in Proc : WalkInv /\ mkent(p) => WalkInv'
<1> SUFFICES ASSUME NEW p \in Proc, WalkInv, mkent(p) PROVE WalkInv'
  OBVIOUS
<1> DEFINE a == Top(p)
           b == [a EXCEPT !.at = "readdir"]
           k == <<b>>
<1>1. /\ setting' = setting /\ tree' = tree /\ attr' = attr /\ Busy(p, "lstat")
      /\ \E e : Set(p, [proc[p] EXCEPT !.entries = Append(@, e), !.stack = k])
  BY DEF mkent, NoCall
<1>2. /\ a \in Acts /\ a.at = "lstat" /\ Cmd(p).name \in {"chmod", "chown", "ls"}
      /\ Cmd(p).name # "ls" => ChActOK(setting, Cmd(p), a)
  BY <1>1, CallIs
<1>3. Cmd(p).name = "ls"
  BY <1>2 DEF ChActOK
<1> HIDE DEF a
<1>4. b \in ActsOf(setting, Cmd(p))
  <2>1. b \in Acts /\ b.at = "readdir"
    BY <1>2 DEF Acts
  <2> HIDE DEF b
  <2> QED  BY <1>3, <2>1 DEF ActsOf, ActOK
<1> HIDE DEF b
<1>5. k \in Seq(ActsOf(setting, Cmd(p)))
  BY <1>4
<1> HIDE DEF k
<1>6. PICK e : Set(p, [proc[p] EXCEPT !.entries = Append(@, e), !.stack = k])
  BY <1>1
<1> DEFINE r == [proc[p] EXCEPT !.entries = Append(@, e), !.stack = k]
<1>7. ProcOK(setting, Cmd(p), r)
  <2> DEFINE q == proc[p]
             entries == Append(q.entries, e)
  <2>1. /\ q = [at |-> q.at, operand |-> q.operand, stack |-> q.stack, ret |-> q.ret, entries |-> q.entries, out |-> q.out]
        /\ q.operand \in Nat
    BY ProcIs DEF ProcOK
  <2>2. r = [q EXCEPT !.entries = entries, !.stack = k]
    OBVIOUS
  <2> HIDE DEF q, r, entries
  <2>3. r = [at |-> q.at, operand |-> q.operand, stack |-> k, ret |-> q.ret, entries |-> entries, out |-> q.out]
    BY <2>1, <2>2
  <2> QED  BY <1>5, <2>1, <2>3, ProcRecord
<1> HIDE DEF r
<1> QED  BY <1>1, <1>6, <1>7, SetKeeps DEF r

\* A stream is opened on the directory that is there, and in it are names.
LEMMA OpendirDoneKeeps == \A p \in Proc : WalkInv /\ OpendirDone(p) => WalkInv'
<1> SUFFICES ASSUME NEW p \in Proc, WalkInv, OpendirDone(p) PROVE WalkInv'
  OBVIOUS
<1> DEFINE a == Top(p)
           q == Follow(tree, a.path)
           m == Entries(tree, q) \cup Dots
           b == [a EXCEPT !.at = "readdir", !.dir = q, !.snap = m]
           w == Universe(setting)
           c == Cmd(p)
<1>1. setting' = setting /\ tree' = tree /\ attr' = attr /\ Busy(p, "opendir") /\ IsDir(tree, q) /\ GoOn(p, b)
  BY DEF OpendirDone, NoCall
<1>2. /\ proc[p].stack # <<>> /\ a \in Acts /\ a.at = "opendir" /\ c.name \in {"chmod", "chown", "ls"}
      /\ c.name # "ls" => ChActOK(setting, c, a)
  BY <1>1, CallIs
<1>3. PartOf(tree, w) /\ Grown(w)
  BY ProcIs
<1> HIDE DEF a, w, c
<1>4. a.path \in Path
  BY <1>2 DEF Acts
<1>5. q = Follow(w, a.path) /\ IsDir(w, q) /\ q \in Path
  <2>1. Exists(tree, q)
    BY <1>1 DEF IsDir
  <2>2. q = Follow(w, a.path)
    BY <1>3, <1>4, <2>1, PartFollows
  <2> HIDE DEF q
  <2>3. IsDir(w, q)
    BY <1>1, <1>3, <2>1, PartHas
  <2> QED  BY <1>3, <2>2, <2>3 DEF Grown, IsDir, Exists
<1>6. m \subseteq Entries(w, q) \cup Dots /\ m \in SUBSET EntryNames
  BY <1>3 DEF Entries, PartOf, Exists, EntryNames
<1> HIDE DEF q, m
<1>7. b \in Acts /\ b.at = "readdir" /\ b.dir = q /\ b.snap = m /\ b.path = a.path
  BY <1>2, <1>5, <1>6 DEF Acts
<1> HIDE DEF b
<1>8. b \in ActsOf(setting, c)
  <2>1. CASE c.name = "ls"
    BY <1>7, <2>1 DEF ActsOf, ActOK
  <2>2. CASE c.name # "ls"
    <3>1. Streamed(w, b)
      BY <1>5, <1>6, <1>7 DEF Streamed
    <3>2. ChActOK(setting, c, b)
      BY <1>2, <1>7, <2>2, <3>1 DEF ChActOK, w
    <3> QED  BY <1>2, <1>7, <2>2, <3>2 DEF ActsOf, ActOK
  <2> QED  BY <2>1, <2>2
<1> QED  BY <1>1, <1>2, <1>8, GoOnKeeps DEF c

\* A user, by name or by number.
LEMMA UidIs ==
  ASSUME NEW str \in Text
  PROVE  str2uid(str) \in Int
<1>1. str.number \in Int /\ (\A n \in DOMAIN Users : Users[n] \in Int)
  BY WalkAssumption DEF Text
<1> QED  BY <1>1 DEF str2uid

\* The bit that tells a directory is none of those that chmod changes.
LEMMA TypeBit == S_IFDIR \notin Bits
<1>1. \A b \in Bits : b[1] \in Classes
  BY DEF Bits, Sticky, Classes
<1>2. S_IFDIR[1] \notin Classes
  BY DEF S_IFDIR, Classes
<1> QED  BY <1>1, <1>2

\* What stat tells of a file fits.
LEMMA StModeFits ==
  ASSUME WalkInv, NEW q \in DOMAIN World
  PROVE  /\ AttrOK(setting, q, attr[q]) /\ StModeOf(q) \in FitModes(setting, q)
         /\ (S_IFDIR \in StModeOf(q) <=> IsDir(tree, q))
<1>1. AttrOK(setting, q, attr[q])
  BY DEF WalkInv, AttrsOK
<1>2. attr[q].mode \in SUBSET Bits /\ ModeFits(setting, q, attr[q].mode)
  BY <1>1 DEF AttrOK
<1>3. StModeOf(q) \cap Bits = attr[q].mode /\ StModeOf(q) \in SUBSET (Bits \cup {S_IFDIR})
  BY <1>2, TypeBit DEF StModeOf
<1>4. S_IFDIR \in StModeOf(q) <=> IsDir(tree, q)
  BY <1>2, TypeBit DEF StModeOf
<1> QED  BY <1>1, <1>2, <1>3, <1>4 DEF FitModes

\* A group that chown found fits what its path leads to.
LEMMA FoundFits ==
  ASSUME WalkInv, NEW p \in Proc, Cmd(p).name = "chown", NEW path \in Path, Within(World, Cmd(p), path),
         NoFollow(World, path) \in DOMAIN World, Follow(World, path) \in DOMAIN World
  PROVE  /\ GidFits(setting, Follow(World, path), attr[NoFollow(World, path)].gid)
         /\ "chgrp" \in Cmd(p).flags => GidFits(setting, Follow(World, path), str2uid(Cmd(p).group))
<1> DEFINE w == World
           l == NoFollow(w, path)
           q == Follow(w, path)
<1>1. setting \in Settings /\ w = Universe(setting) /\ LinksLead(w)
  BY ProcIs DEF Grown
<1>2. p \in Runs(setting, "chown", q)
  BY <1>1 DEF Runs, Within, Proc, Cmd
<1>3. q = IF IsLink(w, l) THEN w[l].to ELSE l
  <2> HIDE DEF w
  <2>1. CASE path = <<>>
    <3>1. q = <<>> /\ l = <<>>
      BY <1>1, <2>1, FollowIs
    <3>2. ~IsLink(w, <<>>)
      BY ProcIs DEF Grown, IsDir, IsLink, w
    <3> QED  BY <3>1, <3>2
  <2>2. CASE path # <<>>
    BY <1>1, <2>2, FollowIs
  <2> QED  BY <2>1, <2>2
<1>4. AttrOK(setting, l, attr[l])
  BY StModeFits
<1>5. CASE IsLink(w, l)
  <2>1. l \in LinksOf(w) /\ w[l].to = q /\ attr[l] = setting.attr[l]
    BY <1>1, <1>3, <1>4, <1>5 DEF LinksOf, AttrOK
  <2> QED  BY <1>1, <1>2, <2>1 DEF GidFits, Cmd
<1>6. CASE ~IsLink(w, l)
  <2>1. l = q
    BY <1>3, <1>6
  <2> QED  BY <1>2, <1>4, <2>1 DEF AttrOK, GidFits, Cmd
<1> QED  BY <1>5, <1>6

\* What stat tells fits, and so does what chmod makes of it, whatever other processes
\* have made of the file since it was named.
LEMMA StatDoneKeeps == \A p \in Proc : WalkInv /\ StatDone(p) => WalkInv'
<1> SUFFICES ASSUME NEW p \in Proc, WalkInv, StatDone(p) PROVE WalkInv'
  OBVIOUS
<1> DEFINE a == Top(p)
           w == Universe(setting)
           c == Cmd(p)
           l == Looked(p)
           st == IF Is(p, "chmod") THEN NewMode(Cmd(p).mode, StModeOf(Looked(p))) ELSE StModeOf(Looked(p))
           gr == IF Given(p, "chgrp") THEN str2uid(Cmd(p).group) ELSE attr[Looked(p)].gid
           b == [a EXCEPT !.at = "set", !.st_mode = st, !.group = gr]
           spin == [proc[p] EXCEPT !.at = "spins", !.stack = <<>>]
<1>1. /\ setting' = setting /\ tree' = tree /\ attr' = attr /\ Busy(p, "stat") /\ Exists(tree, l)
      /\ Set(p, spin) \/ GoOn(p, b)
  BY DEF StatDone, NoCall
<1>2. /\ proc[p].stack # <<>> /\ a \in Acts /\ a.at = "stat" /\ c.name \in {"chmod", "chown"}
      /\ ChActOK(setting, c, a)
  BY <1>1, CallIs
<1>3. PartOf(tree, w) /\ Grown(w) /\ setting \in Settings /\ Command(c) /\ World = w
  BY ProcIs
<1>4. CASE Set(p, spin)
  <2>1. ProcOK(setting, Cmd(p), spin)
    BY ProcIs, NoStack
  <2> HIDE DEF spin
  <2> QED  BY <1>1, <1>4, <2>1, SetKeeps
<1>5. CASE GoOn(p, b)
  <2>1. a.path \in Path /\ Within(w, c, a.path)
    BY <1>2 DEF Acts, ChActOK
  <2>2. l = (IF c.name = "chmod" THEN Follow(tree, a.path) ELSE NoFollow(tree, a.path))
    BY DEF Looked, Is
  <2> HIDE DEF l
  <2>3. l = (IF c.name = "chmod" THEN Follow(w, a.path) ELSE NoFollow(w, a.path)) /\ l \in DOMAIN w
    <3>1. l \in DOMAIN w
      BY <1>1, <1>3 DEF Exists, PartOf
    <3> HIDE DEF a, w, c
    <3> QED  BY <1>1, <1>3, <2>1, <2>2, <3>1, PartFollows
  <2>4. AttrOK(setting, l, attr[l]) /\ StModeOf(l) \in FitModes(setting, l) /\ (S_IFDIR \in StModeOf(l) <=> IsDir(tree, l))
    BY <1>3, <2>3, StModeFits
  <2>5. StModeOf(l) \in SUBSET (Bits \cup {S_IFDIR}) /\ attr[l].gid \in Int
    BY <2>4 DEF FitModes, AttrOK
  <2>6. c.name = "chmod" => st \in FitModes(setting, l)
    <3> SUFFICES ASSUME c.name = "chmod" PROVE st \in FitModes(setting, l)
      OBVIOUS
    <3>1. st = NewMode(c.mode, StModeOf(l))
      BY DEF Is, l
    <3>2. l \in ReachOf(w, c)
      BY <2>1, <2>3 DEF Within
    <3>3. Setting(setting) /\ c = setting.cmds[p] /\ p \in DOMAIN setting.cmds
      BY <1>3, SettingIs DEF Cmd, Proc
    <3> DEFINE x == StModeOf(l)
    <3> HIDE DEF st, x, c, w
    <3>4. NewMode(setting.cmds[p].mode, x) \in FitModes(setting, l)
      BY <2>3, <2>4, <3>2, <3>3, NewModeFits DEF x, w
    <3> QED  BY <3>1, <3>3, <3>4 DEF x
  <2>7. st \in SUBSET (Bits \cup {S_IFDIR})
    <3>1. st = IF c.name = "chmod" THEN st ELSE StModeOf(l)
      BY DEF Is, l
    <3> HIDE DEF st
    <3> QED  BY <2>5, <2>6, <3>1 DEF FitModes
  <2>8. gr = IF "chgrp" \in c.flags THEN str2uid(c.group) ELSE attr[l].gid
    BY DEF Given, l
  <2>9. gr \in Int
    <3>1. str2uid(c.group) \in Int
      BY <1>3, UidIs DEF Command
    <3> HIDE DEF gr
    <3> QED  BY <2>5, <2>8, <3>1
  <2>10. c.name = "chown" => st = StModeOf(l)
    BY DEF Is, l
  <2> HIDE DEF st, gr
  <2>11. b \in Acts /\ b.at = "set" /\ b.path = a.path /\ b.st_mode = st /\ b.group = gr
    <3> HIDE DEF a
    <3> QED  BY <1>2, <2>7, <2>9 DEF Acts
  <2> HIDE DEF b
  <2>12. Told(setting, c, b)
    <3> DEFINE q == Follow(w, b.path)
    <3>1. c.name = "chmod" /\ q \in DOMAIN w => b.st_mode \in FitModes(setting, q)
      BY <2>3, <2>6, <2>11
    <3>2. c.name = "chown" /\ q \in DOMAIN w => GidFits(setting, q, b.group)
      <4> SUFFICES ASSUME c.name = "chown", q \in DOMAIN w PROVE GidFits(setting, q, b.group)
        OBVIOUS
      <4>1. l = NoFollow(w, a.path) /\ q = Follow(w, a.path)
        BY <2>3, <2>11
      <4> DEFINE path == a.path
      <4>2. path \in Path /\ Within(World, Cmd(p), path) /\ l = NoFollow(World, path) /\ q = Follow(World, path)
            /\ Cmd(p).name = "chown" /\ l \in DOMAIN World /\ q \in DOMAIN World
        BY <1>3, <2>1, <2>3, <4>1
      <4> HIDE DEF path, q, w, c
      <4>3. GidFits(setting, q, attr[l].gid) /\ ("chgrp" \in Cmd(p).flags => GidFits(setting, q, str2uid(Cmd(p).group)))
        BY <4>2, FoundFits
      <4> QED  BY <2>8, <2>11, <4>3 DEF c
    <3>3. c.name = "chown" /\ S_IFDIR \in b.st_mode => IsDir(w, NoFollow(w, b.path))
      <4> SUFFICES ASSUME c.name = "chown", S_IFDIR \in b.st_mode PROVE IsDir(w, NoFollow(w, b.path))
        OBVIOUS
      <4>1. IsDir(tree, l) /\ l = NoFollow(w, b.path)
        BY <2>3, <2>4, <2>10, <2>11
      <4> HIDE DEF w
      <4> QED  BY <1>1, <1>3, <4>1, PartHas
    <3> QED  BY <3>1, <3>2, <3>3 DEF Told
  <2>13. ChActOK(setting, c, b)
    BY <2>1, <2>11, <2>12 DEF ChActOK
  <2>14. b \in ActsOf(setting, c)
    BY <1>2, <2>11, <2>13 DEF ActsOf, ActOK
  <2> QED  BY <1>1, <1>2, <1>5, <2>14, GoOnKeeps
<1> QED  BY <1>1, <1>4, <1>5

\* What chmod(2) and chown(2) make of the attributes of a file.
LEMMA NewAttr ==
  ASSUME NEW s, NEW q, NEW a, AttrOK(s, q, a), a \in [mode : SUBSET Bits, uid : Int, gid : Int, size : Nat, mtime : Nat, ctime : Nat, atime : Nat],
         ~IsLink(Universe(s), q)
  PROVE  /\ \A m \in SUBSET Bits : ModeFits(s, q, m) => AttrOK(s, q, [a EXCEPT !.mode = m])
         /\ \A m \in SUBSET Bits, u \in Int, g \in Int :
              ModeFits(s, q, m) /\ UidFits(s, q, u) /\ GidFits(s, q, g) => AttrOK(s, q, [a EXCEPT !.mode = m, !.uid = u, !.gid = g])
<1>1. /\ a.mode \in SUBSET Bits /\ a.uid \in Int /\ a.gid \in Int
      /\ ModeFits(s, q, a.mode) /\ UidFits(s, q, a.uid) /\ GidFits(s, q, a.gid)
      /\ a = [s.attr[q] EXCEPT !.mode = a.mode, !.uid = a.uid, !.gid = a.gid]
  BY DEF AttrOK
<1> DEFINE o == s.attr[q]
<1> HIDE DEF o
<1>2. a = [o EXCEPT !.mode = a.mode, !.uid = a.uid, !.gid = a.gid]
  BY <1>1 DEF o
<1>3. ASSUME NEW m \in SUBSET Bits, ModeFits(s, q, m) PROVE AttrOK(s, q, [a EXCEPT !.mode = m])
  <2> DEFINE b == [a EXCEPT !.mode = m]
  <2>1. b.mode = m /\ b.uid = a.uid /\ b.gid = a.gid
    OBVIOUS
  <2>2. b = [o EXCEPT !.mode = m, !.uid = a.uid, !.gid = a.gid]
    BY <1>2
  <2> HIDE DEF b
  <2>3. b = [s.attr[q] EXCEPT !.mode = b.mode, !.uid = b.uid, !.gid = b.gid]
    BY <2>1, <2>2 DEF o
  <2>4. AttrOK(s, q, b)
    BY <1>1, <1>3, <2>1, <2>3 DEF AttrOK
  <2> QED  BY <2>4 DEF b
<1>4. ASSUME NEW m \in SUBSET Bits, NEW u \in Int, NEW g \in Int, ModeFits(s, q, m), UidFits(s, q, u), GidFits(s, q, g)
      PROVE  AttrOK(s, q, [a EXCEPT !.mode = m, !.uid = u, !.gid = g])
  <2> DEFINE b == [a EXCEPT !.mode = m, !.uid = u, !.gid = g]
  <2>1. b.mode = m /\ b.uid = u /\ b.gid = g
    OBVIOUS
  <2>2. b = [o EXCEPT !.mode = m, !.uid = u, !.gid = g]
    BY <1>2
  <2> HIDE DEF b
  <2>3. b = [s.attr[q] EXCEPT !.mode = b.mode, !.uid = b.uid, !.gid = b.gid]
    BY <2>1, <2>2 DEF o
  <2>4. AttrOK(s, q, b)
    BY <1>1, <1>4, <2>1, <2>3 DEF AttrOK
  <2> QED  BY <2>4 DEF b
<1> QED  BY <1>3, <1>4

\* The attributes, of a file, are a record.
LEMMA AttrIs ==
  ASSUME NEW s \in Settings, NEW q \in DOMAIN Universe(s), NEW a, AttrOK(s, q, a)
  PROVE  a \in [mode : SUBSET Bits, uid : Int, gid : Int, size : Nat, mtime : Nat, ctime : Nat, atime : Nat]
<1>1. s.attr[q] \in Attribute
  BY SettingIs
<1> DEFINE o == s.attr[q]
<1>2. a = [o EXCEPT !.mode = a.mode, !.uid = a.uid, !.gid = a.gid] /\ a.mode \in SUBSET Bits /\ a.uid \in Int /\ a.gid \in Int
  BY DEF AttrOK
<1>3. o \in [mode : SUBSET Bits, uid : Nat, gid : Nat, size : Nat, mtime : Nat, ctime : Nat, atime : Nat]
  BY <1>1 DEF Attribute
<1> HIDE DEF o
<1>4. o.size \in Nat /\ o.mtime \in Nat /\ o.ctime \in Nat /\ o.atime \in Nat
  BY <1>3
<1>5. a = [mode |-> a.mode, uid |-> a.uid, gid |-> a.gid, size |-> o.size, mtime |-> o.mtime, ctime |-> o.ctime, atime |-> o.atime]
  BY <1>2, <1>3
<1> QED  BY <1>2, <1>4, <1>5

\* chmod(2) and chown(2) give a file attributes that fit.
LEMMA ChangedFits ==
  ASSUME WalkInv, NEW p \in Proc, Busy(p, "set"), Exists(tree, Follow(tree, Top(p).path))
  PROVE  AttrOK(setting, Follow(tree, Top(p).path), Changed(p, Follow(tree, Top(p).path), attr[Follow(tree, Top(p).path)]))
<1> DEFINE a == Top(p)
           w == Universe(setting)
           c == Cmd(p)
           q == Follow(tree, a.path)
           x == attr[q]
<1>1. a \in Acts /\ a.at = "set" /\ c.name \in {"chmod", "chown"} /\ ChActOK(setting, c, a)
  BY CallIs
<1>2. PartOf(tree, w) /\ Grown(w) /\ setting \in Settings /\ Command(c) /\ World = w
  BY ProcIs
<1>3. Within(w, c, a.path) /\ Told(setting, c, a) /\ a.path \in Path
  BY <1>1 DEF ChActOK, Acts
<1> HIDE DEF a, w, c
<1>4. q = Follow(w, a.path) /\ q \in DOMAIN w
  <2>1. q \in DOMAIN w
    BY <1>2 DEF Exists, PartOf, a
  <2> QED  BY <1>2, <1>3, <2>1, PartFollows DEF a
<1>5. ~IsLink(w, q)
  BY <1>2, <1>3, <1>4, EndIsNoLink DEF w
<1>6. q \in ReachOf(w, c)
  BY <1>3, <1>4 DEF Within
<1>7. AttrOK(setting, q, x)
  BY <1>2, <1>4, StModeFits
<1>8. c.name = "chmod" => a.st_mode \in FitModes(setting, q)
  BY <1>3, <1>4 DEF Told, w
<1>9. c.name = "chown" => GidFits(setting, q, a.group)
  BY <1>3, <1>4 DEF Told, w
<1> DEFINE new == Changed(p, q, x)
           m == IF IsDir(tree, q) THEN x.mode ELSE x.mode \ Lost(x.mode)
           owner == str2uid(c.owner)
           u == IF owner = -1 THEN x.uid ELSE owner
           g == IF a.group = -1 THEN x.gid ELSE a.group
<1>10. new = IF c.name = "chmod" THEN [x EXCEPT !.mode = a.st_mode \cap Bits] ELSE [x EXCEPT !.mode = m, !.uid = u, !.gid = g]
  BY DEF Changed, Is, a, c
<1>14. IsDir(tree, q) <=> IsDir(w, q)
  BY <1>2, PartHas DEF q, a
<1> HIDE DEF q, x
<1>11. x \in [mode : SUBSET Bits, uid : Int, gid : Int, size : Nat, mtime : Nat, ctime : Nat, atime : Nat]
  BY <1>2, <1>4, <1>7, AttrIs DEF w
<1> HIDE DEF new
<1>12. CASE c.name = "chmod"
  <2> DEFINE n == a.st_mode \cap Bits
  <2>1. n \in SUBSET Bits /\ ModeFits(setting, q, n)
    BY <1>8, <1>12 DEF FitModes
  <2>2. new = [x EXCEPT !.mode = n]
    BY <1>10, <1>12
  <2> HIDE DEF n
  <2>3. AttrOK(setting, q, new)
    BY <1>5, <1>7, <1>11, <2>1, <2>2, NewAttr DEF w
  <2> QED  BY <2>3 DEF new, x, q, a
<1>13. CASE c.name = "chown"
  <2>1. owner \in Int /\ a.group \in Int /\ x.uid \in Int /\ x.gid \in Int
    BY <1>1, <1>2, <1>11, UidIs DEF Acts, Command
  <2>2. p \in Runs(setting, "chown", q)
    BY <1>6, <1>13 DEF Runs, Proc, Cmd, c, w
  <2>3. UidFits(setting, q, x.uid) /\ GidFits(setting, q, x.gid)
    BY <1>7 DEF AttrOK
  <2>4. UidFits(setting, q, owner)
    BY <2>2 DEF UidFits, c, Cmd
  <2> HIDE DEF owner
  <2>5. u \in Int /\ g \in Int /\ UidFits(setting, q, u) /\ GidFits(setting, q, g)
    BY <1>9, <1>13, <2>1, <2>3, <2>4
  <2>6. new = [x EXCEPT !.mode = m, !.uid = u, !.gid = g]
    BY <1>10, <1>13
  <2> HIDE DEF u, g
  <2>7. m \in SUBSET Bits /\ ModeFits(setting, q, m)
    <3> DEFINE old == setting.attr[q].mode
    <3>1. x.mode \in SUBSET Bits /\ ModeFits(setting, q, x.mode)
      BY <1>7 DEF AttrOK
    <3>2. \A b \in x.mode \ m : MayLose(setting, q, b)
      <4> SUFFICES ASSUME NEW b \in x.mode \ m PROVE MayLose(setting, q, b)
        OBVIOUS
      <4>1. ~IsDir(w, q) /\ b \in Lost(x.mode)
        BY <1>14
      <4>2. Runs(setting, "chown", q) # {}
        BY <2>2
      <4>3. CASE b = SetUserId
        BY <4>1, <4>2, <4>3 DEF MayLose, w
      <4>4. CASE b = SetGroupId /\ GroupRuns \in x.mode
        <5>1. GroupRuns \in old \/ MaySet(setting, q, GroupRuns)
          BY <3>1, <4>4 DEF ModeFits
        <5> QED  BY <4>1, <4>2, <4>4, <5>1 DEF MayLose, w
      <4> QED  BY <4>1, <4>3, <4>4 DEF Lost
    <3>3. m \subseteq x.mode
      OBVIOUS
    <3> HIDE DEF m
    <3>4. \A b \in m \ old : MaySet(setting, q, b)
      BY <3>1, <3>3 DEF ModeFits
    <3>5. \A b \in old \ m : MayClear(setting, q, b)
      BY <3>1, <3>2 DEF ModeFits, MayClear
    <3> QED  BY <3>1, <3>3, <3>4, <3>5 DEF ModeFits
  <2> HIDE DEF m
  <2>8. AttrOK(setting, q, new)
    BY <1>5, <1>7, <1>11, <2>5, <2>6, <2>7, NewAttr DEF w
  <2> QED  BY <2>8 DEF new, x, q, a
<1> QED  BY <1>1, <1>12, <1>13

\* What is set fits, even if it was told of the file some time ago: whether attributes fit
\* does not depend on what they are now.
LEMMA SetDoneKeeps == \A p \in Proc : WalkInv /\ SetDone(p) => WalkInv'
<1> SUFFICES ASSUME NEW p \in Proc, WalkInv, SetDone(p) PROVE WalkInv'
  OBVIOUS
<1> DEFINE a == Top(p)
           w == Universe(setting)
           c == Cmd(p)
           q == Follow(tree, a.path)
           new == Changed(p, q, attr[q])
           b == [a EXCEPT !.at = "opendir"]
<1>1. /\ setting' = setting /\ tree' = tree /\ Busy(p, "set") /\ Exists(tree, q)
      /\ attr' = [attr EXCEPT ![q] = new]
      /\ \/ S_IFDIR \in a.st_mode /\ "recursive" \in c.flags /\ GoOn(p, b)
         \/ Return(p)
  BY DEF SetDone, Given
<1>2. /\ proc[p].stack # <<>> /\ a \in Acts /\ a.at = "set" /\ c.name \in {"chmod", "chown"}
      /\ ChActOK(setting, c, a)
  BY <1>1, CallIs
<1>3. PartOf(tree, w) /\ World = w /\ AttrsOK
  BY ProcIs DEF WalkInv
<1>4. AttrOK(setting, q, new)
  BY <1>1, ChangedFits
<1> HIDE DEF new, q
<1>5. AttrsOK'
  <2>1. World' = World
    BY <1>1 DEF World
  <2>2. /\ DOMAIN attr' = DOMAIN World /\ attr' = [r \in DOMAIN attr' |-> attr'[r]]
        /\ \A r \in DOMAIN World : attr'[r] = IF r = q THEN new ELSE attr[r]
    BY <1>1, <1>3 DEF AttrsOK
  <2>3. \A r \in DOMAIN World : AttrOK(setting, r, attr'[r])
    BY <1>3, <1>4, <2>2 DEF AttrsOK
  <2> QED  BY <1>1, <2>1, <2>2, <2>3 DEF AttrsOK
<1>6. CASE Return(p)
  BY <1>1, <1>2, <1>5, <1>6, BackKeeps DEF Return
<1>7. CASE S_IFDIR \in a.st_mode /\ "recursive" \in c.flags /\ GoOn(p, b)
  <2> HIDE DEF a, c
  <2>1. b \in Acts /\ b.at = "opendir" /\ b.path = a.path
    BY <1>2 DEF Acts
  <2> HIDE DEF b
  <2>2. c.name = "chown" => IsDir(Universe(setting), NoFollow(Universe(setting), b.path))
    BY <1>2, <1>7, <2>1 DEF ChActOK, Told
  <2>3. ChActOK(setting, c, b)
    BY <1>2, <1>7, <2>1, <2>2 DEF ChActOK
  <2>4. b \in ActsOf(setting, c)
    BY <1>2, <2>1, <2>3 DEF ActsOf, ActOK
  <2> QED  BY <1>1, <1>2, <1>5, <1>7, <2>4, GoOnKeeps DEF c
<1> QED  BY <1>1, <1>6, <1>7

\* What a stream gives a name of is there, or is one of the dots.
LEMMA ReadableIs ==
  ASSUME NEW t, NEW w, PartOf(t, w), NEW a \in Acts, Streamed(w, a), NEW n \in Readable(t, a.dir, a)
  PROVE  n \in Entries(w, a.dir) \cup Dots
<1>1. Entries(t, a.dir) \subseteq Entries(w, a.dir)
  BY DEF Entries, PartOf, Exists
<1>2. a.snap \subseteq Entries(w, a.dir) \cup Dots
  BY DEF Streamed
<1> QED  BY <1>1, <1>2 DEF Readable

LEMMA NameRead ==
  ASSUME NEW t, NEW a \in Acts, NEW n \in Readable(t, a.dir, a)
  PROVE  n \in EntryNames
  BY DEF Readable, Entries, EntryNames, Acts

\* ch() has read one more name.
LEMMA SeenKeeps ==
  ASSUME NEW s, NEW c, NEW a \in ActsOf(s, c), NEW n \in EntryNames
  PROVE  [a EXCEPT !.seen = @ \cup {n}] \in ActsOf(s, c)
<1> DEFINE b == [a EXCEPT !.seen = @ \cup {n}]
<1>1. a \in Acts /\ ActOK(s, c, a)
  BY DEF ActsOf
<1>2. b \in Acts /\ b.at = a.at /\ b.path = a.path /\ b.st_mode = a.st_mode /\ b.group = a.group /\ b.dir = a.dir /\ b.snap = a.snap
  BY <1>1 DEF Acts
<1> HIDE DEF b
<1>3. ActOK(s, c, b)
  BY <1>1, <1>2 DEF ActOK, ChActOK, Told, Streamed
<1>4. b \in ActsOf(s, c)
  BY <1>2, <1>3 DEF ActsOf
<1> QED  BY <1>4 DEF b

\* An entry: ch() is called for its path, which is within reach.
LEMMA ReaddirKeeps == \A p \in Proc : WalkInv /\ Readdir(p) => WalkInv'
<1> SUFFICES ASSUME NEW p \in Proc, WalkInv, Readdir(p) PROVE WalkInv'
  OBVIOUS
<1> DEFINE a == Top(p)
           w == Universe(setting)
           c == Cmd(p)
<1>1. /\ setting' = setting /\ tree' = tree /\ attr' = attr /\ Busy(p, "readdir")
  BY DEF Readdir, NoCall
<1> PICK n \in Readable(tree, Top(p).dir, Top(p)) :
       LET read == [Top(p) EXCEPT !.seen = @ \cup {n}]
       IN  CASE (IF Is(p, "ls") THEN Hidden(p, n) ELSE n \in Ignored) -> GoOn(p, read)
             [] Is(p, "ls") /\ ~Hidden(p, n) -> GoOn(p, [read EXCEPT !.at = "lstat", !.name = n])
             [] OTHER -> Set(p, [proc[p] EXCEPT !.stack = Append(Append(Front(@), read),
                                                                 Call("stat", FullPath(Top(p).path, n)))])
  BY DEF Readdir
<1> DEFINE read == [a EXCEPT !.seen = @ \cup {n}]
           look == [read EXCEPT !.at = "lstat", !.name = n]
           path == FullPath(a.path, n)
           call == Call("stat", path)
           k == Append(Append(Front(proc[p].stack), read), call)
           r == [proc[p] EXCEPT !.stack = Append(Append(Front(@), read), Call("stat", FullPath(a.path, n)))]
<1>2. \/ GoOn(p, read)
      \/ c.name = "ls" /\ GoOn(p, look)
      \/ c.name # "ls" /\ n \notin Dots /\ Set(p, r)
  BY DEF Is, Ignored
<1>3. /\ proc[p].stack # <<>> /\ a \in Acts /\ a.at = "readdir" /\ c.name \in {"chmod", "chown", "ls"}
      /\ c.name # "ls" => ChActOK(setting, c, a)
  BY <1>1, CallIs
<1>4. /\ PartOf(tree, w) /\ Grown(w) /\ World = w /\ setting \in Settings /\ a \in ActsOf(setting, c)
      /\ c.args \in Seq(Path) /\ Front(proc[p].stack) \in Seq(ActsOf(setting, c)) /\ ProcOK(setting, c, proc[p])
  BY <1>3, ProcIs
<1>5. n \in EntryNames
  BY <1>3, NameRead
<1>6. read \in ActsOf(setting, c)
  BY <1>4, <1>5, SeenKeeps
<1>7. CASE GoOn(p, read)
  <2> HIDE DEF read
  <2> QED  BY <1>1, <1>3, <1>6, <1>7, GoOnKeeps
<1>8. CASE c.name = "ls" /\ GoOn(p, look)
  <2> HIDE DEF read, c
  <2>1. read \in Acts
    BY <1>6 DEF ActsOf
  <2>2. look \in Acts /\ look.at = "lstat"
    BY <1>5, <2>1 DEF Acts
  <2> HIDE DEF look
  <2>3. look \in ActsOf(setting, c)
    BY <1>8, <2>2 DEF ActsOf, ActOK
  <2> QED  BY <1>1, <1>3, <1>8, <2>3, GoOnKeeps DEF c
<1>9. CASE c.name # "ls" /\ n \notin Dots /\ Set(p, r)
  <2> HIDE DEF a, c, w
  <2>1. ChActOK(setting, c, a) /\ a.path \in Path
    BY <1>3, <1>9 DEF Acts
  <2>2. "recursive" \in c.flags /\ Within(w, c, a.path) /\ (c.name = "chown" => IsDir(w, NoFollow(w, a.path))) /\ Streamed(w, a)
    BY <1>3, <2>1 DEF ChActOK, w
  <2>3. n \in Name /\ Append(a.dir, n) \in DOMAIN w /\ a.dir = Follow(w, a.path) /\ a.dir \in DOMAIN w
    <3>1. n \in Entries(w, a.dir)
      BY <1>3, <1>4, <1>9, <2>2, ReadableIs DEF a
    <3> QED  BY <2>2, <3>1 DEF Entries, Exists, Streamed, IsDir
  <2>4. path = Append(a.path, n)
    BY <1>9 DEF FullPath, Dots
  <2>5. c.name # "chmod" => NoFollow(w, a.path) = Follow(w, a.path)
    <3> SUFFICES ASSUME c.name # "chmod" PROVE NoFollow(w, a.path) = Follow(w, a.path)
      OBVIOUS
    <3>1. IsDir(w, NoFollow(w, a.path))
      BY <1>3, <1>9, <2>2
    <3>2. ~IsLink(w, NoFollow(w, a.path))
      BY <3>1 DEF IsDir, IsLink
    <3>3. a.path = <<>> => NoFollow(w, a.path) = <<>>
      BY DEF NoFollow
    <3> QED  BY <1>4, <2>1, <3>2, <3>3, FollowIs DEF Grown
  <2>6. IsFiniteSet(DOMAIN w)
    BY <1>4, SettingIs DEF w
  <2>7. path \in Path /\ Within(w, c, path)
    <3> DEFINE h == a.path
    <3>1. h \in Path /\ Within(w, c, h) /\ Follow(w, h) \in DOMAIN w /\ Append(Follow(w, h), n) \in DOMAIN w
          /\ (c.name # "chmod" => NoFollow(w, h) = Follow(w, h)) /\ path = Append(h, n)
      BY <2>1, <2>2, <2>3, <2>4, <2>5
    <3> HIDE DEF h, path
    <3> QED  BY <1>4, <2>2, <2>3, <2>6, <3>1, EntryWithin
  <2> HIDE DEF path
  <2>8. call \in ActsOf(setting, c)
    <3>1. call \in Acts /\ call.at = "stat" /\ call.path = path
      BY <2>7, CallOK
    <3> HIDE DEF call
    <3>2. ChActOK(setting, c, call)
      BY <2>7, <3>1 DEF ChActOK, w
    <3> QED  BY <1>3, <1>9, <3>1, <3>2 DEF ActsOf, ActOK
  <2> HIDE DEF read, call
  <2>9. k \in Seq(ActsOf(setting, c))
    BY <1>4, <1>6, <2>8
  <2>10. r = [proc[p] EXCEPT !.stack = k]
    BY DEF read, call, path
  <2> HIDE DEF k, r
  <2>11. ProcOK(setting, c, r)
    BY <1>4, <2>9, <2>10, StackSet
  <2> QED  BY <1>1, <1>9, <2>11, SetKeeps DEF c
<1> QED  BY <1>2, <1>7, <1>8, <1>9

\* Every step keeps the invariant.
LEMMA WalkStep == WalkInv /\ [Next]_vars => WalkInv'
<1> SUFFICES ASSUME WalkInv, [Next]_vars PROVE WalkInv'
  OBVIOUS
<1>1. ASSUME NEW p \in Proc, Step(p) PROVE WalkInv'
  BY <1>1, NextOperandKeeps, ExitKeeps, EvaluateKeeps, StatFailsKeeps, StatDoneKeeps, SetFailsKeeps, SetDoneKeeps,
     OpendirFailsKeeps, OpendirDoneKeeps, ReaddirKeeps, ReaddirEndOfChKeeps, MkentKeeps, ReaddirEndOfLsKeeps DEF Step
<1>2. CASE UNCHANGED vars
  BY <1>2 DEF vars, WalkInv, World, AttrsOK, ProcsOK, Proc, Cmd
<1> QED  BY <1>1, <1>2, AppearKeeps, VanishKeeps DEF Next, Done

\* The inductive invariant of Walk: the path of every activation leads into what its
\* command may reach, what stat told of it fits its file, and the attributes of every
\* file are such as the commands that reach it can have made of the first ones.
THEOREM AttributesFit == Spec => []WalkInv
<1>1. Init => WalkInv
  BY WalkStarts
<1>2. WalkInv /\ [Next]_vars => WalkInv'
  BY WalkStep
<1> QED  BY <1>1, <1>2, PTL DEF Spec

\* The invariant says of each file what OnlyReached says.
LEMMA InvReached == WalkInv => OnlyReached
<1> SUFFICES ASSUME WalkInv PROVE OnlyReached
  OBVIOUS
<1>1. setting \in Settings /\ World = Universe(setting)
  BY DEF WalkInv, World
<1> SUFFICES ASSUME NEW q \in DOMAIN World
    PROVE
    LET old == setting.attr[q]
        new == attr[q]
        clauses == UNION {ToSet(Cmd(p).means) : p \in Reaching("chmod", q)}
        free    == \E p \in Reaching("chmod", q) : Cmd(p).means = <<>>
        sets(b) == free \/ \E c \in clauses : c.op # "-" /\ b \in c.bits
        lost(b) == /\ Reaching("chown", q) # {} /\ ~IsDir(World, q)
                   /\ \/ b = SetUserId
                      \/ b = SetGroupId /\ (GroupRuns \in old.mode \/ sets(GroupRuns))
        owners  == {str2uid(Cmd(p).owner) : p \in Reaching("chown", q)}
        groups  == {str2uid(Cmd(p).group) : p \in {r \in Reaching("chown", q) : Given(r, "chgrp")}}
    IN  /\ \A b \in new.mode \ old.mode : sets(b)
        /\ \A b \in old.mode \ new.mode : free \/ lost(b) \/ \E c \in clauses : (c.op = "-" /\ b \in c.bits) \/ (c.op = "=" /\ b \notin c.bits)
        /\ new.uid \in owners \cup {old.uid}
        /\ new.gid \in groups \cup {old.gid} \cup
             (IF Reaching("chown", q) = {} THEN {} ELSE {setting.attr[l].gid : l \in Links(q)})
        /\ [new EXCEPT !.mode = {}, !.uid = 0, !.gid = 0] = [old EXCEPT !.mode = {}, !.uid = 0, !.gid = 0]
  BY DEF OnlyReached
<1> DEFINE old == setting.attr[q]
           new == attr[q]
           s == setting
<1>2. AttrOK(s, q, new)
  BY StModeFits
<1>3. \A name : Reaching(name, q) = Runs(s, name, q)
  BY <1>1, ReachIs DEF Reaching, Runs, Is, Cmd, Proc
<1>4. Links(q) = {l \in LinksOf(Universe(s)) : Universe(s)[l].to = q}
  BY <1>1 DEF Links, LinksOf
<1>5. ModeFits(s, q, new.mode) /\ UidFits(s, q, new.uid) /\ GidFits(s, q, new.gid)
  BY <1>2 DEF AttrOK
<1> DEFINE clauses == UNION {ToSet(Cmd(p).means) : p \in Reaching("chmod", q)}
           free    == \E p \in Reaching("chmod", q) : Cmd(p).means = <<>>
           sets(b) == free \/ \E c \in clauses : c.op # "-" /\ b \in c.bits
           lost(b) == /\ Reaching("chown", q) # {} /\ ~IsDir(World, q)
                      /\ \/ b = SetUserId
                         \/ b = SetGroupId /\ (GroupRuns \in old.mode \/ sets(GroupRuns))
           owners  == {str2uid(Cmd(p).owner) : p \in Reaching("chown", q)}
           groups  == {str2uid(Cmd(p).group) : p \in {r \in Reaching("chown", q) : Given(r, "chgrp")}}
<1>12. \A b : MaySet(s, q, b) => sets(b)
  BY <1>3 DEF MaySet, Free, Sets, Cmd
<1>6. \A b \in new.mode \ old.mode : sets(b)
  BY <1>5, <1>12 DEF ModeFits
<1>7. \A b \in old.mode \ new.mode : free \/ lost(b) \/ \E c \in clauses : (c.op = "-" /\ b \in c.bits) \/ (c.op = "=" /\ b \notin c.bits)
  <2> SUFFICES ASSUME NEW b \in old.mode \ new.mode
      PROVE  free \/ lost(b) \/ \E c \in clauses : (c.op = "-" /\ b \in c.bits) \/ (c.op = "=" /\ b \notin c.bits)
    OBVIOUS
  <2>1. MayClear(s, q, b)
    BY <1>5 DEF ModeFits
  <2>2. CASE MayLose(s, q, b)
    <3>1. lost(b)
      BY <1>1, <1>3, <1>12, <2>2 DEF MayLose
    <3> QED  BY <3>1
  <2>3. CASE Free(s, q) \/ \E p \in Runs(s, "chmod", q) : \E c \in ToSet(s.cmds[p].means) : Clears(c, b)
    BY <1>3, <2>3 DEF Free, Clears, Cmd
  <2> QED  BY <2>1, <2>2, <2>3 DEF MayClear
<1>8. new.uid \in owners \cup {old.uid}
  BY <1>3, <1>5 DEF UidFits, Cmd
<1>9. new.gid \in groups \cup {old.gid} \cup
             (IF Reaching("chown", q) = {} THEN {} ELSE {setting.attr[l].gid : l \in Links(q)})
  BY <1>3, <1>4, <1>5 DEF GidFits, Cmd, Given
<1>10. [new EXCEPT !.mode = {}, !.uid = 0, !.gid = 0] = [old EXCEPT !.mode = {}, !.uid = 0, !.gid = 0]
  <2>1. new = [old EXCEPT !.mode = new.mode, !.uid = new.uid, !.gid = new.gid]
    BY <1>2 DEF AttrOK
  <2>2. old \in [mode : SUBSET Bits, uid : Nat, gid : Nat, size : Nat, mtime : Nat, ctime : Nat, atime : Nat]
    BY <1>1, SettingIs DEF Attribute
  <2> HIDE DEF old, new
  <2> DEFINE m == new.mode
             u == new.uid
             g == new.gid
  <2>3. new = [old EXCEPT !.mode = m, !.uid = u, !.gid = g]
    BY <2>1
  <2> HIDE DEF m, u, g
  <2> QED  BY <2>2, <2>3
<1> HIDE DEF old, new, clauses, free, sets, lost, owners, groups
<1>11. /\ \A b \in new.mode \ old.mode : sets(b)
       /\ \A b \in old.mode \ new.mode : free \/ lost(b) \/ \E c \in clauses : (c.op = "-" /\ b \in c.bits) \/ (c.op = "=" /\ b \notin c.bits)
       /\ new.uid \in owners \cup {old.uid}
       /\ new.gid \in groups \cup {old.gid} \cup
             (IF Reaching("chown", q) = {} THEN {} ELSE {setting.attr[l].gid : l \in Links(q)})
       /\ [new EXCEPT !.mode = {}, !.uid = 0, !.gid = 0] = [old EXCEPT !.mode = {}, !.uid = 0, !.gid = 0]
  BY <1>6, <1>7, <1>8, <1>9, <1>10
<1> QED  BY <1>11, Zenon DEF old, new, clauses, free, sets, lost, owners, groups

\* OnlyReached: chmod and chown change only what their operands lead to, and only as
\* their clauses, owners and groups say, in any number of processes between whose stat
\* and chmod or chown others do the same, and entries come and go.
THEOREM ChangedIsReached == Spec => []OnlyReached
  BY AttributesFit, InvReached, PTL
===============================================================================
