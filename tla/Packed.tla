-------------------------------- MODULE Packed --------------------------------
(***************************************************************************)
(* What a gzip file is (RFC 1951 and 1952), without an algorithm to read   *)
(* it: a header, and blocks, which stand for a text and are written as     *)
(* bits.  Inflate is checked against this.  Nothing here is code of the    *)
(* repository, but Number.  The fields a header can have behind its ten    *)
(* bytes (a file's name, a comment) are left out: src/deflate.c does not   *)
(* skip them and takes them for blocks (its TODO, line 210).               *)
(***************************************************************************)
EXTENDS Integers, SequencesExt

\* The number with the bits b[1], ..., b[n], the lowest first; n is at most 16.
Number(b, n) ==
  LET bit(i)     == IF i <= n THEN b[i] ELSE 0
      four(i, x) == bit(i) + 2 * bit(i + 1) + 4 * bit(i + 2) + 8 * bit(i + 3) + 16 * x
  IN  four(1, four(5, four(9, four(13, 0))))

(***************************************************************************)
(* A block: its type, the bytes of a stored one, and the tokens of a       *)
(* compressed one, each of which is a byte (len = 0) or says how many      *)
(* bytes to repeat, and from how far back.                                 *)
(***************************************************************************)
StoredBlock(text) == [type |-> 0, bytes |-> text, tokens |-> <<>>]
FixedBlock(tokens) == [type |-> 1, bytes |-> <<>>, tokens |-> tokens]
Lit(b) == [len |-> 0, dist |-> 0, byte |-> b]
Ref(n, dist) == [len |-> n, dist |-> dist, byte |-> 0]

\* cut: the last bytes of the file, with the checksum and the length, are missing.
Packing(p) ==
  /\ p.header \in {"gzip", "other"} /\ p.cut \in BOOLEAN /\ p.blocks # <<>>
  /\ \A k \in DOMAIN p.blocks : p.blocks[k].type \in 0..3 /\ Len(p.blocks[k].bytes) < 65536

Repeated(text, n, dist) == [i \in 1..n |-> text[Len(text) - dist + 1 + ((i - 1) % dist)]]

Unpacked(p) ==
  FoldLeft(LAMBDA text, b :
             FoldLeft(LAMBDA t, k : IF k.len = 0 THEN Append(t, k.byte) ELSE t \o Repeated(t, k.len, k.dist),
                      text \o b.bytes, b.tokens),
           <<>>, p.blocks)

Invalid(p) == p.header = "gzip" /\ \E k \in DOMAIN p.blocks : p.blocks[k].type = 3

(***************************************************************************)
(* As bits: numbers with the lowest bit first, codes with the highest.     *)
(***************************************************************************)
Upwards(n, k)   == [i \in 1..k |-> (n \div 2^(i - 1)) % 2]
Downwards(n, k) == [i \in 1..k |-> (n \div 2^(k - i)) % 2]

SymbolCode(s) ==
  CASE s <= 143       -> Downwards(48 + s, 8)
    [] s \in 144..255 -> Downwards(400 + s - 144, 9)
    [] s \in 256..279 -> Downwards(s - 256, 7)
    [] OTHER          -> Downwards(192 + s - 280, 8)

\* The classes of lengths and distances: their first member and their extra bits.
LengthExtra(i) == IF i < 8 \/ i = 28 THEN 0 ELSE (i \div 4) - 1
LengthBase(i)  == IF i = 28 THEN 258 ELSE IF i < 8 THEN 3 + i ELSE 3 + (4 + (i % 4)) * 2^LengthExtra(i)
DistExtra(i)   == IF i < 4 THEN 0 ELSE (i \div 2) - 1
DistBase(i)    == IF i < 4 THEN 1 + i ELSE 1 + (2 + (i % 2)) * 2^DistExtra(i)

Greatest(S) == CHOOSE i \in S : \A j \in S : j <= i

TokenCode(t) ==
  IF t.len = 0 THEN SymbolCode(t.byte)
  ELSE LET l == Greatest({i \in 0..28 : LengthBase(i) <= t.len})
           d == Greatest({i \in 0..29 : DistBase(i) <= t.dist})
       IN  SymbolCode(257 + l) \o Upwards(t.len - LengthBase(l), LengthExtra(l))
           \o Downwards(d, 5) \o Upwards(t.dist - DistBase(d), DistExtra(d))

Zeros(k) == [i \in 1..k |-> 0]

\* The block behind `before`, which ends anywhere in a byte.
BlockCode(before, b, last) ==
  LET start == before \o <<IF last THEN 1 ELSE 0>> \o Upwards(b.type, 2)
      n     == Len(b.bytes)
  IN  CASE b.type = 0 -> start \o Zeros((8 - (Len(start) % 8)) % 8) \o Upwards(n, 16) \o Upwards(65535 - n, 16)
                         \o FlattenSeq([i \in 1..n |-> Upwards(b.bytes[i], 8)])
        [] b.type = 1 -> start \o FlattenSeq([i \in DOMAIN b.tokens |-> TokenCode(b.tokens[i])]) \o SymbolCode(256)
        [] OTHER -> start

\* Behind the blocks come eight bytes; their value does not matter.
Stream(p) ==
  LET code == FoldLeft(LAMBDA s, k : BlockCode(s, p.blocks[k], k = Len(p.blocks)), <<>>, [k \in DOMAIN p.blocks |-> k])
      whole == code \o Zeros((8 - (Len(code) % 8)) % 8)
  IN  IF p.cut THEN SubSeq(whole, 1, Len(whole) - 8) ELSE whole \o Zeros(64)
===============================================================================
