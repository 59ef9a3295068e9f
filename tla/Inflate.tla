-------------------------------- MODULE Inflate --------------------------------
(***************************************************************************)
(* src/deflate.c and src/gzip.c: gunzip and zcat.  read_bits takes bits    *)
(* out of a word of the file, the blocks are copied or decoded with the    *)
(* fixed codes, and what a reference repeats comes from the window.        *)
(*                                                                         *)
(* A stream is what the file holds behind the header: its bits, the lowest *)
(* of each byte first, as read_bits takes them.                            *)
(***************************************************************************)
EXTENDS Packed, TLC

CONSTANTS WINDOW_SIZE,
          WordSize,     \* how many bits in.buffer has
          FileNames,    \* the names of files
          Jobs          \* command lines, with the files and the standard input

(***************************************************************************)
(* A job: the command, the letters of its options, the operands, and       *)
(* what each file, and "-" for the standard input, holds (see Packed).     *)
(***************************************************************************)
ASSUME InflateAssumption ==
  /\ WINDOW_SIZE \in Nat \ {0} /\ WordSize \in {16, 32, 64}
  /\ \A s \in Jobs :
       /\ s.cmd \in {"gzip", "gunzip", "zcat"} /\ s.flags \subseteq {"c", "d", "f", "k"}
       /\ s.args \in Seq(FileNames \cup {"-"}) /\ IsInjective(s.args)
       /\ "-" \in DOMAIN s.holds /\ DOMAIN s.holds \subseteq FileNames \cup {"-"}
       /\ \A f \in DOMAIN s.holds : Packing(s.holds[f])

VARIABLES job,
          args,         \* the operands foreach_file_open has left
          stream,       \* the bits of the file that is open
          used,         \* how many of them read_bits has returned
          window, window_ptr,
          final,
          at,           \* where the program is
          left,         \* the bytes to copy yet, from the file or from the window
          ptr,          \* of handle_backward_ref
          out,          \* what came out of stdout
          open,         \* whether stdout is open
          ret,          \* of foreach_file_open
          meant         \* what is to come out, for the properties; it never changes

bits   == <<stream, used>>
output == <<window, window_ptr, out>>
gzVars == <<job, args, bits, output, final, at, left, ptr, open, ret, meant>>

(***************************************************************************)
(* read_bits.  In front of each word it reads four more bytes; when the    *)
(* file has no four bytes any more it goes round for ever.                 *)
(***************************************************************************)
Enough(to) == to <= WordSize * (Len(stream) \div WordSize)

bits_left == (WordSize - (used % WordSize)) % WordSize

\* mask returns a uint8_t: of a part that does not empty the word only eight bits stay.
Cut(from, to) ==
  LET word == WordSize * (to \div WordSize)   \* where the word of the last bit starts
      part == IF word > from THEN word ELSE from
  IN  IF to % WordSize = 0 THEN to ELSE part + 8

Bit(i) == IF i <= Len(stream) /\ stream[i] = 1 THEN 1 ELSE 0

\* read_bits(n), and reverse(read_bits(n), n).
Low(from, n)  == Number([i \in 1..n |-> IF from + i <= Cut(from, from + n) THEN Bit(from + i) ELSE 0], n)
High(from, n) == Number([i \in 1..n |-> Bit(from + n + 1 - i)], n)

(***************************************************************************)
(* The fixed codes: a symbol and where its bits end.                       *)
(***************************************************************************)
get_fixed_symbol ==
  LET seven == High(used, 7)
      eight == High(used, 8)
  IN  CASE seven <= 23 -> [symbol |-> 256 + seven, to |-> used + 7]
        [] seven > 23 /\ eight <= 191 -> [symbol |-> eight - 48, to |-> used + 8]
        [] eight \in 192..199 -> [symbol |-> eight - 192 + 280, to |-> used + 8]
        [] OTHER -> [symbol |-> High(used, 9) - 400 + 144, to |-> used + 9]

Table(base, extra_bits) == [k \in DOMAIN base |-> [base |-> base[k], extra_bits |-> extra_bits[k]]]

lenght_table ==
  Table(<<3, 4, 5, 6, 7, 8, 9, 10, 11, 13, 15, 17, 19, 23, 27, 31, 35, 43, 51, 59, 67, 83, 99, 115,
          131, 163, 195, 227, 258>>,
        <<0, 0, 0, 0, 0, 0, 0, 0, 1, 1, 1, 1, 2, 2, 2, 2, 3, 3, 3, 3, 4, 4, 4, 4, 5, 5, 5, 5, 0>>)

dist_table ==
  Table(<<1, 2, 3, 4, 5, 7, 9, 13, 17, 25, 33, 49, 65, 97, 129, 193, 257, 385, 513, 769, 1025, 1537,
          2049, 3073, 4097, 6145, 8193, 12289, 16385, 24577>>,
        <<0, 0, 0, 0, 1, 1, 2, 2, 3, 3, 4, 4, 5, 5, 6, 6, 7, 7, 8, 8, 9, 9, 10, 10, 11, 11, 12, 12, 13, 13>>)

\* The symbols 286 and 287 and the distances 30 and 31 are behind the tables: any entry.
TableEntries(table, index) ==
  IF index < Len(table) THEN {table[index + 1]} ELSE [base : {0, 3}, extra_bits : {0, 1}]

read_extra(from, entry) == [value |-> entry.base + Low(from, entry.extra_bits), to |-> from + entry.extra_bits]

(***************************************************************************)
(* write_byte.  What is written to a closed stdout is lost.                *)
(***************************************************************************)
NextPtrTooLate(i) == IF i = WINDOW_SIZE THEN 0 ELSE i + 1
NextPtr(i) == (i + 1) % WINDOW_SIZE

write_byte(byte) ==
  /\ out' = IF open THEN Append(out, byte) ELSE out
  /\ window' = [window EXCEPT ![window_ptr] = byte]
  /\ window_ptr' = NextPtr(window_ptr)

-------------------------------------------------------------------------------
(***************************************************************************)
(* gzip and foreach_file_open.  The flags of all options are one bit, so   *)
(* that with FLAG_DECOMPRESS also FLAG_STDOUT and FLAG_KEEP are set: the   *)
(* text goes to stdout, and no file is made or removed, also without -c,   *)
(* where the help says that the file is replaced.                          *)
(***************************************************************************)
FLAG_DECOMPRESS == job.cmd \in {"gunzip", "zcat"} \/ job.flags # {}

BadIsForgotten == ret' = ret
Bad == ret' = 1

\* The next operand; with inflate, the header of the file.
OpenFile ==
  /\ at = "open" /\ args # <<>>
  /\ args' = Tail(args)
  /\ LET f == Head(args)
     IN  \/ /\ f \notin DOMAIN job.holds \/ ~FLAG_DECOMPRESS
            /\ Bad /\ UNCHANGED <<stream, used, window, window_ptr, final, at, open>>
         \/ /\ f \in DOMAIN job.holds /\ FLAG_DECOMPRESS
            /\ IF job.holds[f].header = "gzip"
               THEN /\ at' = "block" /\ stream' = Stream(job.holds[f]) /\ used' = 0
                    /\ window' = [i \in 0..(WINDOW_SIZE - 1) |-> 0] /\ window_ptr' = 0
                    /\ final' = 0
                    /\ UNCHANGED <<open, ret>>
               ELSE /\ Bad /\ open' = FALSE
                    /\ UNCHANGED <<stream, used, window, window_ptr, final, at>>
  /\ UNCHANGED <<job, left, ptr, out, meant>>

GzExit ==
  /\ at = "open" /\ args = <<>>
  /\ at' = "exit"
  /\ UNCHANGED <<job, args, bits, output, final, left, ptr, open, ret, meant>>

-------------------------------------------------------------------------------
(***************************************************************************)
(* inflate.  It returns after the final block, and stdout is closed.       *)
(***************************************************************************)
Ends(place) == at' = place /\ open' = IF place = "open" THEN FALSE ELSE open
NextBlock   == IF final = 1 THEN "open" ELSE "block"

\* The first bits of a block.  A dynamic block is only complained about.
Block ==
  /\ at = "block" /\ Enough(used + 3)
  /\ used' = used + 3 /\ final' = Low(used, 1)
  /\ LET type == Low(used + 1, 2)
     IN  /\ Ends(CASE type = 3 -> "open"
                   [] type = 0 -> "stored"
                   [] type = 1 -> "symbol"
                   [] OTHER    -> IF Low(used, 1) = 1 THEN "open" ELSE "block")
         /\ ret' = IF type = 3 THEN 1 ELSE ret
  /\ UNCHANGED <<job, args, stream, output, left, ptr, meant>>

\* A block without compression: its length and, only looked at, the complement.
ByteBoundary == used + (bits_left % 8)

Stored ==
  /\ at = "stored" /\ Enough(ByteBoundary + 32)
  /\ used' = ByteBoundary + 32
  /\ left' = Low(ByteBoundary, 16)
  /\ Ends(IF left' = 0 THEN NextBlock ELSE "byte")
  /\ UNCHANGED <<job, args, stream, output, final, ptr, ret, meant>>

Byte ==
  /\ at = "byte" /\ Enough(used + 8)
  /\ used' = used + 8 /\ left' = left - 1
  /\ write_byte(Low(used, 8))
  /\ Ends(IF left = 1 THEN NextBlock ELSE "byte")
  /\ UNCHANGED <<job, args, stream, final, ptr, ret, meant>>

Literal ==
  /\ at = "symbol" /\ get_fixed_symbol.symbol <= 255 /\ Enough(get_fixed_symbol.to)
  /\ used' = get_fixed_symbol.to
  /\ write_byte(get_fixed_symbol.symbol)
  /\ UNCHANGED <<job, args, stream, final, at, left, ptr, open, ret, meant>>

EndOfBlock ==
  /\ at = "symbol" /\ get_fixed_symbol.symbol = 256 /\ Enough(get_fixed_symbol.to)
  /\ used' = get_fixed_symbol.to
  /\ Ends(NextBlock)
  /\ UNCHANGED <<job, args, stream, output, final, left, ptr, ret, meant>>

\* The entries that the symbol and the distance code behind it stand for, and where
\* the bits of the reference end.
LengthEntries == TableEntries(lenght_table, get_fixed_symbol.symbol - 257)
DistFrom(l) == read_extra(get_fixed_symbol.to, l).to
DistEntries(l) == TableEntries(dist_table, High(DistFrom(l), 5))
RefEnd(l, d) == read_extra(DistFrom(l) + 5, d).to

StartOf(dist) == (window_ptr - dist + WINDOW_SIZE) % WINDOW_SIZE

\* handle_backward_ref starts,
Reference ==
  /\ at = "symbol" /\ get_fixed_symbol.symbol > 256
  /\ \E l \in LengthEntries : \E d \in DistEntries(l) :
       LET len  == read_extra(get_fixed_symbol.to, l).value
           dist == read_extra(DistFrom(l) + 5, d).value
       IN  /\ Enough(RefEnd(l, d))
           /\ used' = RefEnd(l, d) /\ left' = len /\ ptr' = StartOf(dist)
           /\ at' = IF len = 0 THEN "symbol" ELSE "copy"
  /\ UNCHANGED <<job, args, stream, output, final, open, ret, meant>>

\* and copies a byte.
CopyByte ==
  /\ at = "copy"
  /\ write_byte(window[ptr])
  /\ ptr' = NextPtr(ptr) /\ left' = left - 1
  /\ at' = IF left = 1 THEN "symbol" ELSE "copy"
  /\ UNCHANGED <<job, args, bits, final, open, ret, meant>>

\* read_bits finds no word any more.
Spin ==
  /\ \/ at = "block" /\ ~Enough(used + 3)
     \/ at = "stored" /\ ~Enough(ByteBoundary + 32)
     \/ at = "byte" /\ ~Enough(used + 8)
     \/ at = "symbol" /\ get_fixed_symbol.symbol <= 256 /\ ~Enough(get_fixed_symbol.to)
     \/ /\ at = "symbol" /\ get_fixed_symbol.symbol > 256
        /\ \E l \in LengthEntries : \E d \in DistEntries(l) : ~Enough(RefEnd(l, d))
  /\ at' = "spins"
  /\ UNCHANGED <<job, args, bits, output, final, left, ptr, open, ret, meant>>

-------------------------------------------------------------------------------
\* The packings that the code handles: no dynamic block, no stored block that is too
\* long for mask, no distance with more than eight extra bits.
Handled(p) ==
  /\ p.header = "gzip" /\ ~p.cut
  /\ \A k \in DOMAIN p.blocks :
       /\ p.blocks[k].type \in {0, 1} /\ Len(p.blocks[k].bytes) < 256
       /\ \A t \in ToSet(p.blocks[k].tokens) : t.dist <= 1024 /\ t.byte <= 255

\* gunzip or zcat with one operand, when its text is asked for on stdout: by zcat, by
\* -c, or because it comes from the standard input.
Operand  == IF job.args = <<>> THEN "-" ELSE job.args[1]
ToStdout == job.cmd = "zcat" \/ "c" \in job.flags \/ Operand = "-"
Quiet    == FLAG_DECOMPRESS /\ ToStdout /\ Len(job.args) < 2 /\ Operand \in DOMAIN job.holds
            /\ Handled(job.holds[Operand])

GzInit ==
  /\ job \in Jobs
  /\ args = IF job.args = <<>> THEN <<"-">> ELSE job.args
  /\ stream = <<>> /\ used = 0
  /\ window = [i \in 0..(WINDOW_SIZE - 1) |-> 0] /\ window_ptr = 0
  /\ final = 0 /\ at = "open" /\ left = 0 /\ ptr = 0
  /\ out = <<>> /\ open = TRUE /\ ret = 0
  /\ meant = [quiet |-> Quiet, text |-> IF Quiet THEN Unpacked(job.holds[Operand]) ELSE <<>>]

GzNext == \/ OpenFile \/ GzExit
          \/ Block \/ Stored \/ Byte \/ Literal \/ EndOfBlock \/ Reference \/ CopyByte \/ Spin

GzSpec == GzInit /\ [][GzNext]_gzVars /\ WF_gzVars(GzNext)

-------------------------------------------------------------------------------
\* What comes out of zcat, of gunzip -c and of gunzip on the standard input is at every
\* time the beginning of the text that the file stands for, and in the end all of it: no
\* bit is lost where a word of the buffer, a block or the window ends, and the program
\* does not stay in read_bits.  This is said of the files that Handled names, and of them
\* alone: read_bits goes wrong with the others.
Output == INSTANCE Transfer WITH
            text <- meant.text,
            out <- IF meant.quiet THEN out ELSE <<>>,
            closed <- at = "exit" \/ (at = "spins" /\ ~meant.quiet)

\* The window is the end of what has been written in this file, wherever in the array
\* that end lies (before anything is lost because stdout is closed).
Distance(d) == (window_ptr - d + WINDOW_SIZE) % WINDOW_SIZE
WindowIsTail ==
  open /\ at # "open" =>
    \A d \in 1..WINDOW_SIZE : window[Distance(d)] = IF d <= Len(out) THEN out[Len(out) + 1 - d] ELSE 0

\* A status of 0 says that every operand was there, was a gzip file and held no block
\* of the invalid type, also when it was not the last one.
StatusTells ==
  at = "exit" /\ (\A f \in DOMAIN job.holds : Handled(job.holds[f]) \/ job.holds[f].header # "gzip"
                                              \/ Invalid(job.holds[f])) =>
    (ret = 0 <=> /\ FLAG_DECOMPRESS
                 /\ \A f \in (IF job.args = <<>> THEN {"-"} ELSE ToSet(job.args)) :
                      f \in DOMAIN job.holds /\ Handled(job.holds[f]))

\* The type invariant: the pointers stay in the window.
TypeOK ==
  /\ at \in {"open", "block", "stored", "byte", "symbol", "copy", "spins", "exit"}
  /\ used \in Nat /\ left \in Int /\ final \in Nat /\ ret \in {0, 1} /\ open \in BOOLEAN
  /\ window_ptr \in 0..(WINDOW_SIZE - 1) /\ ptr \in 0..(WINDOW_SIZE - 1)
  /\ window \in [0..(WINDOW_SIZE - 1) -> Int] /\ out \in Seq(Int)
===============================================================================
