------------------------------- MODULE Pipeline -------------------------------
(***************************************************************************)
(* A pipeline of cat, tee, head, wc, hex, tr, dd and yes: their main       *)
(* functions, foreach_file_open and foreach_file of src/utils.c, and every *)
(* read and write they make, in any interleaving.  A setting gives the     *)
(* commands, the input of the first, the files, and what may go wrong:     *)
(* calls that are refused, writes that are short, an interrupt.            *)
(***************************************************************************)
EXTENDS Dd

CONSTANTS BufSize,    \* the size of the buffers of cat, tee, head, wc and hex
          StdioSize,  \* the size of the buffer of stdout
          Longest,    \* how many programs the longest pipeline has
          Settings

(***************************************************************************)
(* args are the operands: names of files, for dd records, and for tr sets  *)
(* of characters (see Tr).  n is the number that -n, -c or -l of head and  *)
(* hex give, seek that of hex -s.                                          *)
(***************************************************************************)
Programs == {"cat", "tee", "head", "wc", "hex", "tr", "dd", "yes"}

\* The symbols for numbers and names (see Filters) are only passed on.
Formats(c) == \/ c.name \in {"dd", "wc", "hex"} \/ (c.name = "cat" /\ "number" \in c.flags)
              \/ c.name = "head" /\ Len(c.args) > 1
Plainly(c) == c.name = "tee" \/ (c.name = "cat" /\ c.flags = {})

IsSeq(s) == s \in Seq(ToSet(s))

CommandOK(c) ==
  /\ c.name \in Programs /\ c.n \in Nat /\ c.seek \in Nat /\ IsSeq(c.args)
  /\ c.name = "yes" => c.args = <<>>
  /\ c.name \in {"cat", "tee", "head", "wc", "hex"} => ToSet(c.args) \subseteq FileName
  /\ c.name = "dd" => \A i \in DOMAIN c.args : OperandOK(c.args[i])

Setting(s) ==
  /\ s.input \in Seq(0..255) /\ DOMAIN s.files \subseteq FileName
  /\ \A f \in DOMAIN s.files : s.files[f] \in Seq(0..255)
  /\ s.refused \subseteq {"open", "read", "write", "short"} /\ s.interrupt \in BOOLEAN
  /\ IsSeq(s.cmds) /\ Len(s.cmds) \in 1..Longest /\ \A p \in DOMAIN s.cmds : CommandOK(s.cmds[p])
  /\ \A p, q \in DOMAIN s.cmds : p < q /\ Formats(s.cmds[p]) => Plainly(s.cmds[q])

ASSUME PipelineAssumption ==
  /\ BufSize \in Nat \ {0} /\ StdioSize \in Nat \ {0} /\ Col \in Nat \ {0}
  /\ \A s \in Settings : Setting(s)

VARIABLES setting,
          proc,    \* what each program knows and where it is
          meant    \* what is to come out (see Meaning), for the properties; it never changes

vars == <<streams, setting, proc, meant>>

Cmd(p) == setting.cmds[p]
Given(p, flag) == flag \in Cmd(p).flags
May(fault) == fault \in setting.refused

Killed == -1

\* in: what is read; buf: what fread has got; mem: what the loop knows; obuf: the
\* buffer of stdout; fds: the descriptors open for writing; todo: the calls of
\* write to make, the first of which has moved `moved` bytes; next: where to go then.
Idle == [at |-> "start", args |-> <<>>, in |-> "stdin", buf |-> <<>>, mem |-> <<>>, obuf |-> <<>>,
         fds |-> <<>>, todo |-> <<>>, moved |-> 0, next |-> "read", ret |-> 0]

Becomes(p, s) == proc' = [proc EXCEPT ![p] = s] /\ UNCHANGED <<setting, meant>>
Silent(p, s)  == Becomes(p, s) /\ UNCHANGED streams
At(p, place)  == p \notin ended /\ proc[p].at = place

Call(fd, bytes)  == [fd |-> fd, bytes |-> bytes, stdio |-> FALSE]
Flush(s, next)   == [s EXCEPT !.todo = <<[fd |-> 0, bytes |-> s.obuf, stdio |-> TRUE]>>,
                              !.obuf = <<>>, !.at = "write", !.next = next]
Writes(s, calls, next) == [s EXCEPT !.todo = calls, !.at = "write", !.next = next]
Ends(s, ret) == [s EXCEPT !.at = "exit", !.ret = ret]

\* A signal, or a division by zero: what stdout's buffer holds is lost.
Dies(s) == [s EXCEPT !.at = "exit", !.ret = Killed, !.obuf = <<>>, !.todo = <<>>]

\* printf, putchar, fwrite: the buffer is written when it is full.
Printed(s, m, next) ==
  LET t == [s EXCEPT !.mem = [m EXCEPT !.out = <<>>], !.obuf = @ \o m.out, !.buf = <<>>]
  IN  IF Len(t.obuf) >= StdioSize THEN Flush(t, next) ELSE [t EXCEPT !.at = next]

-------------------------------------------------------------------------------
(***************************************************************************)
(* The main functions up to their loop.                                    *)
(***************************************************************************)
OrDash(args) == IF args = <<>> THEN <<"-">> ELSE args
Sets(p) == [i \in DOMAIN Cmd(p).args |-> Spelled(Cmd(p).args[i])]

Begin(p) ==
  /\ At(p, "start")
  /\ LET s == proc[p]
         c == Cmd(p)
     IN  Silent(p,
           CASE c.name = "tr" ->
                  IF TrArgsOK(c.flags, c.args) THEN [s EXCEPT !.at = "read", !.args = Sets(p), !.mem = TrStart] ELSE Ends(s, 1)
             [] c.name = "dd" ->
                  LET m == Operands(c.args)
                  IN  IF m.bad THEN Ends(s, 1) ELSE [s EXCEPT !.at = "open", !.mem = m, !.in = m.in]
             [] c.name = "yes" -> [s EXCEPT !.at = "read", !.mem = NothingYet]
             [] c.name = "wc"  -> [s EXCEPT !.at = "open", !.args = OrDash(c.args), !.mem = WcStart]
             [] OTHER          -> [s EXCEPT !.at = "open", !.args = OrDash(c.args), !.mem = NothingYet])

HeadFlags(c) == IF c.flags \cap {"lines", "bytes"} = {} THEN {"lines"} ELSE c.flags
HeadLimit(c) == IF c.flags \cap {"lines", "bytes"} = {} THEN 10 ELSE c.n
Heading(p)   == IF Len(Cmd(p).args) < 2 \/ Given(p, "quiet") THEN <<>> ELSE <<AName, Newline>>

\* What a loop knows when it starts with a file.
Fresh(p, m) ==
  CASE Cmd(p).name = "cat"  -> CatStart
    [] Cmd(p).name = "head" -> [HeadStart EXCEPT !.out = Heading(p)]
    [] Cmd(p).name = "hex"  -> HexStart
    [] Cmd(p).name = "wc"   -> [WcStart EXCEPT !.grid = m.grid, !.sums = m.sums]

\* foreach_file_open, and the same in wc: one operand.
OpenInput(p) ==
  /\ At(p, "open") /\ Cmd(p).name \in {"cat", "head", "wc", "hex"} /\ proc[p].args # <<>>
  /\ LET name == Head(proc[p].args)
         s    == [proc[p] EXCEPT !.args = Tail(@)]
         in   == IF name = "-" THEN "stdin" ELSE name
         next == IF Cmd(p).name = "head" /\ "lines" \in HeadFlags(Cmd(p)) /\ HeadLimit(Cmd(p)) = 0 THEN "open" ELSE "read"
     IN  \/ /\ in = "stdin" \/ in \in DOMAIN file
            /\ Becomes(p, Printed([s EXCEPT !.in = in], Fresh(p, s.mem), next))
            /\ IF in = "stdin" THEN UNCHANGED streams
               ELSE Rewind(p, IF Cmd(p).name = "hex" /\ Given(p, "seek") THEN Cmd(p).seek ELSE 0)
         \/ /\ in # "stdin" /\ (in \notin DOMAIN file \/ May("open"))
            /\ Silent(p, [s EXCEPT !.ret = 1])

\* No operand is left.  The line with wc's totals does not fit into its grid, so
\* that with it any end is possible.
Finish(p) ==
  /\ At(p, "open") /\ Cmd(p).name \in {"cat", "head", "wc", "hex"} /\ proc[p].args = <<>>
  /\ LET s == proc[p]
         totals == IF Len(Cmd(p).args) > 1 THEN add_stat(Cmd(p).flags, s.mem.sums) \o <<AName, Newline>> ELSE <<>>
     IN  IF Cmd(p).name = "wc"
         THEN \/ Silent(p, Ends([s EXCEPT !.obuf = @ \o s.mem.grid \o totals], s.ret))
              \/ totals # <<>> /\ Silent(p, Dies(s))
         ELSE Silent(p, Ends(s, s.ret))

\* foreach_file with open_file: all operands of tee, also behind one that fails.  Without
\* operands it opens "-", but no line writes to that descriptor.
OpenOutput(p) ==
  /\ At(p, "open") /\ Cmd(p).name = "tee"
  /\ LET s == proc[p]
     IN  IF s.args = <<>>
         THEN Silent(p, IF s.ret = 1 THEN Ends(s, 1) ELSE [s EXCEPT !.at = "read"])
         ELSE \/ /\ Create(Head(s.args), ~Given(p, "append"))
                 /\ Becomes(p, [s EXCEPT !.args = Tail(@),
                                         !.fds = IF Cmd(p).args = <<>> THEN @
                                                 ELSE Append(@, Opened(Head(s.args), Given(p, "append")))])
              \/ May("open") /\ Silent(p, [s EXCEPT !.args = Tail(@), !.ret = 1])

\* dd opens its input, then its output, and seeks.
OpenDd(p) ==
  /\ At(p, "open") /\ Cmd(p).name = "dd" /\ proc[p].fds = <<>>
  /\ LET s == proc[p]
         m == s.mem
         in == m.in = "stdin" \/ m.in \in DOMAIN file
         fd == IF m.of = "stdout" THEN Stdout
               ELSE [Opened(m.of, FALSE) EXCEPT !.off = IF m.oseek > 0 THEN Size(m.obs * m.oseek) ELSE 0]
         clash == m.of # "stdout" /\ m.excl /\ m.of \in DOMAIN file
     IN  \/ /\ in /\ ~clash
            /\ Becomes(p, [s EXCEPT !.at = "seek", !.fds = <<fd>>])
            /\ IF m.of = "stdout" THEN UNCHANGED streams ELSE Create(m.of, m.trunc)
         \/ /\ ~in \/ clash \/ (May("open") /\ <<m.in, m.of>> # <<"stdin", "stdout">>)
            /\ Silent(p, Ends(s, 1))

SeekDd(p) ==
  /\ At(p, "seek")
  /\ Becomes(p, [proc[p] EXCEPT !.at = "read", !.mem = NewRound(@)])
  /\ LET m == proc[p].mem IN IF m.in = "stdin" THEN UNCHANGED streams ELSE Rewind(p, Size(m.ibs * m.iseek))

-------------------------------------------------------------------------------
(***************************************************************************)
(* The loops.  Digest is what a loop does with the bytes of one buffer.    *)
(***************************************************************************)
Shows(p) == Cmd(p).name = "cat" /\ Cmd(p).flags # {}   \* FLAG_BYTE
Copies(p) == Cmd(p).name = "tee" \/ (Cmd(p).name = "cat" /\ ~Shows(p))

DigestByte(p, m, byte) ==
  CASE Cmd(p).name = "cat" -> CatByte(Cmd(p).flags, m, byte)
    [] Cmd(p).name = "tr"  -> TrByte(Cmd(p).flags, proc[p].args, m, byte)
    [] Cmd(p).name = "wc"  -> WcByte(m, byte)

DigestBytes(p, m, bytes) == FoldLeft(LAMBDA s, byte : DigestByte(p, s, byte), m, bytes)

Digest(p, m, bytes) ==
  LET c == Cmd(p)
      all == DigestBytes(p, m, bytes)
  IN  CASE c.name \in {"cat", "tr"} -> all
        [] c.name = "wc"   -> [all EXCEPT !.stop = Len(bytes) < BufSize]
        [] c.name = "head" -> HeadBuffer(HeadFlags(c), HeadLimit(c), m, bytes)
        [] c.name = "hex"  -> HexBuffer(c.flags, c.n, m, bytes)

\* The loop is left: at the end of the input, on an error, or on its own account.
Added(sums, m) == [f \in DOMAIN sums |-> sums[f] + m[f]]

LeftLastDecides(p, s, m, error) ==
  Printed([s EXCEPT !.ret = IF error THEN 1 ELSE 0], m, IF Cmd(p).name = "tr" THEN "exit" ELSE "open")

Left(p, s, m, error) ==
  LET c == Cmd(p)
      name == IF c.args = <<>> THEN <<Newline>> ELSE <<AName, Newline>>
      t == [s EXCEPT !.ret = IF error THEN 1 ELSE @]
  IN  CASE c.name = "wc"  -> Printed(t, [m EXCEPT !.grid = @ \o add_stat(c.flags, m) \o name,
                                                  !.sums = Added(@, m)], "open")
        [] c.name = "hex" -> Printed(t, [m EXCEPT !.out = @ \o Rows(m.line)], "open")
        [] c.name \in {"cat", "head"} -> Printed(t, m, "open")
        [] c.name = "tr"  -> Printed(t, m, "exit")

\* A buffer is written as it is by cat and tee, to the outputs that have not failed.
Outputs(s) == Append(FlattenSeq([i \in DOMAIN s.fds |-> IF s.fds[i].name = "failed" THEN <<>> ELSE <<i>>]), 0)

ConsumedWholeBuffer(p, s, bytes) ==
  LET whole == bytes \o [i \in 1..(BufSize - Len(bytes)) |-> 0]
  IN  Writes(s, [i \in DOMAIN Outputs(s) |-> Call(Outputs(s)[i], whole)], "read")

Consumed(p, s, bytes) ==
  IF Copies(p) THEN Writes(s, [i \in DOMAIN Outputs(s) |-> Call(Outputs(s)[i], bytes)], "read")
  ELSE Using(Digest(p, s.mem, bytes), LAMBDA m :
         IF m.stop THEN Left(p, [s EXCEPT !.ret = IF Cmd(p).name = "tr" THEN 1 ELSE @], m, FALSE)
         ELSE Printed(s, m, "read"))

\* fread goes on until its buffer is full.
Freads(p) == Cmd(p).name \in {"head", "wc", "hex"}

\* read() returns bytes.
Got(p, s, bytes) ==
  CASE Cmd(p).name = "dd" ->
         LET block == s.mem.block \o bytes
         IN  [s EXCEPT !.mem = IF Len(bytes) = Asks(s.mem) THEN BlockDone(s.mem, block)
                               ELSE [s.mem EXCEPT !.block = block]]
    [] Freads(p) /\ Len(s.buf \o bytes) < BufSize -> [s EXCEPT !.buf = @ \o bytes]
    [] OTHER -> Consumed(p, s, s.buf \o bytes)

Limit(p, s) ==
  CASE Cmd(p).name = "dd" -> Asks(s.mem)
    [] Cmd(p).name = "yes" -> 0
    [] OTHER -> BufSize - Len(s.buf)

Read(p) ==
  /\ At(p, "read")
  /\ LET s == proc[p]
     IN  \E k \in 1..Less(Limit(p, s), Len(Waiting(p, s.in))) :
           /\ Take(p, s.in, k)
           /\ Becomes(p, Got(p, s, SubSeq(Waiting(p, s.in), 1, k)))

\* read() returns 0, or -1 when it is refused.  dd takes an error for one byte:
\* the first of the block, or whatever malloc has left there.
ReadEnds(p) ==
  /\ At(p, "read") /\ Limit(p, proc[p]) > 0
  /\ LET s == proc[p]
     IN  \E error \in {FALSE} \cup {May("read")} :
           /\ error \/ NoMore(p, s.in)
           /\ CASE Cmd(p).name = "dd" ->
                     IF error
                     THEN \E garbage \in {0, Newline} :
                            LET first == Head(Append(s.mem.block, garbage))
                            IN  Silent(p, [s EXCEPT !.mem = BlockDone(@, <<first>>)])
                     ELSE Silent(p, [s EXCEPT !.mem = BlockDone(@, @.block)])
                [] Cmd(p).name = "tee"        -> Silent(p, Ends(s, s.ret))
                [] Freads(p) /\ s.buf # <<>> -> Silent(p, Consumed(p, s, s.buf))
                [] OTHER -> Silent(p, Left(p, s, s.mem, error /\ Cmd(p).name = "cat"))

Yes(p) ==
  /\ At(p, "read") /\ Cmd(p).name = "yes"
  /\ Silent(p, Printed(proc[p], [proc[p].mem EXCEPT !.out = <<121, Newline>>], "read"))

(***************************************************************************)
(* dd: what read_by_blocks has read is written, and the count goes down.   *)
(***************************************************************************)
Pour(p) ==
  /\ At(p, "read") /\ Cmd(p).name = "dd" /\ Asks(proc[p].mem) = 0
  /\ Silent(p, [proc[p] EXCEPT !.mem = AllRead(@), !.at = "pour"])

NextChunk(p) ==
  /\ At(p, "pour") /\ proc[p].mem.content # <<>>
  /\ LET s == proc[p]
     IN  Silent(p, IF s.mem.obs = 0 THEN Dies(s) ELSE Writes(s, <<Call(1, Chunk(s.mem))>>, "pour"))

Round(p) ==
  /\ At(p, "pour") /\ proc[p].mem.content = <<>>
  /\ LET s == proc[p]
     IN  Silent(p, IF s.mem.ibs = 0 THEN Dies(s)
                   ELSE IF s.mem.eof THEN [s EXCEPT !.mem = Counted(@), !.at = "report"]
                   ELSE [s EXCEPT !.mem = NewRound(Counted(@)), !.at = "read"])

PrintReport(p) ==
  /\ At(p, "report")
  /\ LET s == proc[p]
     IN  Silent(p, IF s.mem.obs = 0 THEN Dies(s) ELSE Ends([s EXCEPT !.obuf = Report(s.mem)], s.ret))

(***************************************************************************)
(* write().  The standard library calls it again for what a short write    *)
(* has left, dd goes on behind it, cat and tee do not look.                *)
(***************************************************************************)
Fd(s, i) == IF i = 0 THEN Stdout ELSE s.fds[i]

\* The first call has moved k more bytes, and with it the offset of its descriptor.
Forward(fds, i, k) == IF i = 0 THEN fds ELSE [fds EXCEPT ![i].off = @ + k]
Advanced(s, k) == [s EXCEPT !.moved = @ + k, !.fds = Forward(@, Head(s.todo).fd, k)]

\* A call has moved w bytes, or failed with w = -1.
ReturnedStops(p, s, w) ==
  IF w = -1 THEN Ends([s EXCEPT !.todo = <<>>, !.moved = 0], 1)
  ELSE [s EXCEPT !.todo = Tail(@), !.moved = 0, !.at = IF Len(s.todo) = 1 THEN s.next ELSE @]

Returned(p, s, w) ==
  LET call == Head(s.todo)
      t == [s EXCEPT !.todo = Tail(@), !.moved = 0, !.at = IF Len(s.todo) = 1 THEN s.next ELSE @]
  IN  CASE call.stdio /\ w \in 0..(Len(call.bytes) - 1) ->
             [s EXCEPT !.moved = 0, !.todo[1].bytes = SubSeq(@, w + 1, Len(@))]
        [] ~call.stdio /\ Cmd(p).name = "dd" ->
             IF w = -1 THEN [t EXCEPT !.ret = 1, !.at = "report"] ELSE [t EXCEPT !.mem = Written(@, w)]
        [] Cmd(p).name = "tee" /\ w = -1 ->
             IF call.fd = 0 THEN Ends([t EXCEPT !.todo = <<>>], 1)
             ELSE [t EXCEPT !.ret = 1, !.fds[call.fd].name = "failed"]
        [] OTHER -> t

Write(p) ==
  /\ At(p, "write")
  /\ LET s    == proc[p]
         call == Head(s.todo)
         fd   == Fd(s, call.fd)
         rest == SubSeq(call.bytes, s.moved + 1, Len(call.bytes))
         room == Room(p, fd, rest)
     IN  \/ /\ ~Broken(p, fd)
            /\ \E k \in {room} \cup (IF May("short") THEN 1..room ELSE {}) :
                 /\ k > 0 /\ Put(p, fd, SubSeq(rest, 1, k))
                 /\ LET moved == Advanced(s, k)
                    IN  \/ (k = Len(rest) \/ May("short")) /\ Becomes(p, Returned(p, moved, s.moved + k))
                        \/ k < Len(rest) /\ Becomes(p, moved)
         \/ May("write") /\ s.moved = 0 /\ Silent(p, Returned(p, s, -1))
         \/ Broken(p, fd) /\ Silent(p, Dies(s))

\* exit() writes what stdout's buffer holds.
Exit(p) ==
  /\ At(p, "exit")
  /\ IF proc[p].obuf # <<>> THEN Silent(p, Flush(proc[p], "exit"))
     ELSE Quits(p) /\ UNCHANGED <<setting, proc, meant>>

\* SIGINT goes to the whole pipeline, and tee -i has ignored it.
Ignores(p) == Cmd(p).name = "tee" /\ Given(p, "ignore") /\ ~At(p, "start")

Interrupt ==
  /\ setting.interrupt
  /\ \E p \in Proc \ ended : ~Ignores(p) /\ proc[p].ret # Killed
  /\ proc' = [p \in Proc |-> IF p \in ended \/ Ignores(p) THEN proc[p] ELSE Dies(proc[p])]
  /\ UNCHANGED <<streams, setting, meant>>

-------------------------------------------------------------------------------
(***************************************************************************)
(* What each program is to print, given what its standard input says: the  *)
(* text of an operand is a file, or the input the first time "-" comes.    *)
(***************************************************************************)
Text(input, args, i) == IF args[i] # "-" THEN setting.files[args[i]]
                        ELSE IF \E j \in 1..(i - 1) : args[j] = "-" THEN <<>> ELSE input

ByOperand(args, Of(_)) ==
  FlattenSeq([i \in DOMAIN args |-> IF args[i] \in DOMAIN setting.files \cup {"-"} THEN Of(i) ELSE <<>>])

Before(t, i, c) == Cardinality({j \in 1..(i - 1) : t[j] = c})

Shown(flags, t) ==
  FlattenSeq([i \in DOMAIN t |->
    (IF "number" \in flags /\ (i = 1 \/ t[i - 1] = Newline) THEN <<Number(Before(t, i, Newline))>> ELSE <<>>)
    \o CASE t[i] = Newline /\ "ends" \in flags -> <<36, Newline>>
         [] t[i] = Tab /\ "tabs" \in flags      -> <<94, 73>>
         [] t[i] \notin (32..126) \cup {Newline, Tab} -> <<94, (t[i] + 64) % 256>>
         [] OTHER -> <<t[i]>>])

FirstLines(t, n) == SelectSeq([i \in DOMAIN t |-> i], LAMBDA i : Before(t, i, Newline) < n)
Words(t) == {i \in DOMAIN t : ~is_blank(t[i]) /\ (i = 1 \/ is_blank(t[i - 1]))}
FirstOf(t, n) == SubSeq(t, 1, Less(n, Len(t)))

\* What dd is to read, and the bytes of it that it copies.
DdText(m, input) == IF m.in = "stdin" THEN input
                    ELSE SubSeq(setting.files[m.in], m.ibs * m.iseek + 1, Len(setting.files[m.in]))
DdCopy(m, input) == FirstOf(DdText(m, input), m.ibs * m.count)

Meaning(p, input) ==
  LET c == Cmd(p)
      args == OrDash(c.args)
      m == Operands(c.args)
      n == Len(DdCopy(m, input))
  IN  CASE c.name = "cat"  -> ByOperand(args, LAMBDA i : IF Shows(p) THEN Shown(c.flags, Text(input, args, i))
                                                         ELSE Text(input, args, i))
        [] c.name = "tee"  -> input
        [] c.name = "tr"   -> TrMeaning(c.flags, c.args, input)
        [] c.name = "head" ->
             ByOperand(args, LAMBDA i :
               LET t == Text(input, args, i)
               IN  Heading(p) \o IF "lines" \in HeadFlags(c) THEN FirstOf(t, Len(FirstLines(t, HeadLimit(c))))
                                 ELSE FirstOf(t, HeadLimit(c)))
        [] c.name = "hex" ->
             ByOperand(args, LAMBDA i :
               LET t    == Text(input, args, i)
                   from == IF Given(p, "seek") /\ args[i] # "-" THEN SubSeq(t, c.seek + 1, Len(t)) ELSE t
               IN  Rows(IF Given(p, "length") THEN FirstOf(from, c.n) ELSE from))
        [] c.name = "wc" ->
             ByOperand(args, LAMBDA i :
               LET t == Text(input, args, i)
               IN  add_stat(c.flags, [lines |-> Before(t, Len(t) + 1, Newline), words |-> Cardinality(Words(t)),
                                      bytes |-> Len(t)])
                   \o IF c.args = <<>> THEN <<Newline>> ELSE <<AName, Newline>>)
        [] c.name = "dd" ->
             (IF m.of = "stdout" THEN DdCopy(m, input) ELSE <<>>)
             \o <<Number(n \div m.ibs), Number(n % m.ibs), Newline,
                  Number(n \div m.obs), Number(n % m.obs), Newline, Number(n), Newline>>
        [] c.name = "yes" -> FlattenSeq([i \in 1..8 |-> <<121, Newline>>])

\* The pipeline is the composition of its programs.
PipelineText ==
  FoldLeft(LAMBDA text, p : Meaning(p, text), setting.input, [p \in DOMAIN setting.cmds |-> p])

(***************************************************************************)
(* For which settings this is what comes out: nothing is refused, nobody   *)
(* interrupts, no file is both read and written, and each program is used  *)
(* in a way in which it has a meaning.                                     *)
(***************************************************************************)
Ins(c)  == CASE c.name \in {"cat", "head", "wc", "hex"} -> ToSet(c.args) \ {"-"}
             [] c.name = "dd" -> {Operands(c.args).in} \ {"stdin"}
             [] OTHER -> {}
Outs(c) == CASE c.name = "tee" -> ToSet(OrDash(c.args))
             [] c.name = "dd"  -> {Operands(c.args).of} \ {"stdout"}
             [] OTHER -> {}

\* dd in whole blocks, with numbers that do not wrap.
DdPlain(c) ==
  LET m == Operands(c.args)
  IN  /\ ~m.bad /\ m.ibs > 0 /\ m.obs > 0 /\ Bs(m) % m.ibs = 0
      /\ m.count = SIZE_MAX \/ m.ibs * m.count <= SIZE_MAX
      /\ m.ibs * m.iseek <= SIZE_MAX /\ m.obs * m.oseek <= SIZE_MAX
      /\ m.in \in DOMAIN setting.files \cup {"stdin"} /\ ~(m.excl /\ m.of \in DOMAIN setting.files)

\* Sets that their spelling stands for; an escaped dash (see ForElement) is left out.
TrPlain(c) ==
  /\ TrArgsOK(c.flags, c.args)
  /\ \A i \in DOMAIN c.args : \A e \in ToSet(c.args[i]) : e.lo <= e.hi /\ e.text # <<Backslash, Dash>>

Plain(c) ==
  CASE c.name = "dd" -> DdPlain(c)
    [] c.name = "tr" -> TrPlain(c)
    [] c.name = "wc" -> Len(c.args) <= 1
    [] c.name = "head" -> IsInjective(c.args)
    [] OTHER -> TRUE

Quiet ==
  /\ setting.refused = {} /\ ~setting.interrupt
  /\ \A p, q \in DOMAIN setting.cmds : Ins(Cmd(p)) \cap Outs(Cmd(q)) = {}
  /\ \A p \in DOMAIN setting.cmds : Plain(Cmd(p))

-------------------------------------------------------------------------------
Init ==
  /\ setting \in Settings
  /\ pipe = [p \in 1..(Len(setting.cmds) + 1) |-> IF p = 1 THEN setting.input ELSE <<>>]
  /\ heard = [p \in DOMAIN setting.cmds |-> 0]
  /\ file = setting.files
  /\ pos = [p \in DOMAIN setting.cmds |-> 0]
  /\ ended = {}
  /\ proc = [p \in DOMAIN setting.cmds |-> Idle]
  /\ meant = [quiet |-> Quiet, text |-> IF Quiet THEN PipelineText ELSE <<>>]

Step(p) ==
  \/ Begin(p) \/ OpenInput(p) \/ OpenOutput(p) \/ OpenDd(p) \/ SeekDd(p) \/ Finish(p)
  \/ Read(p) \/ ReadEnds(p) \/ Yes(p)
  \/ Pour(p) \/ NextChunk(p) \/ Round(p) \/ PrintReport(p)
  \/ Write(p) \/ Exit(p)

Done == ended = Proc /\ UNCHANGED vars

Next == (\E p \in Proc : Step(p)) \/ Interrupt \/ Done

Spec == Init /\ [][Next]_vars /\ \A p \in 1..Longest : WF_vars(p \in Proc /\ Step(p))

-------------------------------------------------------------------------------
(***************************************************************************)
(* What the commands promise.                                              *)
(***************************************************************************)
\* However the reads and writes are cut and interleaved, and whoever ends first: what
\* comes out of a pipeline is always the beginning of what the composition of its
\* programs makes of the input, in the end it is all of it, and every pipeline ends,
\* also when calls are refused, and when a program before an early end would never stop.
Output == INSTANCE Transfer WITH
            text <- meant.text,
            out <- IF meant.quiet THEN pipe[N + 1] ELSE <<>>,
            closed <- ended = Proc
OutputIsMeant == Output!Spec

(***************************************************************************)
(* tee, and cat without operands or options.                               *)
(***************************************************************************)
\* What p has read and not written yet: stdout is the last call of a turn.
Held(p) ==
  LET s == proc[p]
      bytes == s.todo[Len(s.todo)].bytes
  IN  CASE s.at = "write" /\ Len(s.todo) = 1 -> SubSeq(bytes, s.moved + 1, Len(bytes))
        [] s.at = "write" /\ Len(s.todo) > 1 -> bytes
        [] OTHER -> <<>>

Passes(p) == Copies(p) /\ (Cmd(p).name = "cat" => Cmd(p).args = <<>>)

\* A copying program never loses, doubles or moves a byte: what it has written and
\* what it holds is what it has read, in every state, whatever happens around it,
\* unless a write fails or is short, which cat and tee do not look at (cat.c:63, tee.c:69).
Conserved ==
  \A p \in Proc : Passes(p) /\ proc[p].ret # Killed /\ ~May("write") /\ ~May("short") =>
    pipe[p + 1] \o Held(p) = SubSeq(pipe[p], 1, heard[p])

\* An output of tee that fails does not keep anything from the others: after each
\* turn, and when tee returns, each file that has not failed has, behind what it had
\* with -a, all that tee has read. A status of 0 means that the input has ended and no
\* output failed. (Not for short writes, which tee takes for whole ones, nor for tee -a
\* with one name twice, which appends twice.)
Alone(p, f) == \A q \in Proc : q # p => f \notin Outs(Cmd(q))
TeeReachesAll ==
  \A p \in Proc : Cmd(p).name = "tee" /\ ~May("short") /\ proc[p].ret # Killed =>
    LET s == proc[p]
        old(f) == IF Given(p, "append") /\ f \in DOMAIN setting.files THEN setting.files[f] ELSE <<>>
    IN  /\ s.at \in {"read", "exit"} =>
             \A i \in DOMAIN s.fds : s.fds[i].name # "failed" /\ Alone(p, s.fds[i].name) /\ (Given(p, "append") => IsInjective(Cmd(p).args)) =>
               file[s.fds[i].name] = old(s.fds[i].name) \o SubSeq(pipe[p], 1, heard[p])
        /\ p \in ended /\ s.ret = 0 =>
             /\ Len(s.fds) = Len(Cmd(p).args) /\ pipe[p + 1] = SubSeq(pipe[p], 1, heard[p])
             /\ May("read") \/ NoMore(p, "stdin")

\* A status of 0 of dd means that its output holds exactly the blocks that count asks
\* for, at the place that seek gives, however the reads and writes were cut: short
\* writes, too, are continued, and no failed one is forgotten.  (Nobody else writes to
\* its files, and its input is shorter than SIZE_MAX by some blocks.)
DdIsExact ==
  \A p \in ended : Cmd(p).name = "dd" /\ proc[p].ret = 0 /\ DdPlain(Cmd(p)) /\ ~May("read") =>
    LET m == Operands(Cmd(p).args)
        copy == DdCopy(m, pipe[p])
        old == IF ~m.trunc /\ m.of \in DOMAIN setting.files THEN setting.files[m.of] ELSE <<>>
    IN  Alone(p, m.in) /\ Len(DdText(m, pipe[p])) + 3 * Bs(m) <= SIZE_MAX =>
        IF m.of = "stdout" THEN IsPrefix(copy, pipe[p + 1]) /\ IsPrefix(pipe[p + 1], Meaning(p, pipe[p]))
        ELSE m.of # m.in /\ Alone(p, m.of) => file[m.of] = IF copy = <<>> THEN old ELSE Patched(old, m.obs * m.oseek, copy)

\* One operand that cannot be opened does not keep the others from being read (see
\* Meaning), and is not forgotten by the status. (Another program may make the file.)
StatusTells ==
  \A p \in ended : Cmd(p).name \in {"cat", "head", "wc", "hex"} /\ setting.refused = {} /\ proc[p].ret # Killed =>
    LET missing == Ins(Cmd(p)) \ DOMAIN setting.files
    IN  /\ missing = {} => proc[p].ret = 0
        /\ missing # {} /\ (\A q \in Proc : missing \cap Outs(Cmd(q)) = {}) => proc[p].ret = 1

\* "count=N : copy only up to N input block" (dd.c:22).
CountIsKept ==
  \A p \in Proc : Cmd(p).name = "dd" /\ p \in ended =>
    LET m == Operands(Cmd(p).args) IN m.in = "stdin" => heard[p] <= m.ibs * m.count
===============================================================================
