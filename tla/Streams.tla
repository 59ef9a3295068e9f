------------------------------- MODULE Streams -------------------------------
(***************************************************************************)
(* Files and pipes as read(2) and write(2) show them to a pipeline         *)
(*     p1 | p2 | ... | pN                                                  *)
(* in which each program may also open files.  Nothing here is code of the *)
(* repository: it is what src/cat.c, src/tee.c, src/dd.c and their         *)
(* siblings rely on.                                                       *)
(*                                                                         *)
(* pipe[p] is all that was ever written to the standard input of p, and    *)
(* heard[p] how much of it p has read; pipe[1] is the input of the whole   *)
(* and pipe[N + 1] its output.  A read may return fewer bytes than asked   *)
(* for, and a write to a pipe waits for room.                              *)
(***************************************************************************)
EXTENDS Integers, SequencesExt

CONSTANTS FileName,   \* the names of files
          PipeSize    \* how much a pipe holds

ASSUME StreamAssumption == PipeSize \in Nat \ {0} /\ {"stdin", "stdout", "failed"} \cap FileName = {}

VARIABLES pipe, heard,
          file,   \* the content of each file that exists
          pos,    \* pos[p]: the offset in the file p reads
          ended   \* the programs that have ended, and with them their ends of the pipes

streams == <<pipe, heard, file, pos, ended>>

Proc == DOMAIN heard
N == Len(heard)

Less(a, b) == IF a < b THEN a ELSE b

\* What p finds when it reads from `in`, and whether no more will come.
Waiting(p, in) ==
  IF in = "stdin" THEN SubSeq(pipe[p], heard[p] + 1, Len(pipe[p]))
                  ELSE SubSeq(file[in], pos[p] + 1, Len(file[in]))

NoMore(p, in) == Waiting(p, in) = <<>> /\ (in # "stdin" \/ p = 1 \/ p - 1 \in ended)

\* read(): k bytes of what waits.
Take(p, in, k) ==
  /\ IF in = "stdin" THEN heard' = [heard EXCEPT ![p] = @ + k] /\ UNCHANGED pos
                     ELSE pos' = [pos EXCEPT ![p] = @ + k] /\ UNCHANGED heard
  /\ UNCHANGED <<pipe, file, ended>>

(***************************************************************************)
(* A descriptor for writing has its own offset in the file, or appends.    *)
(***************************************************************************)
Stdout == [name |-> "stdout", off |-> 0, append |-> FALSE]
Opened(f, append) == [name |-> f, off |-> 0, append |-> append]

\* `bytes` at an offset: a gap reads as zeros.
Patched(old, off, bytes) ==
  [i \in 1..(IF Len(old) > off + Len(bytes) THEN Len(old) ELSE off + Len(bytes)) |->
     CASE i > off /\ i <= off + Len(bytes) -> bytes[i - off]
       [] i <= off /\ i > Len(old)         -> 0
       [] OTHER                            -> old[i]]

\* How much a pipe has room for; a file, and what stands behind the last program, takes all.
Room(p, fd, bytes) ==
  IF fd.name # "stdout" \/ p = N THEN Len(bytes)
  ELSE Less(Len(bytes), PipeSize - (Len(pipe[p + 1]) - heard[p + 1]))

Put(p, fd, bytes) ==
  /\ IF fd.name = "stdout"
     THEN pipe' = [pipe EXCEPT ![p + 1] = @ \o bytes] /\ UNCHANGED file
     ELSE file' = [file EXCEPT ![fd.name] = Patched(@, IF fd.append THEN Len(@) ELSE fd.off, bytes)]
          /\ UNCHANGED pipe
  /\ UNCHANGED <<heard, pos, ended>>

\* SIGPIPE: nobody reads any more.
Broken(p, fd) == fd.name = "stdout" /\ p < N /\ p + 1 \in ended

\* open() for writing: an existing file is emptied or kept.
Create(f, trunc) ==
  /\ file' = [g \in DOMAIN file \cup {f} |->
                IF g # f THEN file[g] ELSE IF trunc \/ f \notin DOMAIN file THEN <<>> ELSE file[f]]
  /\ UNCHANGED <<pipe, heard, pos, ended>>

\* open() for reading.
Rewind(p, off) == pos' = [pos EXCEPT ![p] = off] /\ UNCHANGED <<pipe, heard, file, ended>>

Quits(p) == ended' = ended \cup {p} /\ UNCHANGED <<pipe, heard, file, pos>>

===============================================================================
