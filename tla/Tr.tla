---------------------------------- MODULE Tr ----------------------------------
(***************************************************************************)
(* src/tr.c: the sets of characters and what happens to a byte.  A set is  *)
(* a string of characters, escapes like \n and ranges like a-z, and tr     *)
(* reads it with two parsers: find_index says which element a byte is in,  *)
(* for_index what stands at that place of the other set.  Characters are   *)
(* their codes.                                                            *)
(***************************************************************************)
EXTENDS Integers, SequencesExt

\* Op(x).  (TLC evaluates x once, where a LET is evaluated at every use in ENABLED.)
Using(x, Op(_)) == CHOOSE r \in {Op(y) : y \in {x}} : TRUE

Dash      == 45
Backslash == 92

\* crtl_from_char: \a \b \f \n \r \t \v, and any other character for itself.
Control == [c \in {97, 98, 102, 110, 114, 116, 118} |->
              CASE c = 97 -> 7 [] c = 98 -> 8 [] c = 102 -> 12 [] c = 110 -> 10
                [] c = 114 -> 13 [] c = 116 -> 9 [] c = 118 -> 11]
crtl_from_char(c) == IF c \in DOMAIN Control THEN Control[c] ELSE c

\* The type char is signed, getchar's result is not.
Char(b) == IF b >= 128 THEN b - 256 ELSE b

IsRange(str, i) == i + 2 <= Len(str) /\ str[i + 1] = Dash
Element(lo, hi, width) == [lo |-> lo, hi |-> hi, width |-> width]

\* The element at place i as for_index reads it: ranges before escapes.
ForElement(str, i) ==
  CASE IsRange(str, i) -> Element(Char(str[i]), Char(str[i + 2]), 3)
    [] ~IsRange(str, i) /\ str[i] = Backslash /\ i < Len(str) ->
         Element(Char(crtl_from_char(str[i + 1])), Char(crtl_from_char(str[i + 1])), 2)
    [] OTHER -> Element(Char(str[i]), Char(str[i]), 1)

\* The element at place i as find_index reads it: escapes before ranges.
FindElement(str, i) ==
  IF str[i] = Backslash /\ i < Len(str)
  THEN Element(Char(crtl_from_char(str[i + 1])), Char(crtl_from_char(str[i + 1])), 2)
  ELSE ForElement(str, i)

\* The elements of a string, from left to right.
Elements(El(_, _), str) ==
  LET from[i \in 1..(Len(str) + 1)] ==
        IF i > Len(str) THEN <<>> ELSE <<El(str, i)>> \o from[i + El(str, i).width]
  IN  from[1]

None    == [index |-> -1, offset |-> 0]
Reversed == [index |-> -2, offset |-> 0]   \* "range is in reverse order": exit(1)

\* (An index counts from 1.)
find_index(str, c) ==
  LET els   == Elements(FindElement, str)
      stops == {n \in DOMAIN els : els[n].lo > els[n].hi \/ c \in els[n].lo..els[n].hi}
      first == CHOOSE n \in stops : \A m \in stops : n <= m
  IN  CASE stops = {} -> None
        [] stops # {} /\ els[first].lo > els[first].hi -> Reversed
        [] OTHER -> [index |-> first, offset |-> c - els[first].lo]

ForIndexPastRange(str, index, offset) ==
  LET els == Elements(ForElement, str)
  IN  IF index > Len(els) THEN 0 ELSE els[index].lo + offset

for_index(str, index, offset) ==
  LET els == Elements(ForElement, str)
  IN  CASE index > Len(els) -> 0
        [] index <= Len(els) /\ offset >= els[index].hi - els[index].lo -> els[index].hi
        [] OTHER -> els[index].lo + offset

(***************************************************************************)
(* tr_main: its check of the arguments, and one turn of its loop, in which *)
(* s is what has been printed, last_out, and whether exit(1) was called.   *)
(***************************************************************************)
TrArgsOK(flags, args) ==
  /\ Len(args) \in {1, 2}
  /\ "delete" \in flags => (Len(args) = 2 <=> "squeeze" \in flags)
  /\ "delete" \notin flags /\ Len(args) = 1 => "squeeze" \in flags

TrByte(flags, args, s, byte) ==
  Using(find_index(args[1], byte), LAMBDA found :
  Using(IF found.index > 0 /\ Len(args) = 2 THEN for_index(args[2], found.index, found.offset) ELSE byte, LAMBDA c :
  Using(find_index(args[Len(args)], c), LAMBDA again :
    LET deleted  == found.index > 0 /\ "delete" \in flags
        wrong    == found = Reversed \/ (~deleted /\ again = Reversed)
        repeated == again.index > 0 /\ c = s.last_out /\ "squeeze" \in flags
    IN  IF s.stop THEN s
        ELSE IF wrong THEN [s EXCEPT !.stop = TRUE]
        ELSE IF deleted \/ repeated THEN s
        ELSE [s EXCEPT !.out = Append(@, c % 256), !.last_out = c])))

(***************************************************************************)
(* What tr is to do: a set is a sequence of elements, each with a way to   *)
(* spell it, and a character of the k-th element of SET1 becomes the one   *)
(* that stands as far into the k-th element of SET2.                       *)
(***************************************************************************)
Bare(c)        == [lo |-> c, hi |-> c, text |-> <<c>>]
Escaped(c)     == [lo |-> crtl_from_char(c), hi |-> crtl_from_char(c), text |-> <<Backslash, c>>]
Between(a, b)  == [lo |-> a, hi |-> b, text |-> <<a, Dash, b>>]

Spelled(set) == FlattenSeq([k \in DOMAIN set |-> set[k].text])

Holders(set, c) == {k \in DOMAIN set : c \in set[k].lo..set[k].hi}

Translated(from, to, c) ==
  IF Holders(from, c) = {} THEN c
  ELSE LET k == CHOOSE k \in Holders(from, c) : \A j \in Holders(from, c) : k <= j
           d == c - from[k].lo
       IN  CASE k > Len(to) -> 0
             [] k <= Len(to) /\ d >= to[k].hi - to[k].lo -> to[k].hi
             [] OTHER -> to[k].lo + d

\* Without the bytes to be deleted, each translated, and of equal neighbours in
\* the last set one if they are to be squeezed.
TrMeaning(flags, sets, text) ==
  LET kept  == IF "delete" \in flags THEN SelectSeq(text, LAMBDA c : Holders(sets[1], c) = {}) ELSE text
      moved == IF Len(sets) = 1 \/ "delete" \in flags THEN kept
               ELSE [i \in DOMAIN kept |-> Translated(sets[1], sets[2], kept[i])]
      first(i) == i = 1 \/ moved[i] # moved[i - 1] \/ Holders(sets[Len(sets)], moved[i]) = {}
  IN  IF "squeeze" \notin flags THEN moved
      ELSE FoldLeft(LAMBDA r, i : IF first(i) THEN Append(r, moved[i]) ELSE r, <<>>, [i \in DOMAIN moved |-> i])
===============================================================================
