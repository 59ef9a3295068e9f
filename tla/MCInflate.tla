------------------------------- MODULE MCInflate -------------------------------
(* Small gzip files for Inflate. *)
EXTENDS Inflate

Gz(blocks) == [header |-> "gzip", cut |-> FALSE, blocks |-> blocks]
Lits(s)    == [i \in DOMAIN s |-> Lit(s[i])]
Abc        == Lits(<<97, 98, 200>>)

(* References of every distance up to the window's size, overlapping ones too, behind
   texts that leave the window's pointer in every place. *)
Near == {Gz(<<FixedBlock(Lits([i \in 1..k |-> 95 + i]) \o <<Ref(n, d), Lit(255), Ref(3, d)>>)>>) :
           k \in 4..9, n \in {3, 4, 10, 11, 17}, d \in 1..4}
        \cup {Gz(<<FixedBlock(Lits([i \in 1..9 |-> 95 + i]) \o <<Ref(n, d)>>)>>) : n \in {3, 12}, d \in 5..8}

(* Every length class with its ends. *)
Lengths == {Gz(<<FixedBlock(Abc \o <<Ref(n, 2), Ref(3, 3)>>)>>) :
              n \in {LengthBase(i) : i \in 0..24} \cup {12, 18, 22, 34, 66, 114, 257, 258}}

(* Blocks of both types in every order, and stored blocks at every place of a word. *)
Parts  == {StoredBlock(<<>>), StoredBlock(<<1, 2, 3>>), FixedBlock(<<>>), FixedBlock(Abc), FixedBlock(Abc \o <<Ref(4, 3)>>)}
Orders == {Gz(<<a, b>>) : a \in Parts, b \in Parts} \cup {Gz(<<a, StoredBlock(<<7>>), b>>) : a \in Parts, b \in Parts}
          \cup {Gz(<<StoredBlock([i \in 1..n |-> 5]), StoredBlock(<<9, 8>>), FixedBlock(Abc)>>) : n \in 0..4}

(* Files that are not whole, not gzip, or not handled; symbols and distances behind the tables. *)
Bare(type) == [type |-> type, bytes |-> <<>>, tokens |-> <<>>]
Wrong == {Gz(<<Bare(3)>>), Gz(<<FixedBlock(Abc), Bare(3), FixedBlock(Abc)>>), Gz(<<Bare(2), FixedBlock(Abc)>>), Gz(<<Bare(2)>>)}
         \cup {[Gz(<<b>>) EXCEPT !.header = "other"] : b \in Parts}
         \cup {[Gz(<<a, b>>) EXCEPT !.cut = TRUE] : a \in Parts, b \in Parts \ {StoredBlock(<<>>)}}
         \cup {Gz(<<FixedBlock(<<Lit(97), Lit(s)>>), FixedBlock(Abc)>>) : s \in {286, 287}}

On(p) == [cmd |-> "zcat", flags |-> {}, args |-> <<"f">>, holds |-> [f |-> p] @@ ("-" :> Gz(<<StoredBlock(<<4>>)>>))]

GzA == Gz(<<FixedBlock(Abc)>>)
GzB == Gz(<<StoredBlock(<<6>>)>>)
NoGz == [GzA EXCEPT !.header = "other"]
GzLine(c, fl, a) ==
  [cmd |-> c, flags |-> fl, args |-> a, holds |-> [f |-> GzA, g |-> GzB, h |-> NoGz, i |-> Gz(<<Bare(3)>>)] @@ ("-" :> GzB)]
GzLines == {GzLine(c, fl, a) : c \in {"gzip", "gunzip", "zcat"}, fl \in {{}, {"c"}, {"d", "k"}},
              a \in {<<>>, <<"-">>, <<"g", "none">>, <<"none", "f">>, <<"h", "f">>, <<"f", "g", "-">>, <<"i", "g">>}}

MCJobs == {On(p) : p \in Near \cup Lengths \cup Orders \cup Wrong} \cup GzLines
===============================================================================
