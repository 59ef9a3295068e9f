-------------------------------- MODULE MCXargs --------------------------------
(* Small inputs and options for Xargs. *)
EXTENDS Xargs

W(word, style) == [word |-> word, style |-> style]

\* Words that each need some way of quoting, and the ways that spell them.
Spellings ==
  {W(<<"a">>, "bare"), W(<<"a", "b">>, "bare"), W(<<"a">>, "escaped"), W(<<>>, "single"),
   W(<<"\"", " ">>, "single"), W(<<"'", "\\">>, "double"), W(<<" ", "a">>, "double"),
   W(<<"'", "\"">>, "escaped")}

\* Lines of one or two words; two of them, so that batches end within and
\* between lines.
Lines == {<<w>> : w \in Spellings} \cup {<<w, W(<<"b">>, "bare")>> : w \in Spellings}

Options == {[flags |-> {}, max_args |-> 0, max_lines |-> 0]}
           \cup {[flags |-> {"max_args"}, max_args |-> n, max_lines |-> 0] : n \in 0..3}
           \cup {[flags |-> {"max_lines"}, max_args |-> 0, max_lines |-> 1]}

Case(o, text, newline) == [flags |-> o.flags, max_args |-> o.max_args, max_lines |-> o.max_lines,
                           lines |-> text.lines, trails |-> text.trails, newline |-> newline]

Ended(lines) == [lines |-> lines, trails |-> [i \in DOMAIN lines |-> <<>>]]
A == W(<<"a">>, "bare")
B == W(<<"b">>, "bare")

\* Any two lines; three with a blank behind the words of one of them, or with one
\* that has no word, or only a blank.
Texts == {Ended(<<k, l>>) : k \in Lines, l \in Lines}
         \cup {[lines |-> <<<<A>>, <<w>>, <<B>>>>, trails |-> <<r, s, <<>>>>] :
                 w \in Spellings, r \in {<<>>, <<" ">>}, s \in {<<>>, <<"\t">>}}
         \cup {[lines |-> <<k, l, m>>, trails |-> <<<<>>, s, <<>>>>] :
                 k \in {<<>>, <<A>>}, l \in {<<>>, <<B>>}, m \in {<<>>, <<A>>}, s \in {<<>>, <<" ">>}}

\* No input, an open quote, a line of a blank, a line longer than the buffer.
Odd == {<<>>, <<<<A>>, <<W(<<"b">>, "open")>>>>, <<<<W(<<" ">>, "bare")>>>>,
        <<<<A>>, <<W(<<"a", "b", "a", "b", "a", "b", "a", "b", "a", "b">>, "bare")>>>>}

MCSettings == {Case(o, text, n) : o \in Options, n \in BOOLEAN,
                                  text \in Texts \cup {Ended(lines) : lines \in Odd}}

\* The scene of the disagreement: an empty line between two others.
Empty == {Case([flags |-> {}, max_args |-> 0, max_lines |-> 0], Ended(<<<<A>>, <<>>, <<B>>>>), TRUE)}

===============================================================================
