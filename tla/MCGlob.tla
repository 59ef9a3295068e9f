-------------------------------- MODULE MCGlob --------------------------------
(* All short patterns and strings for Glob, and some longer patterns. *)
EXTENDS Glob, SequencesExt

Glyphs == {"a", "b", "*", "?"}

\* Patterns with two stars and a part between them that can match in several places.
Long == {<<"*", "a", "*", "b">>, <<"*", "a", "b", "*">>, <<"a", "*", "a", "*">>, <<"*", "?", "*", "a">>}

MCPatterns == SeqOf(Glyphs, 3) \cup Long
MCStrings  == SeqOf({"a", "b"}, 4) \cup {<<"*">>, <<"?", "a">>}
===============================================================================
