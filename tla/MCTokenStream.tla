--------------------------- MODULE MCTokenStream ---------------------------
(* Texts for model checking TokenStream.                                     *)
EXTENDS TokenStream

CONSTANTS Chars, MaxLength,             \* bound: the texts of so many characters,
          CommentChars, MaxComment      \* and longer ones made of fewer characters

Upto(n, C) == UNION {[1..k -> C] : k \in 0..n}
MCTexts == Upto(MaxLength, Chars) \cup Upto(MaxComment, CommentChars)
=============================================================================
