---------------------------- MODULE TokenStream ----------------------------
(***************************************************************************)
(* The scanner of CompilingContext (parser_AST_Gen.cpp) and the buffer     *)
(* through which the parser looks ahead: ScanForToken, PeekNextToken and   *)
(* GetNextToken.  A character stands for its class: "f" the letter f or F, *)
(* "a" another letter or "_", "1" a digit, "?" one the scanner does not    *)
(* know, "=" an operator that can be doubled, ";" any other punctuation.   *)
(* String literals, which no rule of the parser uses, are left out.        *)
(***************************************************************************)
EXTENDS Integers, Sequences, FiniteSets

CONSTANTS Texts,        \* source texts, sequences of characters
          MaxAhead      \* how far ahead the parser peeks

ASSUME TextsAssumption == \A t \in Texts : t \in Seq({"a", "f", "1", "/", "*", "=", ".", ";", "?", "sp", "nl"})
ASSUME AheadAssumption == MaxAhead \in Nat

VARIABLES text,      \* mContentPtr
          ptr,       \* mCurParsingPtr
          loc,       \* mCurParsingLOC
          buffered,  \* mBufferedToken
          errors,    \* the number of mErrorMessages
          answer,    \* what the last call returned
          taken      \* the tokens the parser has taken

vars == <<text, ptr, loc, buffered, errors, answer, taken>>

\* A token is a piece of the text and its line; these two are none.
sInvalid == [from |-> 0, to |-> 0, loc |-> 0]
sEOF == [from |-> 0, to |-> 0, loc |-> -1]

End == Len(text) + 1
Char(p) == IF p < End THEN text[p] ELSE "eof"

Blanks == {"sp", "nl"}
Name == {"a", "f", "1"}

\* The first position from p on with a character in C, outside C; or the text's end.
FirstIn(p, C) == CHOOSE q \in p..End : Char(q) \in C \cup {"eof"} /\ \A r \in p..(q - 1) : Char(r) \notin C
FirstOut(p, C) == CHOOSE q \in p..End : Char(q) \notin C /\ \A r \in p..(q - 1) : Char(r) \in C

NewLines(p, q) == Cardinality({r \in p..(q - 1) : Char(r) = "nl"})

-----------------------------------------------------------------------------
(* ScanForToken: skip blanks and comments, then read one token.            *)

\* A block comment ends at the first "/" with an asterisk anywhere before it.
CommentClose_AnySlash(p) == FirstIn(p, {"/"})
CommentClose(p) == FirstIn(FirstIn(p, {"*"}), {"/"})

\* One round of the loop that skips, over blanks from p to b and a comment there:
\* where it ends, how many lines it counted, and whether the text ended inside it.
Round_BlankLines(p, b) ==
    LET q == CommentClose(b + 2)
        n == FirstIn(b + 2, {"nl"})
        Newline == IF n = End THEN 0 ELSE 1
    IN  CASE Char(b) = "/" /\ Char(b + 1) = "*" ->
                [to |-> IF q = End THEN q ELSE q + 1, lines |-> NewLines(p, b), open |-> q = End]
          [] Char(b) = "/" /\ Char(b + 1) = "/" ->
                [to |-> n + Newline, lines |-> NewLines(p, b) + Newline, open |-> FALSE]
          [] OTHER -> [to |-> b, lines |-> NewLines(p, b), open |-> FALSE]
Round(p, b) ==
    LET q == CommentClose(b + 2)
        n == FirstIn(b + 2, {"nl"})
        Newline == IF n = End THEN 0 ELSE 1
    IN  CASE Char(b) = "/" /\ Char(b + 1) = "*" ->
                [to |-> IF q = End THEN q ELSE q + 1, lines |-> NewLines(p, q), open |-> q = End]
          [] Char(b) = "/" /\ Char(b + 1) = "/" ->
                [to |-> n + Newline, lines |-> NewLines(p, b) + Newline, open |-> FALSE]
          [] OTHER -> [to |-> b, lines |-> NewLines(p, b), open |-> FALSE]

\* Round after round, until one skips nothing or ends inside a comment.
Onwards(q, r, S) ==
    IF r.to = q \/ r.open THEN r ELSE [S[r.to] EXCEPT !.lines = @ + r.lines]
Skip[q \in 1..End] == Onwards(q, Round(q, FirstOut(q, Blanks)), Skip)

WordEnd(p) == FirstOut(p, Name)

\* Where a number's fraction ends that begins at p: it may be empty, and an "f" may follow.
FractionEnd(p) == LET d == FirstOut(p, {"1"}) IN IF Char(d) = "f" THEN d + 1 ELSE d

\* Where the token at p ends: a doubled operator, one character, a name or a number.
TokenEnd(p) ==
    LET w == WordEnd(p) IN
    IF Char(p) = "=" /\ Char(p + 1) = "=" THEN p + 2
    ELSE IF Char(p) \notin Name THEN p + 1
    ELSE IF Char(p) = "1" /\ Char(w) = "." THEN FractionEnd(w + 1)
    ELSE w

\* A word that starts with a digit and holds a letter is no token.
Misnamed(p) == Char(p) = "1" /\ \E r \in p..(WordEnd(p) - 1) : Char(r) # "1"

\* The token behind what was skipped.
ScanBehind(s, line) ==
    LET stop == [ptr |-> s.to, loc |-> line + s.lines, valid |-> FALSE, message |-> s.open, token |-> <<>>]
    IN  IF s.open \/ s.to = End THEN stop
        ELSE IF Misnamed(s.to) THEN [stop EXCEPT !.ptr = WordEnd(s.to), !.message = TRUE]
        ELSE [stop EXCEPT !.ptr = TokenEnd(s.to), !.valid = TRUE,
                          !.token = [from |-> s.to, to |-> TokenEnd(s.to), loc |-> line + s.lines]]

Scan(p, line) == ScanBehind(Skip[p], line)

-----------------------------------------------------------------------------
Init ==
    /\ text \in Texts /\ ptr = 1 /\ loc = 1
    /\ buffered = <<>> /\ errors = 0 /\ answer = sEOF /\ taken = <<>>

\* PeekNextToken scans the tokens that are missing, up to the first that is invalid.
Missing_OneMore(i) == IF Len(buffered) <= i THEN i - Len(buffered) + 2 ELSE 0
Missing(i) == IF Len(buffered) <= i THEN i - Len(buffered) + 1 ELSE 0

Buffered(f, t) ==
    [ptr |-> t.ptr, loc |-> t.loc, more |-> t.valid,
     buffered |-> IF t.valid THEN Append(f.buffered, t.token) ELSE f.buffered,
     errors |-> IF t.message THEN f.errors + 1 ELSE f.errors]
OneMore(f) == IF f.more THEN Buffered(f, Scan(f.ptr, f.loc)) ELSE f

Current == [ptr |-> ptr, loc |-> loc, buffered |-> buffered, errors |-> errors, more |-> TRUE]
AfterScans[k \in Nat] == IF k = 0 THEN Current ELSE OneMore(AfterScans[k - 1])
Filled(i) == AfterScans[Missing(i)]

Answered(i, f) ==
    IF i < Len(f.buffered) THEN f.buffered[i + 1] ELSE IF f.errors = 0 THEN sEOF ELSE sInvalid

Peek(i) ==
    \E f \in {Filled(i)} :
    /\ ptr' = f.ptr /\ loc' = f.loc /\ buffered' = f.buffered /\ errors' = f.errors
    /\ answer' = Answered(i, f)
    /\ UNCHANGED <<text, taken>>

\* GetNextToken peeks at the next token and, when it is valid, takes it.
Erased_Last(b) == IF b = <<>> THEN b ELSE SubSeq(b, 1, Len(b) - 1)
Erased(b) == IF b = <<>> THEN b ELSE Tail(b)

Get ==
    \E f \in {Filled(0)} :
    /\ ptr' = f.ptr /\ loc' = f.loc /\ errors' = f.errors /\ answer' = Answered(0, f)
    /\ buffered' = Erased(f.buffered)
    /\ taken' = IF f.buffered = <<>> THEN taken ELSE Append(taken, f.buffered[1])
    /\ UNCHANGED text

Next == Get \/ \E i \in 0..MaxAhead : Peek(i)

Spec == Init /\ [][Next]_vars

-----------------------------------------------------------------------------
Tokens == [from : 1..End, to : 2..End, loc : Nat]

Known == taken \o buffered

\* The state variables hold values of their types; the scanner stays inside the text
\* and the parser never has more tokens in hand than it looks ahead.
TypeOK ==
    /\ text \in Texts /\ ptr \in 1..End /\ loc \in 1..End /\ errors \in Nat
    /\ buffered \in Seq(Tokens) /\ Len(buffered) <= MaxAhead + 1
    /\ taken \in Seq(Tokens) /\ answer \in Tokens \cup {sEOF, sInvalid}

\* Messages are placed by line (mLOC): a token's line is one more than the number of
\* line ends in front of it, through any mix of comments and blanks.
LineNumbers == \A k \in DOMAIN Known : Known[k].loc = 1 + NewLines(1, Known[k].from)

\* C's comments: the kind of comment a position is in, and where it starts.
Over(last, p) ==
    \/ last.kind = "code"
    \/ last.kind = "line" /\ Char(p - 1) = "nl"
    \/ last.kind = "block" /\ p > last.from + 3 /\ Char(p - 2) = "*" /\ Char(p - 1) = "/"
Opened(p) ==
    IF Char(p) = "/" /\ Char(p + 1) = "*" THEN "block"
    ELSE IF Char(p) = "/" /\ Char(p + 1) = "/" THEN "line" ELSE "code"
CommentAt[p \in 1..End] ==
    IF p = 1 \/ Over(CommentAt[p - 1], p) THEN [kind |-> Opened(p), from |-> p] ELSE CommentAt[p - 1]

Covered == UNION {Known[k].from .. (Known[k].to - 1) : k \in DOMAIN Known}
Code == {p \in 1..(ptr - 1) : CommentAt[p].kind = "code" /\ Char(p) \notin Blanks}

\* The tokens scanned so far are the code of the text and no part of its comments,
\* unless a message says that some of it is no token.
CommentsHidden == errors = 0 => Covered = Code

\* No block comment holds a "/" that does not end it.
PlainComments ==
    \A p \in 1..Len(text) :
        CommentAt[p].kind = "block" /\ Char(p) = "/" => p = CommentAt[p].from \/ Char(p - 1) = "*"

\* ScanForToken hides the comments, and nothing else, of every text with such
\* comments only.
PlainCommentsHidden == PlainComments => CommentsHidden

-----------------------------------------------------------------------------
(* The scanner and its buffer implement one queue of tokens.               *)

\* The tokens that scanning from here on will give, the text that is none left out.
Behind(t, R) ==
    IF t.valid THEN <<t.token>> \o R[t.ptr] ELSE IF t.ptr = End THEN <<>> ELSE R[t.ptr]
TokensFrom[p \in 1..End] == Behind(Scan(p, 1 + NewLines(1, p)), TokensFrom)
Remaining == TokensFrom[ptr]

Queue == INSTANCE TokenQueue WITH rest <- buffered \o Remaining

\* Looking ahead changes nothing the parser will see later: any order of peeks and
\* takes reads the same tokens, and a peek past text that is no token says so once.
QueueSpec == Queue!Spec
=============================================================================
