----------------------------- MODULE StmtParser -----------------------------
(***************************************************************************)
(* The statement parser of CompilingContext (parser_AST_Gen.cpp): the body *)
(* of a function as ParseCodeDomain, ParseSingleExpression, Exp_If::Parse, *)
(* Exp_For::Parse and Exp_VarDef::Parse read it, one calling the other.    *)
(* Tokens are abstract:                                                    *)
(*   "stmt"  a return, expression or variable definition with its ";"      *)
(*   "cut"   a piece that is given up without a message: a definition with *)
(*           no ";" behind it, a return of a broken expression, a for with *)
(*           no "(" behind it                                              *)
(*   "junk"  anything that is refused with a message                       *)
(*   "if"    "if (" condition ")"                                          *)
(*   "for"   "for (" start ";" condition ";" step ")"                      *)
(* "else", and "lbrace" and "rbrace" for the braces.                       *)
(***************************************************************************)
EXTENDS Naturals, Sequences

Tokens == {"stmt", "cut", "junk", "if", "else", "for", "lbrace", "rbrace"}

CONSTANT Inputs         \* the token sequences that may stand for a function body
ASSUME InputsAssumption == Inputs \subseteq Seq(Tokens)

VARIABLES tokens,
          blank,        \* is there white space or a comment behind the last token?
          phase, result
vars == <<tokens, blank, phase, result>>

Token(p) == IF p <= Len(tokens) THEN tokens[p] ELSE "eof"

\* GetNextToken stays at the end of the text.
Past(p) == IF Token(p) = "eof" THEN p ELSE p + 1

\* CompilingContext::IsEOF looks at the next character, not at the next token.
IsEOF(p) == p > Len(tokens) /\ ~blank

\* `said': an error message was added; `wrong': a token that is no "}" was eaten as one.
Ok(next, tree, wrong) ==
    [ok |-> TRUE, next |-> next, tree |-> tree, said |-> FALSE, wrong |-> wrong]
Failed(next, said, wrong) ==
    [ok |-> FALSE, next |-> next, tree |-> <<>>, said |-> said, wrong |-> wrong]

\* The calls of the parse functions: ParseSingleExpression for a statement of a block or
\* for one that stands alone, the loop of ParseCodeDomain from a statement on, and
\* ParseCodeDomain.  Each is defined by the results R of the calls it makes.
Calls == {"inner", "alone", "rest", "domain"} \X (Nat \ {0})

\* The loop of ParseCodeDomain: statements up to the first that fails, which is an
\* error only when there is a message.
Behind(s, rest) ==
    IF rest.ok THEN Ok(rest.next, <<s.tree>> \o rest.tree, s.wrong \/ rest.wrong)
    ELSE Failed(rest.next, rest.said, s.wrong \/ rest.wrong)
Statements(R, p) ==
    LET s == R[<<"inner", p>>] IN
    IF s.ok THEN Behind(s, R[<<"rest", s.next>>])
    ELSE IF s.said THEN Failed(s.next, TRUE, s.wrong)
    ELSE Ok(s.next, <<>>, s.wrong)

\* ParseCodeDomain: "{" at its start makes it one nested block and nothing else.
Braced_Silent(d) ==
    IF ~d.ok THEN d
    ELSE IF Token(d.next) # "rbrace" THEN Failed(d.next, FALSE, d.wrong)
    ELSE Ok(d.next + 1, << <<"block", d.tree>> >>, d.wrong)
Braced_Unchecked(d) ==
    IF ~d.ok THEN d ELSE Ok(d.next + 1, << <<"block", d.tree>> >>, d.wrong)
Braced(d) ==
    IF ~d.ok THEN d
    ELSE IF Token(d.next) # "rbrace" THEN Failed(d.next, TRUE, d.wrong)
    ELSE Ok(d.next + 1, << <<"block", d.tree>> >>, d.wrong)

Domain(R, p) ==
    IF IsEOF(p) THEN Failed(p, FALSE, FALSE)
    ELSE IF Token(p) = "lbrace" THEN Braced(R[<<"domain", p + 1>>])
    ELSE R[<<"rest", p>>]

\* One branch of an if: a block, whose last token is eaten unseen, or one statement.
Alone(s) == IF s.ok THEN s ELSE Failed(s.next, TRUE, s.wrong)
BranchEnd_PastEnd(d) ==
    IF d.ok THEN Ok(d.next + 1, <<"block", d.tree>>, d.wrong \/ Token(d.next) # "rbrace") ELSE d
BranchEnd(d) ==
    IF d.ok THEN Ok(Past(d.next), <<"block", d.tree>>, d.wrong \/ Token(d.next) # "rbrace") ELSE d
Branch(R, p) ==
    IF Token(p) = "lbrace" THEN BranchEnd(R[<<"domain", p + 1>>]) ELSE Alone(R[<<"alone", p>>])

IfElse_Swapped(then, else) ==
    IF else.ok THEN Ok(else.next, <<"if", else.tree, then.tree>>, then.wrong \/ else.wrong) ELSE else
IfElse(then, else) ==
    IF else.ok THEN Ok(else.next, <<"if", then.tree, else.tree>>, then.wrong \/ else.wrong) ELSE else
IfParse(R, p) ==
    LET then == Branch(R, p) IN
    IF ~then.ok THEN then
    ELSE IF Token(then.next) # "else" THEN Ok(then.next, <<"if", then.tree>>, then.wrong)
    ELSE IfElse(then, Branch(R, then.next + 1))

\* The token tested for "{" is the first one of the step expression, read before it,
\* and no expression starts with "{": the body is always one statement.  Behind a bad one
\* another token is eaten.
ForParse(R, p) ==
    LET s == R[<<"alone", p>>] IN
    IF s.ok THEN Ok(s.next, <<"for", s.tree>>, s.wrong) ELSE Failed(Past(s.next), TRUE, s.wrong)

\* ParseSingleExpression in a function body; what it does not know is refused as a
\* value expression, with a message.
Single(R, p, end) ==
    LET t == Token(p) IN
    CASE t \in {"eof", end} -> Failed(p, FALSE, FALSE)
      [] t = "stmt" -> Ok(p + 1, <<"stmt">>, FALSE)
      [] t = "cut" -> Failed(p + 1, FALSE, FALSE)
      [] t = "if" -> IfParse(R, p + 1)
      [] t = "for" -> ForParse(R, p + 1)
      [] OTHER -> Failed(p, TRUE, FALSE)

Call(R, what, p) ==
    CASE what = "inner" -> Single(R, p, "rbrace")
      [] what = "alone" -> Single(R, p, "semicolon")
      [] what = "rest" -> Statements(R, p)
      [] what = "domain" -> Domain(R, p)
Parsed[c \in Calls] == Call(Parsed, c[1], c[2])

\* Exp_FunctionDecl::Parse has read the "{" when it calls ParseCodeDomain.
FunctionBody ==
    IF IsEOF(2) THEN Failed(2, FALSE, FALSE) ELSE Parsed[<<"domain", 1>>]

Init ==
    /\ tokens \in {s \in Inputs : s # <<>> /\ s[1] = "lbrace"} /\ blank \in BOOLEAN
    /\ phase = "start" /\ result = Failed(1, FALSE, FALSE)

Parse ==
    /\ phase = "start" /\ phase' = "done"
    /\ result' = FunctionBody
    /\ UNCHANGED <<tokens, blank>>

Next == Parse
Spec == Init /\ [][Next]_vars

\* CompilingContext::Parse, for a text that is this one function: what follows a body
\* that was read is refused with a message; a body that was not may have been
\* given up without one.
Silent == IF result.ok THEN result.next > Len(tokens) ELSE ~result.said
Accepted == Silent /\ (result.ok \/ IsEOF(result.next))

-----------------------------------------------------------------------------
(* What a function body is: the reference.  It is the compound statement of *)
(* C, whatever the parser makes of it: a block is a statement like others,  *)
(* which may stand among them, in a branch and in a for.                    *)

Joined(A, B) == {a \o b : a \in A, b \in B}
Splits(A, B, n) == UNION {Joined(A[m], B[n - m]) : m \in 0..n}

\* Sentences by length: G.stmt[m] statements and G.list[m] statement lists of m tokens.
NoSentences == [stmt |-> [m \in {0} |-> {}], list |-> [m \in {0} |-> {<<>>}]]
BlocksOf(G, n) == IF n < 2 THEN {} ELSE Joined(Joined({<<"lbrace">>}, G.list[n - 2]), {<<"rbrace">>})
ElsesOf(G, n) == [m \in 0..n |-> IF m = 0 THEN {} ELSE Joined({<<"else">>}, G.stmt[m - 1])]
StatementsOf(G, n) ==
    (IF n = 1 THEN {<<"stmt">>} ELSE {}) \cup BlocksOf(G, n)
    \cup Joined({<<"if">>}, G.stmt[n - 1] \cup Splits(G.stmt, ElsesOf(G, n - 1), n - 1))
    \cup Joined({<<"for">>}, G.stmt[n - 1])
ListsOf(G, n, stmts) == stmts \cup UNION {Joined(G.stmt[m], G.list[n - m]) : m \in 1..(n - 1)}

\* From the sentences of fewer than n tokens, those of n as well.
Longer(G, n) ==
    LET stmts == StatementsOf(G, n)
        With(S, X) == [m \in 0..n |-> IF m < n THEN S[m] ELSE X]
    IN  [stmt |-> With(G.stmt, stmts), list |-> With(G.list, ListsOf(G, n, stmts))]
Grammar[n \in Nat] == IF n = 0 THEN NoSentences ELSE Longer(Grammar[n - 1], n)

Bodies(n) == BlocksOf(Grammar[n], n)

\* Two things C has and this parser has not.  A for whose body is a block:
ForHasBlock == \E p \in 1..(Len(tokens) - 1) : tokens[p] = "for" /\ tokens[p + 1] = "lbrace"
\* And a block, of the tokens from p up to and without q, with a statement in front of it
\* or, when it comes first in its braces, behind it:
BlockAmong ==
    \E p \in 2..Len(tokens) : \E q \in (p + 1)..Len(tokens) :
        /\ \/ tokens[p - 1] \in {"stmt", "rbrace"}
           \/ tokens[p - 1] = "lbrace" /\ tokens[q] # "rbrace"
        /\ SubSeq(tokens, p, q - 1) \in Bodies(q - p)

(* Which trees the tokens from i up to and without j may have.  As in C, an *)
(* else belongs to the nearest if: the statement between the two is closed, *)
(* which is to say that an else behind it would not be its own.             *)

Places == Nat \ {0}
Spans == {"closed", "open", "list"} \X Places \X Places

\* A for, and an if with an else, end in a statement of the kind they are of.
ForTrees(T, kind, i, j) ==
    IF Token(i) = "for" /\ i + 1 < j THEN {<<"for", t>> : t \in T[<<kind, i + 1, j>>]} ELSE {}
ElseTrees(T, kind, i, j) ==
    IF Token(i) = "if"
    THEN UNION {{<<"if", a, b>> : a \in T[<<"closed", i + 1, m>>], b \in T[<<kind, m + 1, j>>]} :
                   m \in {m \in (i + 2)..(j - 2) : Token(m) = "else"}}
    ELSE {}
BlockTrees(T, i, j) ==
    IF Token(i) = "lbrace" /\ i + 1 < j /\ Token(j - 1) = "rbrace"
    THEN {<<"block", l>> : l \in T[<<"list", i + 1, j - 1>>]} ELSE {}
ClosedTrees(T, i, j) ==
    (IF Token(i) = "stmt" /\ j = i + 1 THEN {<<"stmt">>} ELSE {})
    \cup BlockTrees(T, i, j) \cup ForTrees(T, "closed", i, j) \cup ElseTrees(T, "closed", i, j)
OpenTrees(T, i, j) ==
    (IF Token(i) = "if" /\ i + 1 < j
     THEN {<<"if", t>> : t \in T[<<"closed", i + 1, j>>] \cup T[<<"open", i + 1, j>>]} ELSE {})
    \cup ForTrees(T, "open", i, j) \cup ElseTrees(T, "open", i, j)
ListTrees(T, i, j) ==
    IF i = j THEN {<<>>}
    ELSE UNION {{<<s>> \o l : s \in T[<<"closed", i, m>>] \cup T[<<"open", i, m>>], l \in T[<<"list", m, j>>]} :
                   m \in (i + 1)..j}

Derived(T, what, i, j) ==
    CASE what = "closed" -> ClosedTrees(T, i, j)
      [] what = "open" -> OpenTrees(T, i, j)
      [] what = "list" -> ListTrees(T, i, j)
Trees[d \in Spans] == Derived(Trees, d[1], d[2], d[3])

Done == phase = "done"
Whole == \A p \in DOMAIN tokens : tokens[p] # "cut"
OnlyOpens == \A p \in DOMAIN tokens : tokens[p] = "lbrace"

-----------------------------------------------------------------------------
\* The state variables hold values of their types, and the parser stands at a token
\* or at the end.
TypeOK ==
    /\ tokens \in Inputs /\ blank \in BOOLEAN /\ phase \in {"start", "done"}
    /\ result.ok \in BOOLEAN /\ result.said \in BOOLEAN /\ result.wrong \in BOOLEAN
    /\ result.next \in 1..(Len(tokens) + 1)

\* A function body of C is accepted, and each "}" eaten on the way is one, with two
\* exceptions: a for whose body is a block and a block among statements are refused.
AcceptsGrammar ==
    tokens \in Bodies(Len(tokens)) /\ ~ForHasBlock /\ ~BlockAmong => Accepted /\ ~result.wrong

\* Nothing else is accepted, with three exceptions: a "}" the parser eats may be another
\* token, a piece may be given up without a message, and the text may break off behind
\* a "{".
AcceptsOnlyGrammar ==
    Accepted /\ Whole /\ ~result.wrong /\ ~OnlyOpens => tokens \in Bodies(Len(tokens))

\* ParseCodeDomain accepts the function bodies of C and nothing else, but for the two
\* exceptions of AcceptsGrammar and the three of AcceptsOnlyGrammar.
AcceptsExactly == Done => AcceptsGrammar /\ AcceptsOnlyGrammar

\* The tree of a body that was read is what stands there, all of it: no statement is
\* lost or moved, and each else belongs to the nearest if.
TreesHoldBodies ==
    Done /\ result.ok /\ Whole /\ ~result.wrong =>
        \E b \in BlockTrees(Trees, 1, result.next) : result.tree = <<b>>

\* A function that is refused is refused with a message, whatever its tokens are.
RefusalsHaveMessages == Done /\ ~Accepted => ~Silent
=============================================================================
