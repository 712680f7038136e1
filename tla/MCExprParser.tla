---------------------------- MODULE MCExprParser ----------------------------
(* Token sets and inputs for model checking ExprParser.                      *)
EXTENDS ExprParser

CONSTANTS MaxTokens,    \* bound: tokens of a sentence
          MaxShort      \* bound: tokens of a sequence that need not be a sentence

MCArity == [f |-> 2, g |-> 0]
MCElements == [int2 |-> 2]
NoNames == [x \in {} |-> 0]

MCTokens == IF Numbers = {} THEN Leaves \cup Ops \cup Prefixes \cup {"(", ")"} ELSE Tokens

\* What a variable of an expression may be replaced by.
Rewrites ==
    {<<"-", "v">>, <<"(", "v", ")">>} \cup {<<"v", o, "v">> : o \in Ops}
    \cup (IF Numbers = {} THEN {}
          ELSE {<<"1">>, <<"v", ".", "f">>, <<"v", "[", "v", "]">>, <<"g", "(">>,
                <<"f", "(", "v", ",", "v", ")">>, <<"int2", "(", "v", ")">>,
                <<"int2", "(", "v", ",", "v", ")">>, <<"int2", "(", "v", ",", "v", ",">>})
Grown(S) ==
    UNION {{SubSeq(s, 1, k - 1) \o r \o SubSeq(s, k + 1, Len(s)) :
              k \in {k \in 1..Len(s) : s[k] = "v"}, r \in {r \in Rewrites : Len(s) + Len(r) <= MaxTokens + 1}} :
              s \in S}
RECURSIVE Growing(_)
Growing(S) == LET new == Grown(S) IN IF new \subseteq S THEN S ELSE Growing(S \cup new)

\* Everything of up to MaxShort tokens, and the expressions of the grammar, whole,
\* with one token left out, with one token put in, or with one exchanged.
Short == UNION {[1..n -> MCTokens] : n \in 1..MaxShort}
Sentences == Growing({<<"v">>})
Without(s, k) == SubSeq(s, 1, k - 1) \o SubSeq(s, k + 1, Len(s))
With(s, k, t) == SubSeq(s, 1, k) \o <<t>> \o SubSeq(s, k + 1, Len(s))
Mutilated == UNION {{Without(s, k) : k \in 1..Len(s)} : s \in {s \in Sentences : Len(s) > 1}}
Applications ==
    {s \in Sentences : \E i \in DOMAIN s : s[i] \in DOMAIN Arity \cup DOMAIN Elements}
Padded == UNION {{With(s, k, t) : k \in 0..Len(s), t \in {",", "v"}} : s \in Applications}
Exchanged == UNION {{[s EXCEPT ![k] = t] : k \in 1..Len(s), t \in {",", "+"}} : s \in Applications}

MCInputs == Short \cup Sentences \cup Mutilated \cup Padded \cup Exchanged
=============================================================================
