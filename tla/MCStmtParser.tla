---------------------------- MODULE MCStmtParser ----------------------------
(* Inputs for model checking StmtParser: every sequence of a few tokens, and  *)
(* longer ones of the grammar, whole or with one token changed.               *)
EXTENDS StmtParser

CONSTANTS MaxTokens,    \* bound: tokens of an arbitrary sequence
          MaxBody       \* bound: tokens of a body of the grammar

Short == UNION {[1..n -> Tokens] : n \in 1..MaxTokens}
Sentences == UNION {Bodies(n) : n \in 1..MaxBody}
Changed == UNION {{[s EXCEPT ![k] = t] : k \in 2..Len(s), t \in Tokens} : s \in Sentences}

MCInputs == {s \in Short : s[1] = "lbrace"} \cup Sentences \cup Changed
=============================================================================
