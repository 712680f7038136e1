----------------------------- MODULE TokenQueue -----------------------------
(***************************************************************************)
(* What the parser relies on when it looks ahead and takes tokens: the     *)
(* tokens of the text form one queue.  A peek answers the token that many  *)
(* places ahead and takes nothing; a take answers the first one and        *)
(* removes it.  Text that is no token is reported once, by the call that   *)
(* meets it, and that call answers no token.                               *)
(***************************************************************************)
EXTENDS Naturals, Sequences

CONSTANTS MaxAhead,         \* how far ahead the parser peeks
          sEOF, sInvalid    \* the answers that are no token

VARIABLES rest,     \* the tokens not taken yet
          errors,   \* messages added
          answer    \* what the last call answered

vars == <<rest, errors, answer>>

NoToken == IF errors = 0 THEN sEOF ELSE sInvalid
Ahead(q, i) == IF i < Len(q) THEN q[i + 1] ELSE NoToken

Init == errors = 0 /\ answer = sEOF

Peek(i) == LET q == rest IN answer' = Ahead(q, i) /\ rest' = q /\ UNCHANGED errors

Get ==
    LET q == rest IN
    /\ answer' = Ahead(q, 0) /\ rest' = (IF q = <<>> THEN q ELSE Tail(q))
    /\ UNCHANGED errors

Report == errors' = errors + 1 /\ answer' = sInvalid /\ UNCHANGED rest

Next == Report \/ Get \/ \E i \in 0..MaxAhead : Peek(i)

Spec == Init /\ [][Next]_vars
=============================================================================
