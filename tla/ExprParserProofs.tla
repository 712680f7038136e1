-------------------------- MODULE ExprParserProofs --------------------------
(***************************************************************************)
(* The value expression parser on any text: the two parse functions end,   *)
(* an expression that is read lies within the text and is one of the       *)
(* grammar, every expression of the grammar is read, and only an           *)
(* initializer is given up in silence.                                     *)
(***************************************************************************)
EXTENDS ExprParser, SequenceTheorems, WellFoundedInduction, TLAPS

-----------------------------------------------------------------------------
(* Tokens.                                                                 *)

\* A token is of one kind.
LEMMA KindsApart ==
    /\ Leaves \cap Numbers = {} /\ Leaves \cap DOMAIN Arity = {} /\ Leaves \cap DOMAIN Elements = {}
    /\ Leaves \cap (Ops \cup Prefixes) = {} /\ Leaves \cap {"(", "[", "."} = {} /\ Leaves \cap Separators = {}
    /\ Numbers \cap DOMAIN Arity = {} /\ Numbers \cap DOMAIN Elements = {}
    /\ Numbers \cap (Ops \cup Prefixes) = {} /\ Numbers \cap {"(", "[", "."} = {} /\ Numbers \cap Separators = {}
    /\ DOMAIN Arity \cap DOMAIN Elements = {} /\ DOMAIN Arity \cap (Ops \cup Prefixes) = {}
    /\ DOMAIN Arity \cap {"(", "[", "."} = {} /\ DOMAIN Arity \cap Separators = {}
    /\ DOMAIN Elements \cap (Ops \cup Prefixes) = {} /\ DOMAIN Elements \cap {"(", "[", "."} = {}
    /\ DOMAIN Elements \cap Separators = {}
    /\ (Ops \cup Prefixes) \cap {"(", "[", "."} = {} /\ (Ops \cup Prefixes) \cap Separators = {}
    /\ {"(", "[", "."} \cap Separators = {}
<1> DEFINE kinds == <<Leaves, Numbers, DOMAIN Arity, DOMAIN Elements, Ops \cup Prefixes, {"(", "[", "."}, Separators>>
<1>1. \A i, j \in 1..7 : i # j => kinds[i] \cap kinds[j] = {}
  BY TokensAssumption
<1>2. /\ kinds[1] = Leaves /\ kinds[2] = Numbers /\ kinds[3] = DOMAIN Arity /\ kinds[4] = DOMAIN Elements
      /\ kinds[5] = Ops \cup Prefixes /\ kinds[6] = {"(", "[", "."} /\ kinds[7] = Separators
  OBVIOUS
<1> HIDE DEF kinds
<1>3. kinds[1] \cap kinds[2] = {} /\ kinds[1] \cap kinds[3] = {} /\ kinds[1] \cap kinds[4] = {}
  BY <1>1
<1>4. kinds[1] \cap kinds[5] = {} /\ kinds[1] \cap kinds[6] = {} /\ kinds[1] \cap kinds[7] = {}
  BY <1>1
<1>5. kinds[2] \cap kinds[3] = {} /\ kinds[2] \cap kinds[4] = {}
  BY <1>1
<1>6. kinds[2] \cap kinds[5] = {} /\ kinds[2] \cap kinds[6] = {} /\ kinds[2] \cap kinds[7] = {}
  BY <1>1
<1>7. kinds[3] \cap kinds[4] = {} /\ kinds[3] \cap kinds[5] = {}
  BY <1>1
<1>8. kinds[3] \cap kinds[6] = {} /\ kinds[3] \cap kinds[7] = {}
  BY <1>1
<1>9. kinds[4] \cap kinds[5] = {} /\ kinds[4] \cap kinds[6] = {} /\ kinds[4] \cap kinds[7] = {}
  BY <1>1
<1>10. kinds[5] \cap kinds[6] = {} /\ kinds[5] \cap kinds[7] = {} /\ kinds[6] \cap kinds[7] = {}
  BY <1>1
<1>11. /\ Leaves \cap Numbers = {} /\ Leaves \cap DOMAIN Arity = {} /\ Leaves \cap DOMAIN Elements = {}
  BY <1>2, <1>3
<1>12. /\ Leaves \cap (Ops \cup Prefixes) = {} /\ Leaves \cap {"(", "[", "."} = {} /\ Leaves \cap Separators = {}
  BY <1>2, <1>4
<1>13. /\ Numbers \cap DOMAIN Arity = {} /\ Numbers \cap DOMAIN Elements = {}
  BY <1>2, <1>5
<1>14. /\ Numbers \cap (Ops \cup Prefixes) = {} /\ Numbers \cap {"(", "[", "."} = {} /\ Numbers \cap Separators = {}
  BY <1>2, <1>6
<1>15. /\ DOMAIN Arity \cap DOMAIN Elements = {} /\ DOMAIN Arity \cap (Ops \cup Prefixes) = {}
  BY <1>2, <1>7
<1>16. /\ DOMAIN Arity \cap {"(", "[", "."} = {} /\ DOMAIN Arity \cap Separators = {}
  BY <1>2, <1>8
<1>17. /\ DOMAIN Elements \cap (Ops \cup Prefixes) = {} /\ DOMAIN Elements \cap {"(", "[", "."} = {}
       /\ DOMAIN Elements \cap Separators = {}
  BY <1>2, <1>9
<1>18. /\ (Ops \cup Prefixes) \cap {"(", "[", "."} = {} /\ (Ops \cup Prefixes) \cap Separators = {}
       /\ {"(", "[", "."} \cap Separators = {}
  BY <1>2, <1>10
<1> QED BY <1>11, <1>12, <1>13, <1>14, <1>15, <1>16, <1>17, <1>18

\* Only the token behind the text is none of the text's.
LEMMA EndIsNoToken == EndToken \notin Tokens
<1>1. EndToken \in Separators
  BY DEF Separators
<1>2. EndToken \notin Names
  BY <1>1, KindsApart DEF Names
<1>3. EndToken \notin Numbers /\ EndToken \notin Ops /\ EndToken \notin Prefixes /\ EndToken \notin {"(", "[", "."}
  BY <1>1, KindsApart
<1> QED BY <1>2, <1>3 DEF Tokens

LEMMA TokenAt ==
    ASSUME tokens \in Seq(Tokens), NEW p \in Places
    PROVE  /\ Len(tokens) \in Nat
           /\ p <= Len(tokens) => Token(p) = tokens[p] /\ Token(p) \in Tokens /\ Token(p) # EndToken
           /\ p > Len(tokens) => Token(p) = EndToken
<1>1. Len(tokens) \in Nat
  OBVIOUS
<1>2. ASSUME p <= Len(tokens) PROVE tokens[p] \in Tokens
  <2>1. p \in 1..Len(tokens)
    BY <1>1, <1>2 DEF Places
  <2> QED BY <2>1
<1> QED BY <1>1, <1>2, EndIsNoToken DEF Token, Places

\* What is not the end of the text is a token of it.
LEMMA TokenInside ==
    ASSUME tokens \in Seq(Tokens), NEW p \in Places, Token(p) # EndToken
    PROVE  p <= Len(tokens) /\ Token(p) \in Tokens
<1>1. ~(p > Len(tokens))
  BY TokenAt
<1>2. Len(tokens) \in Nat /\ p \in Nat
  BY TokenAt DEF Places
<1> QED BY <1>1, <1>2, TokenAt

\* The kinds of tokens the parse functions ask for are not the end.
LEMMA KindsInside ==
    /\ EndToken \notin Names /\ EndToken \notin DOMAIN Elements /\ EndToken \notin Leaves \cup Numbers
    /\ EndToken \notin DOMAIN Arity /\ EndToken \notin Prefixes /\ EndToken \notin Ops
    /\ EndToken # "(" /\ EndToken # "[" /\ EndToken # "." /\ EndToken # ")" /\ EndToken # "," /\ EndToken # "]"
<1>1. EndToken \in Separators
  BY DEF Separators
<1>2. /\ EndToken \notin DOMAIN Elements /\ EndToken \notin Leaves /\ EndToken \notin Numbers
      /\ EndToken \notin DOMAIN Arity /\ EndToken \notin Prefixes /\ EndToken \notin Ops
  BY <1>1, KindsApart
<1>3. /\ EndToken # "(" /\ EndToken # "[" /\ EndToken # "." /\ EndToken # ")" /\ EndToken # "," /\ EndToken # "]"
  BY DEF EndToken
<1> QED BY <1>2, <1>3 DEF Names

(* Induction along a measure, with a set in the place of the predicate.    *)

\* A set of numbers that is not empty has a least one.
LEMMA LeastNumber ==
    ASSUME NEW T, T \subseteq Nat, T # {}
    PROVE  \E x \in T : \A y \in T : x <= y
<1>1. PICK x \in T : \A y \in T : <<y, x>> \notin OpToRel(<, Nat)
  BY NatLessThanWellFounded, WFMin
<1>2. ASSUME NEW y \in T PROVE x <= y
  <2>1. ~(y < x)
    BY <1>1 DEF OpToRel
  <2> QED BY <2>1
<1> QED BY <1>2

\* What holds at q if it holds wherever the measure is smaller holds everywhere.
LEMMA MeasureInduction ==
    ASSUME NEW D, NEW m \in [D -> Nat], NEW T,
           \A q \in D : (\A r \in D : m[r] < m[q] => r \in T) => q \in T
    PROVE  D \subseteq T
<1> SUFFICES ASSUME NEW p \in D, p \notin T PROVE FALSE
  OBVIOUS
<1> DEFINE Bad == {m[q] : q \in D \ T}
<1>1. Bad \subseteq Nat /\ Bad # {}
  OBVIOUS
<1>2. PICK x \in Bad : \A y \in Bad : x <= y
  BY <1>1, LeastNumber
<1>3. PICK q \in D \ T : x = m[q]
  BY <1>2
<1>4. \A r \in D : m[r] < m[q] => r \in T
  <2> TAKE r \in D
  <2> SUFFICES ASSUME r \notin T PROVE ~(m[r] < m[q])
    OBVIOUS
  <2>1. m[r] \in Bad /\ m[r] \in Nat /\ m[q] \in Nat
    OBVIOUS
  <2>2. m[q] <= m[r]
    <3> HIDE DEF Bad
    <3> QED BY <2>1, <1>2, <1>3
  <2> QED BY <2>1, <2>2
<1> QED BY <1>3, <1>4

-----------------------------------------------------------------------------
(* The parse functions end: a call only needs calls further on in the text, *)
(* or calls of a lower rank at the same token.                              *)

Kinds == {"simple", "suffixes", "complex", "arguments", "elements"}
Rank(what) == IF what \in {"simple", "suffixes"} THEN 0 ELSE IF what = "complex" THEN 1 ELSE 2
Left(p) == IF p <= Len(tokens) THEN Len(tokens) + 1 - p ELSE 0
Cost(c) == 4 * Left(c[2]) + Rank(c[1])

\* What holds of the result of every call: what is read lies within the text, an
\* expression moves on and stands in front of a separator.
Sound(p, r) ==
    /\ r.ok \in BOOLEAN /\ r.said \in BOOLEAN /\ r.stop \in BOOLEAN /\ r.next \in Nat
    /\ r.ok => p <= r.next /\ (p <= Len(tokens) + 1 => r.next <= Len(tokens) + 1)
Moves(p, r) == r.ok => p < r.next /\ p <= Len(tokens)
Fine(what, p, n, r) ==
    /\ Sound(p, r)
    /\ what \in {"simple", "complex", "elements"} => Moves(p, r)
    /\ what = "complex" /\ r.ok => Token(r.next) \in n
FineCall(c, r) == Fine(c[1], c[2], c[3], r)

\* Two functions give a call the same result, and the calls behind p.
Same(S, R, what, p, n) ==
    /\ S[<<what, p, n>>] = R[<<what, p, n>>]
    /\ Fine(what, p, n, S[<<what, p, n>>])
Ahead(S, R, p) == \A c \in Calls : c[2] > p => S[c] = R[c] /\ FineCall(c, S[c])
Agree(S, R, c) == \A d \in Calls : Cost(d) < Cost(c) => S[d] = R[d] /\ FineCall(d, S[d])

\* A call is one of these.
Extras == Nat \cup SUBSET Separators

LEMMA CallIs ==
    ASSUME NEW c \in Calls
    PROVE  \E what \in Kinds, p \in Places, n \in Extras :
             /\ c = <<what, p, n>> /\ c[1] = what /\ c[2] = p /\ c[3] = n
             /\ what \in {"simple", "suffixes"} => n = 0
             /\ what \in {"arguments", "elements"} => n \in Nat
             /\ what = "elements" => n # 0
             /\ what = "complex" => n \in SUBSET Separators
<1>1. CASE c \in {"simple", "suffixes"} \X Places \X {0}
  <2>1. PICK what \in {"simple", "suffixes"}, p \in Places, n \in {0} : c = <<what, p, n>>
    BY <1>1
  <2>2. c[1] = what /\ c[2] = p /\ c[3] = n
    BY <2>1
  <2>3. what \in Kinds /\ what \notin {"arguments", "elements"} /\ what # "complex" /\ n = 0 /\ n \in Extras
    BY DEF Kinds, Extras
  <2> QED BY <2>1, <2>2, <2>3
<1>2. CASE c \in {"arguments"} \X Places \X Nat \/ c \in {"elements"} \X Places \X (Nat \ {0})
  <2>1. PICK what \in {"arguments", "elements"}, p \in Places, n \in Nat : c = <<what, p, n>> /\ (what = "elements" => n # 0)
    BY <1>2
  <2>2. c[1] = what /\ c[2] = p /\ c[3] = n
    BY <2>1
  <2>3. what \in Kinds /\ what \notin {"simple", "suffixes"} /\ what # "complex" /\ n \in Extras
    BY DEF Kinds, Extras
  <2> QED BY <2>1, <2>2, <2>3
<1>3. CASE c \in {"complex"} \X Places \X SUBSET Separators
  <2>1. PICK what \in {"complex"}, p \in Places, n \in SUBSET Separators : c = <<what, p, n>>
    BY <1>3
  <2>2. c[1] = what /\ c[2] = p /\ c[3] = n
    BY <2>1
  <2>3. what \in Kinds /\ what \notin {"simple", "suffixes"} /\ what \notin {"arguments", "elements"} /\ n \in Extras
    BY DEF Kinds, Extras
  <2> QED BY <2>1, <2>2, <2>3
<1> QED BY <1>1, <1>2, <1>3 DEF Calls

LEMMA CallsAre ==
    ASSUME NEW p \in Places
    PROVE  /\ <<"simple", p, 0>> \in Calls /\ <<"suffixes", p, 0>> \in Calls
           /\ \A n \in Nat : <<"arguments", p, n>> \in Calls
           /\ \A n \in Nat \ {0} : <<"elements", p, n>> \in Calls
           /\ \A ends \in SUBSET Separators : <<"complex", p, ends>> \in Calls
BY DEF Calls

LEMMA CostIs ==
    ASSUME tokens \in Seq(Tokens), NEW c \in Calls
    PROVE  /\ Cost(c) \in Nat
           /\ \A d \in Calls : c[2] <= Len(tokens) /\ d[2] > c[2] => Cost(d) < Cost(c)
           /\ \A d \in Calls : d[2] = c[2] /\ Rank(d[1]) < Rank(c[1]) => Cost(d) < Cost(c)
<1>1. Len(tokens) \in Nat
  OBVIOUS
<1>2. \A k : Rank(k) \in 0..2
  BY DEF Rank
<1>3. \A q \in Places : Left(q) \in Nat
  BY <1>1 DEF Left, Places
<1>4. \A d \in Calls : d[2] \in Places
  BY CallIs
<1>5. \A p, q \in Places : p <= Len(tokens) /\ q > p => Left(q) < Left(p)
  BY <1>1 DEF Left, Places
<1>6. ASSUME NEW d \in Calls, c[2] <= Len(tokens), d[2] > c[2]
      PROVE  Cost(d) < Cost(c)
  <2>1. PICK x \in Nat : x = Left(d[2])
    BY <1>3, <1>4
  <2>2. PICK y \in Nat : y = Left(c[2])
    BY <1>3, <1>4
  <2>3. x < y
    BY <1>4, <1>5, <1>6, <2>1, <2>2
  <2>4. PICK a \in 0..2, b \in 0..2 : a = Rank(d[1]) /\ b = Rank(c[1])
    BY <1>2
  <2>5. 4 * x + a < 4 * y + b
    BY <2>3
  <2> QED BY <2>1, <2>2, <2>4, <2>5 DEF Cost
<1>7. ASSUME NEW d \in Calls, d[2] = c[2], Rank(d[1]) < Rank(c[1])
      PROVE  Cost(d) < Cost(c)
  <2>1. PICK y \in Nat : y = Left(c[2])
    BY <1>3, <1>4
  <2>2. PICK a \in 0..2, b \in 0..2 : a = Rank(d[1]) /\ b = Rank(c[1])
    BY <1>2
  <2>3. 4 * y + a < 4 * y + b
    BY <1>7, <2>2
  <2> QED BY <1>7, <2>1, <2>2, <2>3 DEF Cost
<1>8. Cost(c) \in Nat
  BY <1>2, <1>3, <1>4 DEF Cost
<1> QED BY <1>6, <1>7, <1>8

\* What a call may rely on: the calls behind it, and those of lower rank.
LEMMA AgreeIs ==
    ASSUME tokens \in Seq(Tokens), NEW c \in Calls, NEW S, NEW R, Agree(S, R, c)
    PROVE  /\ c[2] <= Len(tokens) => Ahead(S, R, c[2])
           /\ \A d \in Calls : d[2] = c[2] /\ Rank(d[1]) < Rank(c[1]) => S[d] = R[d] /\ FineCall(d, S[d])
BY CostIs DEF Agree, Ahead

\* The calls behind p, one kind after the other.
LEMMA AheadIs ==
    ASSUME NEW S, NEW R, NEW p \in Nat, Ahead(S, R, p), NEW q \in Places, q > p
    PROVE  /\ Same(S, R, "simple", q, 0) /\ Same(S, R, "suffixes", q, 0)
           /\ \A n \in Nat : Same(S, R, "arguments", q, n)
           /\ \A n \in Nat \ {0} : Same(S, R, "elements", q, n)
           /\ \A ends \in SUBSET Separators : Same(S, R, "complex", q, ends)
<1>1. ASSUME NEW what, NEW n, <<what, q, n>> \in Calls PROVE Same(S, R, what, q, n)
  <2>1. PICK c : c = <<what, q, n>>
    OBVIOUS
  <2>2. c \in Calls /\ c[1] = what /\ c[2] = q /\ c[3] = n
    BY <1>1, <2>1
  <2>3. S[c] = R[c] /\ Fine(what, q, n, S[c])
    BY <2>2 DEF Ahead, FineCall
  <2> QED BY <2>1, <2>3 DEF Same
<1> QED BY <1>1, CallsAre

\* The results made from others.
LEMMA OkIs ==
    ASSUME NEW next, NEW tree
    PROVE  /\ Ok(next, tree).ok /\ Ok(next, tree).ok = TRUE /\ Ok(next, tree).next = next /\ Ok(next, tree).tree = tree
           /\ ~Ok(next, tree).said /\ ~Ok(next, tree).stop
BY DEF Ok

LEMMA FailedIs ==
    ASSUME NEW next, NEW said, NEW stop
    PROVE  /\ ~Failed(next, said, stop).ok /\ Failed(next, said, stop).ok = FALSE
           /\ Failed(next, said, stop).next = next
           /\ Failed(next, said, stop).said = said /\ Failed(next, said, stop).stop = stop
BY DEF Failed

LEMMA OkSound ==
    ASSUME NEW p \in Nat, NEW next \in Nat, NEW tree,
           p <= next, p <= Len(tokens) + 1 => next <= Len(tokens) + 1
    PROVE  /\ Sound(p, Ok(next, tree))
           /\ p < next /\ p <= Len(tokens) => Moves(p, Ok(next, tree))
<1>1. PICK r : r = Ok(next, tree)
  OBVIOUS
<1>2. r.ok = TRUE /\ r.said = FALSE /\ r.stop = FALSE /\ r.next = next
  BY <1>1 DEF Ok
<1>3. Sound(p, r) /\ (p < next /\ p <= Len(tokens) => Moves(p, r))
  BY <1>2 DEF Sound, Moves
<1> QED BY <1>1, <1>3

LEMMA FailedSound ==
    ASSUME NEW p, NEW next \in Nat, NEW said \in BOOLEAN, NEW stop \in BOOLEAN
    PROVE  Sound(p, Failed(next, said, stop)) /\ Moves(p, Failed(next, said, stop))
<1>1. PICK r : r = Failed(next, said, stop)
  OBVIOUS
<1>2. r.ok = FALSE /\ r.said = said /\ r.stop = stop /\ r.next = next
  BY <1>1 DEF Failed
<1>3. Sound(p, r) /\ Moves(p, r)
  BY <1>2 DEF Sound, Moves
<1> QED BY <1>1, <1>3

LEMMA ComplaintSound ==
    ASSUME NEW p, NEW q, NEW r, Sound(q, r)
    PROVE  /\ Sound(p, Complaint(r)) /\ Moves(p, Complaint(r)) /\ ~Complaint(r).ok
           /\ Complaint(r).said /\ Complaint(r).stop = r.stop
<1>1. PICK n \in Nat, w \in BOOLEAN : n = r.next /\ w = r.stop
  BY DEF Sound
<1>2. Complaint(r) = Failed(n, TRUE, w)
  BY <1>1 DEF Complaint
<1>3. Sound(p, Failed(n, TRUE, w)) /\ Moves(p, Failed(n, TRUE, w))
  BY FailedSound
<1>4. ~Failed(n, TRUE, w).ok /\ Failed(n, TRUE, w).said /\ Failed(n, TRUE, w).stop = w
  BY DEF Failed
<1> QED BY <1>1, <1>2, <1>3, <1>4

\* A failure is a failure of those in front of it.
LEMMA FailureSound ==
    ASSUME NEW p, NEW q, NEW r, Sound(q, r), ~r.ok
    PROVE  Sound(p, r) /\ Moves(p, r)
BY DEF Sound, Moves

LEMMA ListedSound ==
    ASSUME tokens \in Seq(Tokens), NEW p \in Nat, NEW q \in Nat, NEW tree, NEW rest, Sound(q, rest),
           p < q, p <= Len(tokens), q <= Len(tokens) + 1
    PROVE  /\ Sound(p, Listed(tree, rest)) /\ Moves(p, Listed(tree, rest))
           /\ Listed(tree, rest).ok <=> rest.ok
           /\ rest.ok => Listed(tree, rest) = Ok(rest.next, <<tree>> \o rest.tree)
           /\ ~rest.ok => Listed(tree, rest) = rest
<1>1. CASE ~rest.ok
  <2>1. Listed(tree, rest) = rest
    BY <1>1 DEF Listed
  <2> QED BY <1>1, <2>1, FailureSound
<1>2. CASE rest.ok
  <2>1. PICK n \in Nat : n = rest.next /\ q <= n /\ n <= Len(tokens) + 1
    BY <1>2 DEF Sound
  <2>2. PICK t : t = <<tree>> \o rest.tree
    OBVIOUS
  <2>3. Listed(tree, rest) = Ok(n, t)
    BY <1>2, <2>1, <2>2 DEF Listed
  <2>4. p < n /\ p <= n
    BY <2>1
  <2>5. Sound(p, Ok(n, t)) /\ Moves(p, Ok(n, t)) /\ Ok(n, t).ok
    BY <2>1, <2>4, OkSound, OkIs
  <2> QED BY <1>2, <2>1, <2>2, <2>3, <2>5
<1> QED BY <1>1, <1>2

LEMMA SuffixesIs ==
    ASSUME NEW R, NEW p
    PROVE  /\ Token(p) = "." /\ Token(p + 1) \in Names =>
                Suffixes(R, p) = Listed(<<".", Token(p + 1)>>, R[<<"suffixes", p + 2, 0>>])
           /\ Token(p) = "." /\ Token(p + 1) \notin Names => Suffixes(R, p) = Failed(p + 2, TRUE, FALSE)
           /\ Token(p) = "[" /\ R[<<"complex", p + 1, {"]"}>>].ok =>
                Suffixes(R, p) = Listed(<<"[", R[<<"complex", p + 1, {"]"}>>].tree>>,
                                        R[<<"suffixes", R[<<"complex", p + 1, {"]"}>>].next + 1, 0>>])
           /\ Token(p) = "[" /\ ~R[<<"complex", p + 1, {"]"}>>].ok =>
                Suffixes(R, p) = Complaint(R[<<"complex", p + 1, {"]"}>>])
           /\ Token(p) # "." /\ Token(p) # "[" => Suffixes(R, p) = Ok(p, <<>>)
<1>1. "." # "["
  OBVIOUS
<1>2. CASE Token(p) = "." /\ Token(p + 1) \in Names
  BY <1>1, <1>2, Zenon DEF Suffixes
<1>3. CASE Token(p) = "." /\ Token(p + 1) \notin Names
  BY <1>1, <1>3, Zenon DEF Suffixes
<1>4. CASE Token(p) = "[" /\ R[<<"complex", p + 1, {"]"}>>].ok
  BY <1>1, <1>4, Zenon DEF Suffixes
<1>5. CASE Token(p) = "[" /\ ~R[<<"complex", p + 1, {"]"}>>].ok
  BY <1>1, <1>5, Zenon DEF Suffixes
<1>6. CASE Token(p) # "." /\ Token(p) # "["
  BY <1>6, Zenon DEF Suffixes
<1> QED BY <1>1, <1>2, <1>3, <1>4, <1>5, <1>6

LEMMA SuffixesSound ==
    ASSUME tokens \in Seq(Tokens), NEW p \in Places, NEW S, NEW R, p <= Len(tokens) => Ahead(S, R, p)
    PROVE  Suffixes(S, p) = Suffixes(R, p) /\ Sound(p, Suffixes(S, p))
<1>1. Len(tokens) \in Nat /\ p \in Nat /\ p + 1 \in Places /\ p + 2 \in Places /\ p + 2 \in Nat
  BY TokenAt DEF Places
<1>2. CASE Token(p) = "." /\ Token(p + 1) \in Names
  <2>1. p <= Len(tokens) /\ p + 1 <= Len(tokens)
    BY <1>1, <1>2, KindsInside, TokenInside
  <2>2. Same(S, R, "suffixes", p + 2, 0)
    BY <1>1, <2>1, AheadIs
  <2>3. PICK rest : rest = S[<<"suffixes", p + 2, 0>>]
    OBVIOUS
  <2>4. rest = R[<<"suffixes", p + 2, 0>>] /\ Sound(p + 2, rest)
    BY <2>2, <2>3 DEF Same, Fine
  <2>5. PICK t : t = <<".", Token(p + 1)>>
    OBVIOUS
  <2>6. Suffixes(S, p) = Listed(t, rest) /\ Suffixes(R, p) = Listed(t, rest)
    BY <1>2, <2>3, <2>4, <2>5, SuffixesIs
  <2>7. p < p + 2 /\ p + 2 <= Len(tokens) + 1
    BY <1>1, <2>1
  <2>8. Sound(p, Listed(t, rest))
    BY <1>1, <2>1, <2>4, <2>7, ListedSound
  <2> QED BY <2>6, <2>8
<1>3. CASE Token(p) = "." /\ Token(p + 1) \notin Names
  <2>1. Suffixes(S, p) = Failed(p + 2, TRUE, FALSE) /\ Suffixes(R, p) = Failed(p + 2, TRUE, FALSE)
    BY <1>3, SuffixesIs
  <2> QED BY <1>1, <2>1, FailedSound
<1>4. CASE Token(p) = "["
  <2>1. p <= Len(tokens)
    BY <1>4, KindsInside, TokenInside
  <2>2. {"]"} \in SUBSET Separators
    BY DEF Separators
  <2>3. Same(S, R, "complex", p + 1, {"]"})
    BY <1>1, <2>1, <2>2, AheadIs
  <2>4. PICK index : index = S[<<"complex", p + 1, {"]"}>>]
    OBVIOUS
  <2>5. /\ index = R[<<"complex", p + 1, {"]"}>>] /\ Sound(p + 1, index) /\ Moves(p + 1, index)
        /\ index.ok => Token(index.next) \in {"]"}
    BY <2>3, <2>4 DEF Same, Fine
  <2>6. CASE index.ok
    <3>1. PICK n \in Nat : n = index.next
      BY <2>5 DEF Sound
    <3>2. p + 1 < n /\ Token(n) = "]"
      BY <2>5, <2>6, <3>1 DEF Moves
    <3>3. n \in Places /\ n + 1 \in Places /\ n + 1 \in Nat
      BY <1>1, <3>2 DEF Places
    <3>4. n <= Len(tokens)
      BY <3>2, <3>3, KindsInside, TokenInside
    <3>5. p < n + 1 /\ n + 1 <= Len(tokens) + 1
      BY <1>1, <3>2, <3>4
    <3>6. Same(S, R, "suffixes", n + 1, 0)
      BY <1>1, <2>1, <3>3, <3>5, AheadIs
    <3>7. PICK rest : rest = S[<<"suffixes", n + 1, 0>>]
      OBVIOUS
    <3>8. rest = R[<<"suffixes", n + 1, 0>>] /\ Sound(n + 1, rest)
      BY <3>6, <3>7 DEF Same, Fine
    <3>9. PICK t : t = <<"[", index.tree>>
      OBVIOUS
    <3>10. Suffixes(S, p) = Listed(t, rest) /\ Suffixes(R, p) = Listed(t, rest)
      <4>1. Suffixes(S, p) = Listed(t, rest)
        BY <1>4, <2>4, <2>6, <3>1, <3>7, <3>9, SuffixesIs
      <4>2. Suffixes(R, p) = Listed(t, rest)
        BY <1>4, <2>5, <2>6, <3>1, <3>8, <3>9, SuffixesIs
      <4> QED BY <4>1, <4>2
    <3>11. Sound(p, Listed(t, rest))
      BY <1>1, <2>1, <3>3, <3>5, <3>8, ListedSound
    <3> QED BY <3>10, <3>11
  <2>7. CASE ~index.ok
    <3>1. Suffixes(S, p) = Complaint(index) /\ Suffixes(R, p) = Complaint(index)
      BY <1>4, <2>4, <2>5, <2>7, SuffixesIs
    <3> QED BY <2>5, <3>1, ComplaintSound
  <2> QED BY <2>6, <2>7
<1>5. CASE Token(p) # "." /\ Token(p) # "["
  <2>1. Suffixes(S, p) = Ok(p, <<>>) /\ Suffixes(R, p) = Ok(p, <<>>)
    BY <1>5, SuffixesIs
  <2>2. Sound(p, Ok(p, <<>>))
    BY <1>1, OkSound
  <2> QED BY <2>1, <2>2
<1> QED BY <1>2, <1>3, <1>4, <1>5

\* What an argument ends with when it is the last but n - 1.
ArgumentEnds(n) == IF n = 1 THEN {")"} ELSE {","}

LEMMA ArgumentsIs ==
    ASSUME NEW R, NEW p, NEW n
    PROVE  /\ n = 0 => Arguments(R, p, n) = Ok(p, <<>>)
           /\ n # 0 /\ R[<<"complex", p, ArgumentEnds(n)>>].ok =>
                Arguments(R, p, n) = Listed(R[<<"complex", p, ArgumentEnds(n)>>].tree,
                                            R[<<"arguments", R[<<"complex", p, ArgumentEnds(n)>>].next + 1, n - 1>>])
           /\ n # 0 /\ ~R[<<"complex", p, ArgumentEnds(n)>>].ok => Arguments(R, p, n) = Complaint(R[<<"complex", p, ArgumentEnds(n)>>])
<1>1. CASE n = 0
  BY <1>1 DEF Arguments
<1>2. CASE n # 0
  <2>1. PICK r : r = R[<<"complex", p, ArgumentEnds(n)>>]
    OBVIOUS
  <2>2. Arguments(R, p, n) = IF r.ok THEN Listed(r.tree, R[<<"arguments", r.next + 1, n - 1>>]) ELSE ArgumentFails(r)
    BY <1>2, <2>1 DEF Arguments, ArgumentEnds
  <2>3. r.ok => Arguments(R, p, n) = Listed(r.tree, R[<<"arguments", r.next + 1, n - 1>>])
    BY <2>2
  <2>4. ~r.ok => Arguments(R, p, n) = Complaint(r)
    BY <2>2 DEF ArgumentFails
  <2> QED BY <1>2, <2>1, <2>3, <2>4
<1> QED BY <1>1, <1>2

\* An expression that ends at one of these separators ends within the text.
LEMMA EndInside ==
    ASSUME tokens \in Seq(Tokens), NEW p \in Places, NEW ends, EndToken \notin ends, NEW r,
           Sound(p, r), Moves(p, r), r.ok, Token(r.next) \in ends
    PROVE  \E n \in Places : /\ n = r.next /\ p < n /\ n <= Len(tokens) /\ n + 1 \in Places /\ n + 1 \in Nat
                             /\ p < n + 1 /\ n + 1 <= Len(tokens) + 1 /\ p <= Len(tokens)
<1>1. Len(tokens) \in Nat /\ p \in Nat
  BY TokenAt DEF Places
<1>2. PICK n \in Nat : n = r.next /\ p < n /\ Token(n) \in ends /\ p <= Len(tokens)
  BY DEF Sound, Moves
<1>3. n \in Places
  BY <1>1, <1>2 DEF Places
<1>4. n <= Len(tokens)
  BY <1>2, <1>3, TokenInside
<1>5. n + 1 \in Places /\ n + 1 \in Nat /\ p < n + 1 /\ n + 1 <= Len(tokens) + 1
  BY <1>1, <1>2, <1>4 DEF Places
<1> QED BY <1>2, <1>3, <1>4, <1>5

LEMMA ArgumentsSound ==
    ASSUME tokens \in Seq(Tokens), NEW p \in Places, NEW n \in Nat, NEW S, NEW R, p <= Len(tokens) => Ahead(S, R, p),
           \A ends \in SUBSET Separators : Same(S, R, "complex", p, ends)
    PROVE  Arguments(S, p, n) = Arguments(R, p, n) /\ Sound(p, Arguments(S, p, n))
<1>1. Len(tokens) \in Nat /\ p \in Nat
  BY TokenAt DEF Places
<1>2. CASE n = 0
  <2>1. Arguments(S, p, n) = Ok(p, <<>>) /\ Arguments(R, p, n) = Ok(p, <<>>)
    BY <1>2, ArgumentsIs
  <2>2. Sound(p, Ok(p, <<>>))
    BY <1>1, OkSound
  <2> QED BY <2>1, <2>2
<1>3. CASE n # 0
  <2>1. PICK ends : ends = ArgumentEnds(n)
    OBVIOUS
  <2>2. ends \in SUBSET Separators /\ EndToken \notin ends
    BY <2>1, KindsInside DEF Separators, ArgumentEnds
  <2>3. PICK r : r = S[<<"complex", p, ends>>]
    OBVIOUS
  <2>4. /\ r = R[<<"complex", p, ends>>] /\ Sound(p, r) /\ Moves(p, r)
        /\ r.ok => Token(r.next) \in ends
    BY <2>2, <2>3 DEF Same, Fine
  <2>5. CASE r.ok
    <3>1. PICK k \in Places : /\ k = r.next /\ p < k /\ k <= Len(tokens) /\ k + 1 \in Places /\ k + 1 \in Nat
                              /\ p < k + 1 /\ k + 1 <= Len(tokens) + 1 /\ p <= Len(tokens)
      BY <2>2, <2>4, <2>5, EndInside
    <3>2. n - 1 \in Nat
      BY <1>3
    <3>3. Same(S, R, "arguments", k + 1, n - 1)
      BY <1>1, <3>1, <3>2, AheadIs
    <3>4. PICK rest : rest = S[<<"arguments", k + 1, n - 1>>]
      OBVIOUS
    <3>5. rest = R[<<"arguments", k + 1, n - 1>>] /\ Sound(k + 1, rest)
      BY <3>3, <3>4 DEF Same, Fine
    <3>6. Arguments(S, p, n) = Listed(r.tree, rest) /\ Arguments(R, p, n) = Listed(r.tree, rest)
      <4>1. Arguments(S, p, n) = Listed(r.tree, S[<<"arguments", r.next + 1, n - 1>>])
        BY <1>3, <2>1, <2>3, <2>5, ArgumentsIs
      <4>2. Arguments(R, p, n) = Listed(r.tree, R[<<"arguments", r.next + 1, n - 1>>])
        BY <1>3, <2>1, <2>4, <2>5, ArgumentsIs
      <4> QED BY <3>1, <3>4, <3>5, <4>1, <4>2
    <3>7. Sound(p, Listed(r.tree, rest))
      BY <1>1, <3>1, <3>5, ListedSound
    <3> QED BY <3>6, <3>7
  <2>6. CASE ~r.ok
    <3>1. Arguments(S, p, n) = Complaint(r)
      BY <1>3, <2>1, <2>3, <2>6, ArgumentsIs
    <3>2. Arguments(R, p, n) = Complaint(r)
      BY <1>3, <2>1, <2>4, <2>6, ArgumentsIs
    <3> QED BY <2>4, <3>1, <3>2, ComplaintSound
  <2> QED BY <2>5, <2>6
<1> QED BY <1>2, <1>3

LEMMA InitializerIs ==
    ASSUME NEW R, NEW p, NEW n
    PROVE  /\ ~R[<<"complex", p, {")", ","}>>].ok => Initializer(R, p, n) = R[<<"complex", p, {")", ","}>>]
           /\ /\ R[<<"complex", p, {")", ","}>>].ok
              /\ Token(R[<<"complex", p, {")", ","}>>].next) = ")" \/ n = 1
              => Initializer(R, p, n) = Ok(R[<<"complex", p, {")", ","}>>].next + 1,
                                           <<R[<<"complex", p, {")", ","}>>].tree>>)
           /\ /\ R[<<"complex", p, {")", ","}>>].ok
              /\ Token(R[<<"complex", p, {")", ","}>>].next) # ")" /\ n # 1
              => Initializer(R, p, n) = Listed(R[<<"complex", p, {")", ","}>>].tree,
                                               R[<<"elements", R[<<"complex", p, {")", ","}>>].next + 1, n - 1>>])
<1>1. PICK r : r = R[<<"complex", p, {")", ","}>>]
  OBVIOUS
<1>2. /\ ~r.ok => Initializer(R, p, n) = r
      /\ r.ok /\ (Token(r.next) = ")" \/ n = 1) => Initializer(R, p, n) = Ok(r.next + 1, <<r.tree>>)
      /\ r.ok /\ Token(r.next) # ")" /\ n # 1 =>
           Initializer(R, p, n) = Listed(r.tree, R[<<"elements", r.next + 1, n - 1>>])
  BY <1>1 DEF Initializer
<1> QED BY <1>1, <1>2

LEMMA InitializerSound ==
    ASSUME tokens \in Seq(Tokens), NEW p \in Places, NEW n \in Nat \ {0}, NEW S, NEW R, p <= Len(tokens) => Ahead(S, R, p),
           \A ends \in SUBSET Separators : Same(S, R, "complex", p, ends)
    PROVE  /\ Initializer(S, p, n) = Initializer(R, p, n)
           /\ Sound(p, Initializer(S, p, n)) /\ Moves(p, Initializer(S, p, n))
<1>1. Len(tokens) \in Nat /\ p \in Nat
  BY TokenAt DEF Places
<1>2. {")", ","} \in SUBSET Separators /\ EndToken \notin {")", ","}
  BY KindsInside DEF Separators
<1>3. PICK r : r = S[<<"complex", p, {")", ","}>>]
  OBVIOUS
<1>4. /\ r = R[<<"complex", p, {")", ","}>>] /\ Sound(p, r) /\ Moves(p, r)
      /\ r.ok => Token(r.next) \in {")", ","}
  BY <1>2, <1>3 DEF Same, Fine
<1>5. CASE ~r.ok
  <2>1. Initializer(S, p, n) = r /\ Initializer(R, p, n) = r
    BY <1>3, <1>4, <1>5, InitializerIs
  <2> QED BY <1>4, <2>1
<1>6. CASE r.ok
  <2>1. PICK k \in Places : /\ k = r.next /\ p < k /\ k <= Len(tokens) /\ k + 1 \in Places /\ k + 1 \in Nat
                            /\ p < k + 1 /\ k + 1 <= Len(tokens) + 1 /\ p <= Len(tokens)
    BY <1>2, <1>4, <1>6, EndInside
  <2>2. CASE Token(k) = ")" \/ n = 1
    <3>1. Initializer(S, p, n) = Ok(k + 1, <<r.tree>>) /\ Initializer(R, p, n) = Ok(k + 1, <<r.tree>>)
      <4>1. Initializer(S, p, n) = Ok(k + 1, <<r.tree>>)
        BY <1>3, <1>6, <2>1, <2>2, InitializerIs
      <4>2. Initializer(R, p, n) = Ok(k + 1, <<r.tree>>)
        BY <1>4, <1>6, <2>1, <2>2, InitializerIs
      <4> QED BY <4>1, <4>2
    <3>2. p <= k + 1
      BY <1>1, <2>1
    <3>3. Sound(p, Ok(k + 1, <<r.tree>>)) /\ Moves(p, Ok(k + 1, <<r.tree>>))
      BY <1>1, <2>1, <3>2, OkSound
    <3> QED BY <3>1, <3>3
  <2>3. CASE Token(k) # ")" /\ n # 1
    <3>1. PICK rest : rest = S[<<"elements", k + 1, n - 1>>]
      OBVIOUS
    <3>2. n - 1 \in Nat \ {0}
      BY <2>3
    <3>3. Same(S, R, "elements", k + 1, n - 1)
      BY <1>1, <2>1, <3>2, AheadIs
    <3>4. rest = R[<<"elements", k + 1, n - 1>>] /\ Sound(k + 1, rest)
      BY <3>1, <3>3 DEF Same, Fine
    <3>5. Initializer(S, p, n) = Listed(r.tree, rest) /\ Initializer(R, p, n) = Listed(r.tree, rest)
      <4>1. r.ok /\ Token(r.next) # ")" /\ n # 1
        BY <1>6, <2>1, <2>3
      <4>2. Initializer(S, p, n) = Listed(r.tree, S[<<"elements", r.next + 1, n - 1>>])
        BY <1>3, <4>1, InitializerIs
      <4>3. Initializer(R, p, n) = Listed(r.tree, R[<<"elements", r.next + 1, n - 1>>])
        BY <1>4, <4>1, InitializerIs
      <4> QED BY <2>1, <3>1, <3>4, <4>2, <4>3
    <3>6. Sound(p, Listed(r.tree, rest)) /\ Moves(p, Listed(r.tree, rest))
      BY <1>1, <2>1, <3>4, ListedSound
    <3> QED BY <3>5, <3>6
  <2> QED BY <2>1, <2>2, <2>3
<1> QED BY <1>5, <1>6

LEMMA AppliedSound ==
    ASSUME tokens \in Seq(Tokens), NEW p \in Nat, NEW q \in Nat, NEW kind, NEW name, NEW list, Sound(q, list),
           p < q, p <= Len(tokens), q <= Len(tokens) + 1
    PROVE  /\ Sound(p, Applied(kind, name, list)) /\ Moves(p, Applied(kind, name, list))
           /\ Applied(kind, name, list).ok <=> list.ok
           /\ list.ok => Applied(kind, name, list) = Ok(list.next, <<kind, name, list.tree>>)
           /\ ~list.ok => Applied(kind, name, list) = list
<1>1. CASE ~list.ok
  <2>1. Applied(kind, name, list) = list
    BY <1>1 DEF Applied
  <2> QED BY <1>1, <2>1, FailureSound
<1>2. CASE list.ok
  <2>1. PICK n \in Nat : n = list.next /\ q <= n /\ n <= Len(tokens) + 1
    BY <1>2 DEF Sound
  <2>2. PICK t : t = <<kind, name, list.tree>>
    OBVIOUS
  <2>3. Applied(kind, name, list) = Ok(n, t)
    BY <1>2, <2>1, <2>2 DEF Applied
  <2>4. p < n /\ p <= n
    BY <2>1
  <2>5. Sound(p, Ok(n, t)) /\ Moves(p, Ok(n, t)) /\ Ok(n, t).ok
    BY <2>1, <2>4, OkSound, OkIs
  <2> QED BY <1>2, <2>1, <2>2, <2>3, <2>5
<1> QED BY <1>1, <1>2

LEMMA OperandIs ==
    ASSUME NEW R, NEW p
    PROVE  /\ Token(p) \in DOMAIN Elements /\ Token(p + 1) # "(" => Operand(R, p) = Failed(p + 2, TRUE, FALSE)
           /\ Token(p) \in DOMAIN Elements /\ Token(p + 1) = "(" =>
                Operand(R, p) = Applied("init", Token(p), R[<<"elements", p + 2, Elements[Token(p)]>>])
           /\ Token(p) \in Leaves \cup Numbers => Operand(R, p) = Ok(p + 1, <<"leaf", Token(p)>>)
           /\ Token(p) \in DOMAIN Arity /\ Token(p + 1) # "(" => Operand(R, p) = Failed(p + 1, TRUE, FALSE)
           /\ Token(p) \in DOMAIN Arity /\ Token(p + 1) = "(" =>
                Operand(R, p) = Applied("call", Token(p), R[<<"arguments", p + 2, Arity[Token(p)]>>])
           /\ Token(p) \in Prefixes /\ R[<<"simple", p + 1, 0>>].ok =>
                Operand(R, p) = Ok(R[<<"simple", p + 1, 0>>].next, <<"prefix", Token(p), R[<<"simple", p + 1, 0>>].tree>>)
           /\ Token(p) \in Prefixes /\ ~R[<<"simple", p + 1, 0>>].ok =>
                Operand(R, p) = Complaint(R[<<"simple", p + 1, 0>>])
           /\ Token(p) = "(" /\ R[<<"complex", p + 1, {")"}>>].ok =>
                Operand(R, p) = Ok(R[<<"complex", p + 1, {")"}>>].next + 1, R[<<"complex", p + 1, {")"}>>].tree)
           /\ Token(p) = "(" /\ ~R[<<"complex", p + 1, {")"}>>].ok =>
                Operand(R, p) = Complaint(R[<<"complex", p + 1, {")"}>>])
           /\ /\ Token(p) \notin DOMAIN Elements /\ Token(p) \notin Leaves \cup Numbers /\ Token(p) \notin DOMAIN Arity
              /\ Token(p) \notin Prefixes /\ Token(p) # "("
              => Operand(R, p) = Failed(p + 1, TRUE, FALSE)
<1>1. PICK t : t = Token(p)
  OBVIOUS
<1>2. PICK a : a = R[<<"simple", p + 1, 0>>]
  OBVIOUS
<1>3. PICK b : b = R[<<"complex", p + 1, {")"}>>]
  OBVIOUS
<1>4. Operand(R, p) =
        CASE t \in DOMAIN Elements ->
                IF Token(p + 1) # "(" THEN Failed(p + 2, TRUE, FALSE)
                ELSE Applied("init", t, R[<<"elements", p + 2, Elements[t]>>])
          [] t \in Leaves \cup Numbers -> Ok(p + 1, <<"leaf", t>>)
          [] t \in DOMAIN Arity ->
                IF Token(p + 1) # "(" THEN Failed(p + 1, TRUE, FALSE)
                ELSE Applied("call", t, R[<<"arguments", p + 2, Arity[t]>>])
          [] t \in Prefixes -> IF a.ok THEN Ok(a.next, <<"prefix", t, a.tree>>) ELSE Complaint(a)
          [] t = "(" -> IF b.ok THEN Ok(b.next + 1, b.tree) ELSE Complaint(b)
          [] OTHER -> Failed(p + 1, TRUE, FALSE)
  BY <1>1, <1>2, <1>3, Zenon DEF Operand
<1>5. CASE t \in DOMAIN Elements
  <2>1. t \notin Leaves \cup Numbers /\ t \notin DOMAIN Arity /\ t \notin Prefixes /\ t # "("
    BY <1>5, KindsApart
  <2>2. Operand(R, p) = IF Token(p + 1) # "(" THEN Failed(p + 2, TRUE, FALSE)
                        ELSE Applied("init", t, R[<<"elements", p + 2, Elements[t]>>])
    BY <1>4, <1>5, <2>1, Zenon
  <2> QED BY <1>1, <1>5, <2>1, <2>2, Zenon
<1>6. CASE t \in Leaves \cup Numbers
  <2>1. t \notin DOMAIN Elements /\ t \notin DOMAIN Arity /\ t \notin Prefixes /\ t # "("
    BY <1>6, KindsApart
  <2>2. Operand(R, p) = Ok(p + 1, <<"leaf", t>>)
    BY <1>4, <1>6, <2>1, Zenon
  <2> QED BY <1>1, <1>6, <2>1, <2>2, Zenon
<1>7. CASE t \in DOMAIN Arity
  <2>1. t \notin DOMAIN Elements /\ t \notin Leaves \cup Numbers /\ t \notin Prefixes /\ t # "("
    BY <1>7, KindsApart
  <2>2. Operand(R, p) = IF Token(p + 1) # "(" THEN Failed(p + 1, TRUE, FALSE)
                        ELSE Applied("call", t, R[<<"arguments", p + 2, Arity[t]>>])
    BY <1>4, <1>7, <2>1, Zenon
  <2> QED BY <1>1, <1>7, <2>1, <2>2, Zenon
<1>8. CASE t \in Prefixes
  <2>1. t \notin DOMAIN Elements /\ t \notin Leaves \cup Numbers /\ t \notin DOMAIN Arity /\ t # "("
    BY <1>8, KindsApart
  <2>2. Operand(R, p) = IF a.ok THEN Ok(a.next, <<"prefix", t, a.tree>>) ELSE Complaint(a)
    BY <1>4, <1>8, <2>1, Zenon
  <2> QED BY <1>1, <1>2, <1>8, <2>1, <2>2, Zenon
<1>9. CASE t = "("
  <2>1. t \notin DOMAIN Elements /\ t \notin Leaves \cup Numbers /\ t \notin DOMAIN Arity /\ t \notin Prefixes
    BY <1>9, KindsApart
  <2>2. Operand(R, p) = IF b.ok THEN Ok(b.next + 1, b.tree) ELSE Complaint(b)
    BY <1>4, <1>9, <2>1, Zenon
  <2> QED BY <1>1, <1>3, <1>9, <2>1, <2>2, Zenon
<1>10. CASE /\ t \notin DOMAIN Elements /\ t \notin Leaves \cup Numbers /\ t \notin DOMAIN Arity
            /\ t \notin Prefixes /\ t # "("
  <2>1. Operand(R, p) = Failed(p + 1, TRUE, FALSE)
    BY <1>4, <1>10, Zenon
  <2> QED BY <1>1, <1>10, <2>1, Zenon
<1> QED BY <1>5, <1>6, <1>7, <1>8, <1>9, <1>10

LEMMA OperandSound ==
    ASSUME tokens \in Seq(Tokens), NEW p \in Places, NEW S, NEW R, p <= Len(tokens) => Ahead(S, R, p)
    PROVE  Operand(S, p) = Operand(R, p) /\ Sound(p, Operand(S, p)) /\ Moves(p, Operand(S, p))
<1>1. Len(tokens) \in Nat /\ p \in Nat /\ p + 1 \in Places /\ p + 2 \in Places /\ p + 1 \in Nat /\ p + 2 \in Nat
  BY TokenAt DEF Places
<1>2. /\ p < p + 1 /\ p < p + 2 /\ p <= p + 1 /\ p <= p + 2
  BY <1>1
<1>3. ASSUME Token(p + 1) = "(" PROVE p + 2 <= Len(tokens) + 1
  <2>1. p + 1 <= Len(tokens)
    BY <1>1, <1>3, KindsInside, TokenInside
  <2> QED BY <1>1, <2>1
<1>4. ASSUME Token(p) # EndToken PROVE p <= Len(tokens) /\ Ahead(S, R, p)
  BY <1>4, TokenInside
<1>5. CASE Token(p) \in DOMAIN Elements
  <2>1. p <= Len(tokens) /\ Ahead(S, R, p)
    BY <1>4, <1>5, KindsInside
  <2>2. CASE Token(p + 1) # "("
    <3>1. Operand(S, p) = Failed(p + 2, TRUE, FALSE) /\ Operand(R, p) = Failed(p + 2, TRUE, FALSE)
      BY <1>5, <2>2, OperandIs
    <3> QED BY <1>1, <3>1, FailedSound
  <2>3. CASE Token(p + 1) = "("
    <3>1. PICK n \in Nat \ {0} : n = Elements[Token(p)]
      BY <1>5, CountsAssumption
    <3>2. Same(S, R, "elements", p + 2, n)
      BY <1>1, <1>2, <2>1, AheadIs
    <3>3. PICK list : list = S[<<"elements", p + 2, n>>]
      OBVIOUS
    <3>4. list = R[<<"elements", p + 2, n>>] /\ Sound(p + 2, list)
      BY <3>2, <3>3 DEF Same, Fine
    <3>5. Operand(S, p) = Applied("init", Token(p), list)
      BY <1>5, <2>3, <3>1, <3>3, OperandIs
    <3>6. Operand(R, p) = Applied("init", Token(p), list)
      BY <1>5, <2>3, <3>1, <3>4, OperandIs
    <3>7. Sound(p, Applied("init", Token(p), list)) /\ Moves(p, Applied("init", Token(p), list))
      BY <1>1, <1>2, <1>3, <2>1, <2>3, <3>4, AppliedSound
    <3> QED BY <3>5, <3>6, <3>7
  <2> QED BY <2>2, <2>3
<1>6. CASE Token(p) \in Leaves \cup Numbers
  <2>1. p <= Len(tokens)
    BY <1>4, <1>6, KindsInside
  <2>2. PICK t : t = <<"leaf", Token(p)>>
    OBVIOUS
  <2>3. Operand(S, p) = Ok(p + 1, t) /\ Operand(R, p) = Ok(p + 1, t)
    BY <1>6, <2>2, OperandIs
  <2>4. p + 1 <= Len(tokens) + 1
    BY <1>1, <2>1
  <2>5. Sound(p, Ok(p + 1, t)) /\ Moves(p, Ok(p + 1, t))
    BY <1>1, <1>2, <2>1, <2>4, OkSound
  <2> QED BY <2>3, <2>5
<1>7. CASE Token(p) \in DOMAIN Arity
  <2>1. p <= Len(tokens) /\ Ahead(S, R, p)
    BY <1>4, <1>7, KindsInside
  <2>2. CASE Token(p + 1) # "("
    <3>1. Operand(S, p) = Failed(p + 1, TRUE, FALSE) /\ Operand(R, p) = Failed(p + 1, TRUE, FALSE)
      BY <1>7, <2>2, OperandIs
    <3> QED BY <1>1, <3>1, FailedSound
  <2>3. CASE Token(p + 1) = "("
    <3>1. PICK n \in Nat : n = Arity[Token(p)]
      BY <1>7, CountsAssumption
    <3>2. Same(S, R, "arguments", p + 2, n)
      BY <1>1, <1>2, <2>1, AheadIs
    <3>3. PICK list : list = S[<<"arguments", p + 2, n>>]
      OBVIOUS
    <3>4. list = R[<<"arguments", p + 2, n>>] /\ Sound(p + 2, list)
      BY <3>2, <3>3 DEF Same, Fine
    <3>5. Operand(S, p) = Applied("call", Token(p), list)
      BY <1>7, <2>3, <3>1, <3>3, OperandIs
    <3>6. Operand(R, p) = Applied("call", Token(p), list)
      BY <1>7, <2>3, <3>1, <3>4, OperandIs
    <3>7. Sound(p, Applied("call", Token(p), list)) /\ Moves(p, Applied("call", Token(p), list))
      BY <1>1, <1>2, <1>3, <2>1, <2>3, <3>4, AppliedSound
    <3> QED BY <3>5, <3>6, <3>7
  <2> QED BY <2>2, <2>3
<1>8. CASE Token(p) \in Prefixes
  <2>1. p <= Len(tokens) /\ Ahead(S, R, p)
    BY <1>4, <1>8, KindsInside
  <2>2. PICK r : r = S[<<"simple", p + 1, 0>>]
    OBVIOUS
  <2>3. Same(S, R, "simple", p + 1, 0)
    BY <1>1, <1>2, <2>1, AheadIs
  <2>4. r = R[<<"simple", p + 1, 0>>] /\ Sound(p + 1, r) /\ Moves(p + 1, r)
    BY <2>2, <2>3 DEF Same, Fine
  <2>5. CASE r.ok
    <3>1. PICK n \in Nat : n = r.next /\ p + 1 < n /\ n <= Len(tokens) + 1
      BY <1>1, <2>1, <2>4, <2>5 DEF Sound, Moves
    <3>2. p < n /\ p <= n
      BY <1>1, <3>1
    <3>3. PICK t : t = <<"prefix", Token(p), r.tree>>
      OBVIOUS
    <3>4. Operand(S, p) = Ok(n, t)
      BY <1>8, <2>2, <2>5, <3>1, <3>3, OperandIs
    <3>5. Operand(R, p) = Ok(n, t)
      BY <1>8, <2>4, <2>5, <3>1, <3>3, OperandIs
    <3>6. Sound(p, Ok(n, t)) /\ Moves(p, Ok(n, t))
      BY <1>1, <2>1, <3>1, <3>2, OkSound
    <3> QED BY <3>4, <3>5, <3>6
  <2>6. CASE ~r.ok
    <3>1. Operand(S, p) = Complaint(r)
      BY <1>8, <2>2, <2>6, OperandIs
    <3>2. Operand(R, p) = Complaint(r)
      BY <1>8, <2>4, <2>6, OperandIs
    <3> QED BY <2>4, <3>1, <3>2, ComplaintSound
  <2> QED BY <2>5, <2>6
<1>9. CASE Token(p) = "("
  <2>1. p <= Len(tokens) /\ Ahead(S, R, p)
    BY <1>4, <1>9, KindsInside
  <2>2. PICK r : r = S[<<"complex", p + 1, {")"}>>]
    OBVIOUS
  <2>3. {")"} \in SUBSET Separators /\ EndToken \notin {")"}
    BY KindsInside DEF Separators
  <2>4. Same(S, R, "complex", p + 1, {")"})
    BY <1>1, <1>2, <2>1, <2>3, AheadIs
  <2>5. /\ r = R[<<"complex", p + 1, {")"}>>] /\ Sound(p + 1, r) /\ Moves(p + 1, r)
        /\ r.ok => Token(r.next) \in {")"}
    BY <2>2, <2>4 DEF Same, Fine
  <2>6. CASE r.ok
    <3>1. PICK n \in Places : /\ n = r.next /\ p + 1 < n /\ n <= Len(tokens) /\ n + 1 \in Nat
                              /\ n + 1 <= Len(tokens) + 1
      BY <1>1, <2>3, <2>5, <2>6, EndInside
    <3>2. p < n + 1 /\ p <= n + 1
      BY <1>1, <3>1 DEF Places
    <3>3. Operand(S, p) = Ok(n + 1, r.tree)
      BY <1>9, <2>2, <2>6, <3>1, OperandIs
    <3>4. Operand(R, p) = Ok(n + 1, r.tree)
      BY <1>9, <2>5, <2>6, <3>1, OperandIs
    <3>5. Sound(p, Ok(n + 1, r.tree)) /\ Moves(p, Ok(n + 1, r.tree))
      BY <1>1, <2>1, <3>1, <3>2, OkSound
    <3> QED BY <3>3, <3>4, <3>5
  <2>7. CASE ~r.ok
    <3>1. Operand(S, p) = Complaint(r)
      BY <1>9, <2>2, <2>7, OperandIs
    <3>2. Operand(R, p) = Complaint(r)
      BY <1>9, <2>5, <2>7, OperandIs
    <3> QED BY <2>5, <3>1, <3>2, ComplaintSound
  <2> QED BY <2>6, <2>7
<1>10. CASE /\ Token(p) \notin DOMAIN Elements /\ Token(p) \notin Leaves \cup Numbers /\ Token(p) \notin DOMAIN Arity
            /\ Token(p) \notin Prefixes /\ Token(p) # "("
  <2>1. Operand(S, p) = Failed(p + 1, TRUE, FALSE) /\ Operand(R, p) = Failed(p + 1, TRUE, FALSE)
    BY <1>10, OperandIs
  <2> QED BY <1>1, <2>1, FailedSound
<1> QED BY <1>5, <1>6, <1>7, <1>8, <1>9, <1>10

LEMMA ParseSimpleIs ==
    ASSUME NEW R, NEW p
    PROVE  /\ ~Operand(R, p).ok => ParseSimple(R, p) = Operand(R, p)
           /\ Operand(R, p).ok /\ ~R[<<"suffixes", Operand(R, p).next, 0>>].ok =>
                ParseSimple(R, p) = R[<<"suffixes", Operand(R, p).next, 0>>]
           /\ Operand(R, p).ok /\ R[<<"suffixes", Operand(R, p).next, 0>>].ok =>
                ParseSimple(R, p) = Ok(R[<<"suffixes", Operand(R, p).next, 0>>].next,
                                       <<"value", Operand(R, p).tree, R[<<"suffixes", Operand(R, p).next, 0>>].tree>>)
<1>1. PICK base : base = Operand(R, p)
  OBVIOUS
<1>2. PICK list : list = R[<<"suffixes", base.next, 0>>]
  OBVIOUS
<1>3. ParseSimple(R, p) = IF ~base.ok THEN base ELSE IF ~list.ok THEN list
                          ELSE Ok(list.next, <<"value", base.tree, list.tree>>)
  BY <1>1, <1>2, Zenon DEF ParseSimple
<1> QED BY <1>1, <1>2, <1>3, Zenon

LEMMA ParseSimpleSound ==
    ASSUME tokens \in Seq(Tokens), NEW p \in Places, NEW S, NEW R, p <= Len(tokens) => Ahead(S, R, p)
    PROVE  ParseSimple(S, p) = ParseSimple(R, p) /\ Sound(p, ParseSimple(S, p)) /\ Moves(p, ParseSimple(S, p))
<1>1. Len(tokens) \in Nat /\ p \in Nat
  BY TokenAt DEF Places
<1>2. PICK base : base = Operand(S, p)
  OBVIOUS
<1>3. base = Operand(R, p) /\ Sound(p, base) /\ Moves(p, base)
  BY <1>2, OperandSound
<1>4. CASE ~base.ok
  <2>1. ParseSimple(S, p) = base
    BY <1>2, <1>4, ParseSimpleIs
  <2>2. ParseSimple(R, p) = base
    BY <1>3, <1>4, ParseSimpleIs
  <2> QED BY <1>3, <2>1, <2>2
<1>5. CASE base.ok
  <2>1. PICK q \in Nat : q = base.next /\ p < q /\ p <= Len(tokens) /\ q <= Len(tokens) + 1
    BY <1>1, <1>3, <1>5 DEF Sound, Moves
  <2>2. q \in Places /\ q > p /\ Ahead(S, R, p)
    BY <1>1, <2>1 DEF Places
  <2>3. Same(S, R, "suffixes", q, 0)
    BY <1>1, <2>2, AheadIs
  <2>4. PICK list : list = S[<<"suffixes", q, 0>>]
    OBVIOUS
  <2>5. list = R[<<"suffixes", q, 0>>] /\ Sound(q, list)
    BY <2>3, <2>4 DEF Same, Fine
  <2>6. CASE ~list.ok
    <3>1. ParseSimple(S, p) = list
      BY <1>2, <1>5, <2>1, <2>4, <2>6, ParseSimpleIs
    <3>2. ParseSimple(R, p) = list
      BY <1>3, <1>5, <2>1, <2>5, <2>6, ParseSimpleIs
    <3> QED BY <2>5, <2>6, <3>1, <3>2, FailureSound
  <2>7. CASE list.ok
    <3>1. PICK t : t = <<"value", base.tree, list.tree>>
      OBVIOUS
    <3>2. PICK n \in Nat : n = list.next /\ q <= n /\ n <= Len(tokens) + 1
      BY <2>1, <2>5, <2>7 DEF Sound
    <3>3. ParseSimple(S, p) = Ok(n, t)
      BY <1>2, <1>5, <2>1, <2>4, <2>7, <3>1, <3>2, ParseSimpleIs
    <3>4. ParseSimple(R, p) = Ok(n, t)
      BY <1>3, <1>5, <2>1, <2>5, <2>7, <3>1, <3>2, ParseSimpleIs
    <3>5. p < n /\ p <= n
      BY <1>1, <2>1, <3>2
    <3>6. Sound(p, Ok(n, t)) /\ Moves(p, Ok(n, t))
      BY <1>1, <2>1, <3>2, <3>5, OkSound
    <3> QED BY <3>3, <3>4, <3>6
  <2> QED BY <2>6, <2>7
<1> QED BY <1>4, <1>5

LEMMA AssertedIs ==
    ASSUME NEW p, NEW q, NEW r, Sound(q, r)
    PROVE  /\ r.ok => Asserted(r) = r
           /\ ~r.ok => /\ ~Asserted(r).ok /\ Sound(p, Asserted(r)) /\ Moves(p, Asserted(r))
                       /\ Asserted(r).said = r.said /\ (r.said /\ ~r.stop => ~Asserted(r).stop)
<1>1. CASE r.ok
  BY <1>1 DEF Asserted
<1>2. CASE ~r.ok
  <2>1. PICK n \in Nat, said \in BOOLEAN, stop \in BOOLEAN : n = r.next /\ said = r.said /\ stop = r.stop
    BY DEF Sound
  <2>2. PICK w \in BOOLEAN : w = (stop \/ ~said)
    OBVIOUS
  <2>3. Asserted(r) = Failed(n, said, w)
    BY <1>2, <2>1, <2>2 DEF Asserted
  <2>4. PICK f : f = Failed(n, said, w)
    OBVIOUS
  <2>5. f.ok = FALSE /\ f.said = said /\ f.stop = w
    BY <2>4 DEF Failed
  <2>6. Sound(p, f) /\ Moves(p, f)
    BY <2>4, FailedSound
  <2> QED BY <1>2, <2>1, <2>2, <2>3, <2>4, <2>5, <2>6
<1> QED BY <1>1, <1>2

\* What becomes of the second operand b and of the expression c behind it.
Decided(a, b, c, ends) ==
    IF ~b.ok THEN b
    ELSE IF Token(b.next) \in ends THEN Ok(b.next, <<"op", Token(a.next), a.tree, b.tree>>)
    ELSE IF Token(b.next) \notin Ops THEN Failed(b.next, FALSE, FALSE)
    ELSE IF ~c.ok THEN c
    ELSE Ok(c.next, Group(Token(a.next), Token(b.next), a.tree, b.tree, c.tree))

LEMMA SecondIs ==
    ASSUME NEW R, NEW a, NEW ends
    PROVE  LET b == Asserted(R[<<"simple", a.next + 1, 0>>])
           IN  Second(R, a, ends) = Decided(a, b, R[<<"complex", b.next + 1, ends>>], ends)
BY Zenon DEF Second, Decided

LEMMA SecondSound ==
    ASSUME tokens \in Seq(Tokens), NEW p \in Places, NEW S, NEW R, Ahead(S, R, p), NEW ends \in SUBSET Separators,
           NEW a, Sound(p, a), Moves(p, a), a.ok, Token(a.next) \in Ops
    PROVE  /\ Second(S, a, ends) = Second(R, a, ends)
           /\ Sound(p, Second(S, a, ends)) /\ Moves(p, Second(S, a, ends))
           /\ Second(S, a, ends).ok => Token(Second(S, a, ends).next) \in ends
<1>1. Len(tokens) \in Nat /\ p \in Nat
  BY TokenAt DEF Places
<1>2. PICK q \in Places : /\ q = a.next /\ p < q /\ q <= Len(tokens) /\ q + 1 \in Places /\ q + 1 \in Nat
                          /\ p < q + 1 /\ q + 1 <= Len(tokens) + 1 /\ p <= Len(tokens)
  BY KindsInside, EndInside
<1>3. Same(S, R, "simple", q + 1, 0)
  BY <1>1, <1>2, AheadIs
<1>4. PICK r : r = S[<<"simple", q + 1, 0>>]
  OBVIOUS
<1>5. r = R[<<"simple", q + 1, 0>>] /\ Sound(q + 1, r) /\ Moves(q + 1, r)
  BY <1>3, <1>4 DEF Same, Fine
<1>6. PICK b : b = Asserted(r)
  OBVIOUS
<1>7. PICK c : c = S[<<"complex", b.next + 1, ends>>]
  OBVIOUS
<1>8. PICK d : d = R[<<"complex", b.next + 1, ends>>]
  OBVIOUS
<1>9. b = Asserted(S[<<"simple", a.next + 1, 0>>]) /\ b = Asserted(R[<<"simple", a.next + 1, 0>>])
  BY <1>2, <1>4, <1>5, <1>6
<1>10. Second(S, a, ends) = Decided(a, b, c, ends)
  BY <1>7, <1>9, SecondIs, Zenon
<1>11. Second(R, a, ends) = Decided(a, b, d, ends)
  BY <1>8, <1>9, SecondIs, Zenon
<1>12. CASE ~b.ok
  <2>1. Second(S, a, ends) = b
    BY <1>10, <1>12 DEF Decided
  <2>2. Second(R, a, ends) = b
    BY <1>11, <1>12 DEF Decided
  <2>3. Sound(p, b) /\ Moves(p, b)
    BY <1>5, <1>6, <1>12, AssertedIs
  <2> QED BY <1>12, <2>1, <2>2, <2>3
<1>13. CASE b.ok
  <2>1. b = r
    BY <1>5, <1>6, <1>13, AssertedIs
  <2>2. PICK n \in Nat : n = b.next /\ q + 1 < n /\ n <= Len(tokens) + 1
    BY <1>2, <1>5, <1>13, <2>1 DEF Sound, Moves
  <2>3. p < n /\ p <= n /\ n \in Places
    BY <1>1, <1>2, <2>2 DEF Places
  <2>4. CASE Token(n) \in ends
    <3>1. PICK t : t = <<"op", Token(a.next), a.tree, b.tree>>
      OBVIOUS
    <3>2. Second(S, a, ends) = Ok(n, t)
      BY <1>10, <1>13, <2>2, <2>4, <3>1 DEF Decided
    <3>3. Second(R, a, ends) = Ok(n, t)
      BY <1>11, <1>13, <2>2, <2>4, <3>1 DEF Decided
    <3>4. Sound(p, Ok(n, t)) /\ Moves(p, Ok(n, t))
      BY <1>1, <1>2, <2>2, <2>3, OkSound
    <3>5. Ok(n, t).next = n
      BY OkIs
    <3> QED BY <2>4, <3>2, <3>3, <3>4, <3>5
  <2>5. CASE Token(n) \notin ends /\ Token(n) \notin Ops
    <3>1. Second(S, a, ends) = Failed(n, FALSE, FALSE)
      BY <1>10, <1>13, <2>2, <2>5 DEF Decided
    <3>2. Second(R, a, ends) = Failed(n, FALSE, FALSE)
      BY <1>11, <1>13, <2>2, <2>5 DEF Decided
    <3>3. Sound(p, Failed(n, FALSE, FALSE)) /\ Moves(p, Failed(n, FALSE, FALSE)) /\ ~Failed(n, FALSE, FALSE).ok
      BY <2>2, FailedSound, FailedIs
    <3> QED BY <3>1, <3>2, <3>3
  <2>6. CASE Token(n) \notin ends /\ Token(n) \in Ops
    <3>1. n <= Len(tokens)
      BY <2>3, <2>6, KindsInside, TokenInside
    <3>2. n + 1 \in Places /\ n + 1 > p /\ n + 1 \in Nat /\ n + 1 <= Len(tokens) + 1
      BY <1>1, <2>2, <2>3, <3>1 DEF Places
    <3>3. Same(S, R, "complex", n + 1, ends)
      BY <1>1, <3>2, AheadIs
    <3>4. c = S[<<"complex", n + 1, ends>>] /\ d = R[<<"complex", n + 1, ends>>]
      BY <1>7, <1>8, <2>2
    <3>5. c = d /\ Sound(n + 1, c) /\ Moves(n + 1, c) /\ (c.ok => Token(c.next) \in ends)
      BY <3>3, <3>4 DEF Same, Fine
    <3>6. CASE ~c.ok
      <4>1. Second(S, a, ends) = c
        BY <1>10, <1>13, <2>2, <2>6, <3>6 DEF Decided
      <4>2. Second(R, a, ends) = c
        BY <1>11, <1>13, <2>2, <2>6, <3>5, <3>6 DEF Decided
      <4>3. Sound(p, c) /\ Moves(p, c)
        BY <3>5, <3>6, FailureSound
      <4> QED BY <3>6, <4>1, <4>2, <4>3
    <3>7. CASE c.ok
      <4>1. PICK t : t = Group(Token(a.next), Token(b.next), a.tree, b.tree, c.tree)
        OBVIOUS
      <4>2. PICK k \in Nat : k = c.next /\ n + 1 < k /\ k <= Len(tokens) + 1
        BY <3>2, <3>5, <3>7 DEF Sound, Moves
      <4>3. p < k /\ p <= k
        BY <1>1, <2>3, <4>2
      <4>4. Second(S, a, ends) = Ok(k, t)
        BY <1>10, <1>13, <2>2, <2>6, <3>7, <4>1, <4>2 DEF Decided
      <4>5. Second(R, a, ends) = Ok(k, t)
        BY <1>11, <1>13, <2>2, <2>6, <3>5, <3>7, <4>1, <4>2 DEF Decided
      <4>6. Sound(p, Ok(k, t)) /\ Moves(p, Ok(k, t))
        BY <1>1, <1>2, <4>2, <4>3, OkSound
      <4>7. Ok(k, t).next = k
        BY OkIs
      <4> QED BY <3>5, <3>7, <4>2, <4>4, <4>5, <4>6, <4>7
    <3> QED BY <3>6, <3>7
  <2> QED BY <2>4, <2>5, <2>6
<1> QED BY <1>12, <1>13

LEMMA ParseComplexIs ==
    ASSUME NEW R, NEW p, NEW ends
    PROVE  LET a == Asserted(R[<<"simple", p, 0>>]) IN
           /\ ~a.ok => ParseComplex(R, p, ends) = a
           /\ a.ok /\ Token(a.next) \in ends => ParseComplex(R, p, ends) = a
           /\ a.ok /\ Token(a.next) \notin ends /\ Token(a.next) \notin Ops =>
                ParseComplex(R, p, ends) = Failed(a.next, TRUE, FALSE)
           /\ a.ok /\ Token(a.next) \notin ends /\ Token(a.next) \in Ops =>
                ParseComplex(R, p, ends) = Second(R, a, ends)
<1>1. PICK a : a = Asserted(R[<<"simple", p, 0>>])
  OBVIOUS
<1>2. ParseComplex(R, p, ends) = IF ~a.ok \/ Token(a.next) \in ends THEN a
                                 ELSE IF Token(a.next) \notin Ops THEN Failed(a.next, TRUE, FALSE)
                                 ELSE Second(R, a, ends)
  BY <1>1, Zenon DEF ParseComplex
<1>3. /\ ~a.ok => ParseComplex(R, p, ends) = a
      /\ a.ok /\ Token(a.next) \in ends => ParseComplex(R, p, ends) = a
      /\ a.ok /\ Token(a.next) \notin ends /\ Token(a.next) \notin Ops =>
           ParseComplex(R, p, ends) = Failed(a.next, TRUE, FALSE)
      /\ a.ok /\ Token(a.next) \notin ends /\ Token(a.next) \in Ops =>
           ParseComplex(R, p, ends) = Second(R, a, ends)
  BY <1>2, Zenon
<1> QED BY <1>1, <1>3, Zenon

LEMMA ParseComplexSound ==
    ASSUME tokens \in Seq(Tokens), NEW p \in Places, NEW S, NEW R, p <= Len(tokens) => Ahead(S, R, p),
           NEW ends \in SUBSET Separators, Same(S, R, "simple", p, 0)
    PROVE  /\ ParseComplex(S, p, ends) = ParseComplex(R, p, ends)
           /\ Sound(p, ParseComplex(S, p, ends)) /\ Moves(p, ParseComplex(S, p, ends))
           /\ ParseComplex(S, p, ends).ok => Token(ParseComplex(S, p, ends).next) \in ends
<1>1. PICK r : r = S[<<"simple", p, 0>>]
  OBVIOUS
<1>2. r = R[<<"simple", p, 0>>] /\ Sound(p, r) /\ Moves(p, r)
  BY <1>1 DEF Same, Fine
<1>3. PICK a : a = Asserted(r)
  OBVIOUS
<1>4. a = Asserted(S[<<"simple", p, 0>>]) /\ a = Asserted(R[<<"simple", p, 0>>])
  BY <1>1, <1>2, <1>3
<1>5. CASE ~a.ok
  <2>1. ParseComplex(S, p, ends) = a /\ ParseComplex(R, p, ends) = a
    BY <1>4, <1>5, ParseComplexIs
  <2>2. Sound(p, a) /\ Moves(p, a)
    BY <1>2, <1>3, <1>5, AssertedIs
  <2> QED BY <1>5, <2>1, <2>2
<1>6. CASE a.ok
  <2>1. a = r
    BY <1>2, <1>3, <1>6, AssertedIs
  <2>2. CASE Token(a.next) \in ends
    <3>1. ParseComplex(S, p, ends) = a /\ ParseComplex(R, p, ends) = a
      BY <1>4, <1>6, <2>2, ParseComplexIs
    <3> QED BY <1>2, <2>1, <2>2, <3>1
  <2>3. CASE Token(a.next) \notin ends /\ Token(a.next) \notin Ops
    <3>1. PICK n \in Nat : n = a.next
      BY <1>2, <2>1 DEF Sound
    <3>2. ParseComplex(S, p, ends) = Failed(n, TRUE, FALSE) /\ ParseComplex(R, p, ends) = Failed(n, TRUE, FALSE)
      BY <1>4, <1>6, <2>3, <3>1, ParseComplexIs
    <3>3. Sound(p, Failed(n, TRUE, FALSE)) /\ Moves(p, Failed(n, TRUE, FALSE)) /\ ~Failed(n, TRUE, FALSE).ok
      BY FailedSound, FailedIs
    <3> QED BY <3>2, <3>3
  <2>4. CASE Token(a.next) \notin ends /\ Token(a.next) \in Ops
    <3>1. ParseComplex(S, p, ends) = Second(S, a, ends) /\ ParseComplex(R, p, ends) = Second(R, a, ends)
      BY <1>4, <1>6, <2>4, ParseComplexIs
    <3>2. p <= Len(tokens) /\ Sound(p, a) /\ Moves(p, a)
      BY <1>2, <1>6, <2>1 DEF Moves
    <3>3. /\ Second(S, a, ends) = Second(R, a, ends)
          /\ Sound(p, Second(S, a, ends)) /\ Moves(p, Second(S, a, ends))
          /\ Second(S, a, ends).ok => Token(Second(S, a, ends).next) \in ends
      BY <1>6, <2>4, <3>2, SecondSound
    <3> QED BY <3>1, <3>3
  <2> QED BY <2>2, <2>3, <2>4
<1> QED BY <1>5, <1>6

LEMMA CallIsOne ==
    ASSUME NEW R, NEW p, NEW n
    PROVE  /\ Call(R, "simple", p, n) = ParseSimple(R, p) /\ Call(R, "suffixes", p, n) = Suffixes(R, p)
           /\ Call(R, "complex", p, n) = ParseComplex(R, p, n) /\ Call(R, "arguments", p, n) = Arguments(R, p, n)
           /\ Call(R, "elements", p, n) = Initializer(R, p, n)
BY DEF Call

\* A call gets the same from two functions that agree on what costs less, and it is fine.
LEMMA CallSound ==
    ASSUME tokens \in Seq(Tokens), NEW c \in Calls, NEW S, NEW R, Agree(S, R, c)
    PROVE  Call(S, c[1], c[2], c[3]) = Call(R, c[1], c[2], c[3]) /\ FineCall(c, Call(S, c[1], c[2], c[3]))
<1>1. PICK what \in Kinds, p \in Places, n \in Extras :
        /\ c = <<what, p, n>> /\ c[1] = what /\ c[2] = p /\ c[3] = n
        /\ what \in {"simple", "suffixes"} => n = 0
        /\ what \in {"arguments", "elements"} => n \in Nat
        /\ what = "elements" => n # 0
        /\ what = "complex" => n \in SUBSET Separators
  BY CallIs
<1>2. p <= Len(tokens) => Ahead(S, R, p)
  BY <1>1, AgreeIs
<1>3. \A d \in Calls : d[2] = p /\ Rank(d[1]) < Rank(what) => S[d] = R[d] /\ FineCall(d, S[d])
  BY <1>1, AgreeIs
<1>4. ASSUME NEW k, NEW m, <<k, p, m>> \in Calls, Rank(k) < Rank(what) PROVE Same(S, R, k, p, m)
  <2>1. PICK d : d = <<k, p, m>>
    OBVIOUS
  <2>2. d \in Calls /\ d[1] = k /\ d[2] = p /\ d[3] = m
    BY <1>4, <2>1
  <2>3. S[d] = R[d] /\ Fine(k, p, m, S[d])
    BY <1>3, <1>4, <2>2 DEF FineCall
  <2> QED BY <2>1, <2>3 DEF Same
<1> SUFFICES Call(S, what, p, n) = Call(R, what, p, n) /\ Fine(what, p, n, Call(S, what, p, n))
  BY <1>1 DEF FineCall
<1>5. CASE what = "simple"
  <2>1. ParseSimple(S, p) = ParseSimple(R, p) /\ Sound(p, ParseSimple(S, p)) /\ Moves(p, ParseSimple(S, p))
    BY <1>2, ParseSimpleSound
  <2>2. Call(S, what, p, n) = ParseSimple(S, p) /\ Call(R, what, p, n) = ParseSimple(R, p)
    BY <1>5, CallIsOne
  <2> QED BY <1>5, <2>1, <2>2 DEF Fine
<1>6. CASE what = "suffixes"
  <2>1. Suffixes(S, p) = Suffixes(R, p) /\ Sound(p, Suffixes(S, p))
    BY <1>2, SuffixesSound
  <2>2. Call(S, what, p, n) = Suffixes(S, p) /\ Call(R, what, p, n) = Suffixes(R, p)
    BY <1>6, CallIsOne
  <2> QED BY <1>6, <2>1, <2>2 DEF Fine
<1>7. CASE what = "complex"
  <2>1. Rank("simple") < Rank("complex")
    BY DEF Rank
  <2>2. Same(S, R, "simple", p, 0) /\ n \in SUBSET Separators
    BY <1>1, <1>4, <1>7, <2>1, CallsAre
  <2>3. /\ ParseComplex(S, p, n) = ParseComplex(R, p, n)
        /\ Sound(p, ParseComplex(S, p, n)) /\ Moves(p, ParseComplex(S, p, n))
        /\ ParseComplex(S, p, n).ok => Token(ParseComplex(S, p, n).next) \in n
    BY <1>2, <2>2, ParseComplexSound
  <2>4. Call(S, what, p, n) = ParseComplex(S, p, n) /\ Call(R, what, p, n) = ParseComplex(R, p, n)
    BY <1>7, CallIsOne
  <2> QED BY <1>7, <2>3, <2>4 DEF Fine
<1>8. ASSUME what \in {"arguments", "elements"} PROVE \A ends \in SUBSET Separators : Same(S, R, "complex", p, ends)
  <2>1. Rank("complex") < Rank(what)
    BY <1>8 DEF Rank
  <2> QED BY <1>4, <2>1, CallsAre
<1>9. CASE what = "arguments"
  <2>1. n \in Nat
    BY <1>1, <1>9
  <2>2. Arguments(S, p, n) = Arguments(R, p, n) /\ Sound(p, Arguments(S, p, n))
    BY <1>2, <1>8, <1>9, <2>1, ArgumentsSound
  <2>3. Call(S, what, p, n) = Arguments(S, p, n) /\ Call(R, what, p, n) = Arguments(R, p, n)
    BY <1>9, CallIsOne
  <2> QED BY <1>9, <2>2, <2>3 DEF Fine
<1>10. CASE what = "elements"
  <2>1. n \in Nat \ {0}
    BY <1>1, <1>10
  <2>2. /\ Initializer(S, p, n) = Initializer(R, p, n)
        /\ Sound(p, Initializer(S, p, n)) /\ Moves(p, Initializer(S, p, n))
    BY <1>2, <1>8, <1>10, <2>1, InitializerSound
  <2>3. Call(S, what, p, n) = Initializer(S, p, n) /\ Call(R, what, p, n) = Initializer(R, p, n)
    BY <1>10, CallIsOne
  <2> QED BY <1>10, <2>2, <2>3 DEF Fine
<1> QED BY <1>5, <1>6, <1>7, <1>9, <1>10 DEF Kinds

\* So the definition of Parsed has a solution, and every result is as it should be.
LEMMA ParsedUnfolded ==
    ASSUME tokens \in Seq(Tokens)
    PROVE  \A c \in Calls : Parsed[c] = Call(Parsed, c[1], c[2], c[3]) /\ FineCall(c, Parsed[c])
<1> DEFINE m == [c \in Calls |-> Cost(c)]
           Low(n) == {c \in Calls : Cost(c) < n}
           Solved(S, n) == /\ S = [c \in Low(n) |-> S[c]]
                           /\ \A c \in Low(n) : S[c] = Call(S, c[1], c[2], c[3]) /\ FineCall(c, S[c])
<1>1. \A c \in Calls : Cost(c) \in Nat
  BY CostIs
<1>2. m \in [Calls -> Nat] /\ \A c \in Calls : m[c] = Cost(c)
  BY <1>1
<1> HIDE DEF m
<1>3. ASSUME NEW n \in Nat, NEW k \in Nat, n <= k, NEW S, Solved(S, n), NEW R, Solved(R, k), NEW x \in Low(n)
      PROVE  S[x] = R[x]
  <2> DEFINE T == {c \in Calls : c \in Low(n) => S[c] = R[c]}
  <2>1. \A c \in Calls : (\A d \in Calls : m[d] < m[c] => d \in T) => c \in T
    <3> SUFFICES ASSUME NEW c \in Calls, c \in Low(n), \A d \in Calls : m[d] < m[c] => d \in T PROVE S[c] = R[c]
      OBVIOUS
    <3>1. c \in Low(k) /\ Cost(c) \in Nat /\ Cost(c) < n
      BY <1>1, <1>3
    <3>2. ASSUME NEW d \in Calls, Cost(d) < Cost(c) PROVE S[d] = R[d] /\ FineCall(d, S[d])
      <4>1. Cost(d) \in Nat
        BY <1>1
      <4>2. d \in Low(n)
        BY <3>1, <3>2, <4>1
      <4>3. d \in T
        BY <1>2, <3>2
      <4> QED BY <4>2, <4>3, <1>3
    <3>3. Agree(S, R, c)
      BY <3>2 DEF Agree
    <3>4. Call(S, c[1], c[2], c[3]) = Call(R, c[1], c[2], c[3])
      BY <3>3, CallSound
    <3>5. S[c] = Call(S, c[1], c[2], c[3]) /\ R[c] = Call(R, c[1], c[2], c[3])
      BY <3>1, <1>3
    <3> QED BY <3>4, <3>5
  <2>2. Calls \subseteq T
    <3> HIDE DEF T, Low, Solved
    <3> QED BY <1>2, <2>1, MeasureInduction
  <2>3. x \in Calls
    BY <1>3
  <2> QED BY <2>2, <2>3, <1>3
<1>4. \A n \in Nat : \E S : Solved(S, n)
  <2> DEFINE G == {n \in Nat : \E S : Solved(S, n)}
             id == [n \in Nat |-> n]
  <2>1. \A n \in Nat : (\A k \in Nat : id[k] < id[n] => k \in G) => n \in G
    <3> SUFFICES ASSUME NEW n \in Nat, \A k \in Nat : k < n => k \in G PROVE \E S : Solved(S, n)
      OBVIOUS
    <3>1. CASE n = 0
      <4> DEFINE S == [c \in Low(n) |-> 0]
      <4>1. \A c \in Calls : ~(Cost(c) < n)
        BY <1>1, <3>1
      <4>2. Low(n) = {}
        BY <4>1
      <4>3. Solved(S, n)
        BY <4>2
      <4> HIDE DEF S, Solved
      <4> QED BY <4>3
    <3>2. CASE n # 0
      <4>1. n - 1 \in Nat /\ n - 1 < n
        BY <3>2
      <4>2. PICK S : Solved(S, n - 1)
        BY <4>1
      <4> DEFINE R == [c \in Low(n) |-> Call(S, c[1], c[2], c[3])]
      <4>3. \A c \in Low(n - 1) : c \in Low(n)
        <5> TAKE c \in Low(n - 1)
        <5>1. c \in Calls /\ Cost(c) \in Nat /\ Cost(c) < n - 1
          BY <1>1
        <5> QED BY <4>1, <5>1
      <4>4. \A c \in Low(n - 1) : R[c] = S[c] /\ FineCall(c, S[c])
        BY <4>2, <4>3
      <4>5. ASSUME NEW c \in Low(n) PROVE R[c] = Call(R, c[1], c[2], c[3]) /\ FineCall(c, R[c])
        <5>1. c \in Calls /\ Cost(c) \in Nat /\ Cost(c) < n
          BY <1>1
        <5>2. ASSUME NEW d \in Calls, Cost(d) < Cost(c) PROVE S[d] = R[d] /\ FineCall(d, S[d])
          <6>1. Cost(d) \in Nat
            BY <1>1
          <6>2. d \in Low(n - 1)
            BY <5>1, <5>2, <6>1
          <6> HIDE DEF R
          <6> QED BY <4>4, <6>2
        <5>3. Agree(S, R, c)
          <6> HIDE DEF R
          <6> QED BY <5>2 DEF Agree
        <5>4. R[c] = Call(S, c[1], c[2], c[3])
          OBVIOUS
        <5> HIDE DEF R
        <5>5. Call(S, c[1], c[2], c[3]) = Call(R, c[1], c[2], c[3]) /\ FineCall(c, Call(S, c[1], c[2], c[3]))
          BY <5>1, <5>3, CallSound
        <5> QED BY <5>4, <5>5
      <4>6. R = [c \in Low(n) |-> R[c]]
        OBVIOUS
      <4>7. Solved(R, n)
        <5> HIDE DEF R
        <5> QED BY <4>5, <4>6
      <4> HIDE DEF R, Solved
      <4> QED BY <4>7
    <3> QED BY <3>1, <3>2
  <2>2. Nat \subseteq G
    <3>1. id \in [Nat -> Nat]
      OBVIOUS
    <3> HIDE DEF G, id
    <3> QED BY <2>1, <3>1, MeasureInduction
  <2> QED BY <2>2
<1> DEFINE At(n) == CHOOSE S : Solved(S, n)
           F == [c \in Calls |-> At(Cost(c) + 1)[c]]
<1>5. \A n \in Nat : Solved(At(n), n)
  BY <1>4
<1>6. ASSUME NEW c \in Calls, NEW d \in Calls, Cost(d) <= Cost(c)
      PROVE  F[d] = At(Cost(c) + 1)[d] /\ FineCall(d, F[d])
  <2>1. Cost(d) \in Nat /\ Cost(c) \in Nat
    BY <1>1
  <2>2. /\ Cost(d) + 1 \in Nat /\ Cost(c) + 1 \in Nat /\ Cost(d) + 1 <= Cost(c) + 1
        /\ d \in Low(Cost(d) + 1)
    BY <1>6, <2>1
  <2>3. Solved(At(Cost(d) + 1), Cost(d) + 1) /\ Solved(At(Cost(c) + 1), Cost(c) + 1)
    BY <2>2, <1>5
  <2>4. F[d] = At(Cost(d) + 1)[d]
    OBVIOUS
  <2> HIDE DEF At, F
  <2>5. FineCall(d, At(Cost(d) + 1)[d])
    BY <2>2, <2>3
  <2> HIDE DEF Solved, Low
  <2>6. At(Cost(d) + 1)[d] = At(Cost(c) + 1)[d]
    BY <2>2, <2>3, <1>3
  <2> QED BY <2>4, <2>5, <2>6
<1>7. ASSUME NEW c \in Calls PROVE F[c] = Call(F, c[1], c[2], c[3]) /\ FineCall(c, F[c])
  <2>1. Cost(c) \in Nat /\ Cost(c) + 1 \in Nat /\ c \in Low(Cost(c) + 1) /\ Cost(c) <= Cost(c)
    <3>1. Cost(c) \in Nat
      BY <1>1
    <3> QED BY <3>1
  <2>2. Solved(At(Cost(c) + 1), Cost(c) + 1)
    BY <2>1, <1>5
  <2> HIDE DEF F, At
  <2>3. At(Cost(c) + 1)[c] = Call(At(Cost(c) + 1), c[1], c[2], c[3])
    BY <2>1, <2>2
  <2> HIDE DEF Low, Solved
  <2>4. F[c] = At(Cost(c) + 1)[c] /\ FineCall(c, F[c])
    BY <2>1, <1>6
  <2>5. ASSUME NEW d \in Calls, Cost(d) < Cost(c) PROVE F[d] = At(Cost(c) + 1)[d] /\ FineCall(d, F[d])
    <3>1. Cost(d) \in Nat
      BY <1>1
    <3>2. Cost(d) <= Cost(c)
      BY <2>1, <2>5, <3>1
    <3> QED BY <3>2, <1>6
  <2>6. Agree(F, At(Cost(c) + 1), c)
    BY <2>5 DEF Agree
  <2>7. Call(F, c[1], c[2], c[3]) = Call(At(Cost(c) + 1), c[1], c[2], c[3])
    BY <2>6, CallSound
  <2> QED BY <2>3, <2>4, <2>7
<1>8. F = [c \in Calls |-> Call(F, c[1], c[2], c[3])]
  <2>1. F = [c \in Calls |-> F[c]]
    OBVIOUS
  <2> HIDE DEF F
  <2> QED BY <1>7, <2>1
<1> HIDE DEF F
<1>9. Parsed = CHOOSE G : G = [c \in Calls |-> Call(G, c[1], c[2], c[3])]
  BY DEF Parsed
<1>10. Parsed = [c \in Calls |-> Call(Parsed, c[1], c[2], c[3])]
  <2> HIDE DEF Low, Solved
  <2> QED BY <1>8, <1>9
<1>11. \A c \in Calls : Parsed[c] = Call(Parsed, c[1], c[2], c[3])
  <2>1. PICK P : P = Parsed
    OBVIOUS
  <2>2. P = [c \in Calls |-> Call(P, c[1], c[2], c[3])]
    BY <1>10, <2>1
  <2>3. \A c \in Calls : P[c] = Call(P, c[1], c[2], c[3])
    BY <2>2
  <2> QED BY <2>1, <2>3
\* The solution is the only one.
<1>12. \A c \in Calls : Parsed[c] = F[c]
  <2> DEFINE T == {c \in Calls : Parsed[c] = F[c]}
  <2>1. \A c \in Calls : (\A d \in Calls : m[d] < m[c] => d \in T) => c \in T
    <3> SUFFICES ASSUME NEW c \in Calls, \A d \in Calls : m[d] < m[c] => d \in T PROVE Parsed[c] = F[c]
      OBVIOUS
    <3>1. \A d \in Calls : Cost(d) < Cost(c) => F[d] = Parsed[d] /\ FineCall(d, F[d])
      BY <1>2, <1>7
    <3>2. Agree(F, Parsed, c)
      BY <3>1 DEF Agree
    <3>3. Call(F, c[1], c[2], c[3]) = Call(Parsed, c[1], c[2], c[3])
      BY <3>2, CallSound
    <3> QED BY <3>3, <1>7, <1>11
  <2>2. Calls \subseteq T
    <3> HIDE DEF T, Low, Solved
    <3> QED BY <1>2, <2>1, MeasureInduction
  <2> QED BY <2>2
<1> QED BY <1>7, <1>11, <1>12

-----------------------------------------------------------------------------
(* The state variables hold values of their types.                         *)

LEMMA ParsedSound ==
    ASSUME tokens \in Seq(Tokens), NEW what, NEW p, NEW n, <<what, p, n>> \in Calls
    PROVE  /\ Parsed[<<what, p, n>>] = Call(Parsed, what, p, n)
           /\ Fine(what, p, n, Parsed[<<what, p, n>>])
<1>1. PICK c : c = <<what, p, n>>
  OBVIOUS
<1>2. c \in Calls /\ c[1] = what /\ c[2] = p /\ c[3] = n
  BY <1>1
<1>3. Parsed[c] = Call(Parsed, what, p, n) /\ Fine(what, p, n, Parsed[c])
  BY <1>2, ParsedUnfolded DEF FineCall
<1> QED BY <1>1, <1>3

\* The result of ParseComplexExpression on any text is a result, and behind an
\* expression that is read the parser stands at a token of the text or at its end.
THEOREM TypeCorrect == Spec => []TypeOK
<1>1. Init => TypeOK
  <2> SUFFICES ASSUME Init PROVE TypeOK
    OBVIOUS
  <2>1. tokens \in Inputs /\ phase = "start" /\ result = Failed(1, FALSE, FALSE)
    BY DEF Init
  <2>2. result.ok = FALSE /\ result.said = FALSE /\ result.stop = FALSE /\ result.next = 1
    BY <2>1 DEF Failed
  <2>3. result.ok \in BOOLEAN /\ result.said \in BOOLEAN /\ result.stop \in BOOLEAN
    BY <2>2
  <2>4. result.next \in Nat /\ (result.ok => result.next \in 1..(Len(tokens) + 1))
    BY <2>2
  <2>5. phase \in {"start", "done"}
    BY <2>1
  <2> QED BY <2>1, <2>3, <2>4, <2>5 DEF TypeOK
<1>2. TypeOK /\ [Next]_vars => TypeOK'
  <2> SUFFICES ASSUME TypeOK, [Next]_vars PROVE TypeOK'
    OBVIOUS
  <2>1. CASE Next
    <3>1. tokens' = tokens /\ phase' = "done" /\ result' = Parsed[<<"complex", 1, {EndToken}>>]
      BY <2>1 DEF Next, Parse
    <3>2. tokens \in Seq(Tokens) /\ Len(tokens) \in Nat
      BY InputsAssumption DEF TypeOK
    <3>3. 1 \in Places /\ {EndToken} \in SUBSET Separators
      BY DEF Places, Separators
    <3>4. Fine("complex", 1, {EndToken}, Parsed[<<"complex", 1, {EndToken}>>])
      BY <3>2, <3>3, CallsAre, ParsedSound
    <3>5. PICK r : r = Parsed[<<"complex", 1, {EndToken}>>]
      OBVIOUS
    <3>6. Sound(1, r) /\ Moves(1, r)
      BY <3>4, <3>5 DEF Fine
    <3>7. r.ok \in BOOLEAN /\ r.said \in BOOLEAN /\ r.stop \in BOOLEAN /\ r.next \in Nat
      BY <3>6 DEF Sound
    <3>8. r.ok => r.next \in 1..(Len(tokens) + 1)
      BY <3>2, <3>6 DEF Sound, Moves
    <3> QED BY <3>1, <3>5, <3>7, <3>8 DEF TypeOK
  <2>2. CASE UNCHANGED vars
    BY <2>2 DEF vars, TypeOK
  <2> QED BY <2>1, <2>2
<1> QED BY <1>1, <1>2, PTL DEF Spec

-----------------------------------------------------------------------------
(* Nothing but an initializer is given up without a message.               *)

\* T holds of what a call may need.
Below(T, c) ==
    /\ c[2] <= Len(tokens) => \A d \in Calls : d[2] > c[2] => d \in T
    /\ \A d \in Calls : d[2] = c[2] /\ Rank(d[1]) < Rank(c[1]) => d \in T

LEMMA CallInduction ==
    ASSUME tokens \in Seq(Tokens), NEW T, \A c \in Calls : Below(T, c) => c \in T
    PROVE  Calls \subseteq T
<1> DEFINE m == [c \in Calls |-> Cost(c)]
<1>1. m \in [Calls -> Nat] /\ \A c \in Calls : m[c] = Cost(c)
  BY CostIs
<1> HIDE DEF m
<1>2. ASSUME NEW c \in Calls, \A d \in Calls : m[d] < m[c] => d \in T PROVE c \in T
  <2>1. \A d \in Calls : Cost(d) < Cost(c) => d \in T
    BY <1>1, <1>2
  <2>2. Below(T, c)
    BY <2>1, CostIs DEF Below
  <2> QED BY <2>2
<1> QED BY <1>1, <1>2, MeasureInduction

\* No assertion fails, and what is not an expression up to a separator has a message.
NoInitializer == \A k \in 1..Len(tokens) : tokens[k] \notin DOMAIN Elements
Quiet(what, r) == ~r.stop /\ (what # "complex" /\ ~r.ok => r.said)
QuietCall(c) == c[1] # "elements" => Quiet(c[1], Parsed[c])
QuietAhead(p) == \A c \in Calls : c[2] > p => QuietCall(c)

LEMMA QuietIs ==
    ASSUME NEW p, QuietAhead(p), NEW q \in Places, q > p
    PROVE  /\ Quiet("simple", Parsed[<<"simple", q, 0>>]) /\ Quiet("suffixes", Parsed[<<"suffixes", q, 0>>])
           /\ \A n \in Nat : Quiet("arguments", Parsed[<<"arguments", q, n>>])
           /\ \A ends \in SUBSET Separators : Quiet("complex", Parsed[<<"complex", q, ends>>])
<1>1. ASSUME NEW what, NEW n, <<what, q, n>> \in Calls, what # "elements" PROVE Quiet(what, Parsed[<<what, q, n>>])
  <2>1. PICK c : c = <<what, q, n>>
    OBVIOUS
  <2>2. c \in Calls /\ c[1] = what /\ c[2] = q
    BY <1>1, <2>1
  <2>3. Quiet(what, Parsed[c])
    BY <1>1, <2>2 DEF QuietAhead, QuietCall
  <2> QED BY <2>1, <2>3
<1> QED BY <1>1, CallsAre

LEMMA QuietResults ==
    ASSUME NEW what, NEW next, NEW tree, NEW stop \in BOOLEAN
    PROVE  /\ Quiet(what, Ok(next, tree))
           /\ Quiet(what, Failed(next, TRUE, FALSE)) /\ Quiet("complex", Failed(next, FALSE, FALSE))
<1>1. Quiet(what, Ok(next, tree))
  BY DEF Quiet, Ok
<1>2. Quiet(what, Failed(next, TRUE, FALSE)) /\ Quiet("complex", Failed(next, FALSE, FALSE))
  BY DEF Quiet, Failed
<1> QED BY <1>1, <1>2

LEMMA QuietComplaint ==
    ASSUME NEW what, NEW r, ~r.stop
    PROVE  Quiet(what, Complaint(r))
BY DEF Quiet, Complaint, Failed

LEMMA QuietListed ==
    ASSUME NEW what, NEW tree, NEW rest, Quiet(what, rest)
    PROVE  Quiet(what, Listed(tree, rest))
<1>1. CASE rest.ok
  <2>1. PICK t : t = <<tree>> \o rest.tree
    OBVIOUS
  <2>2. Listed(tree, rest) = Ok(rest.next, t)
    BY <1>1, <2>1 DEF Listed
  <2> QED BY <2>2, QuietResults
<1>2. CASE ~rest.ok
  BY <1>2 DEF Listed
<1> QED BY <1>1, <1>2

LEMMA SuffixesQuiet ==
    ASSUME tokens \in Seq(Tokens), NEW p \in Places, p <= Len(tokens) => QuietAhead(p)
    PROVE  Quiet("suffixes", Suffixes(Parsed, p))
<1>1. Len(tokens) \in Nat /\ p \in Nat /\ p + 1 \in Places /\ p + 2 \in Places /\ p + 1 > p /\ p + 2 > p
  BY TokenAt DEF Places
<1>2. CASE Token(p) = "." /\ Token(p + 1) \in Names
  <2>1. QuietAhead(p)
    BY <1>2, KindsInside, TokenInside
  <2>2. Quiet("suffixes", Parsed[<<"suffixes", p + 2, 0>>])
    BY <1>1, <2>1, QuietIs
  <2>3. Quiet("suffixes", Listed(<<".", Token(p + 1)>>, Parsed[<<"suffixes", p + 2, 0>>]))
    BY <2>2, QuietListed
  <2> QED BY <1>2, <2>3, SuffixesIs
<1>3. CASE Token(p) = "." /\ Token(p + 1) \notin Names
  BY <1>3, SuffixesIs, QuietResults
<1>4. CASE Token(p) = "["
  <2>1. QuietAhead(p)
    BY <1>4, KindsInside, TokenInside
  <2>2. {"]"} \in SUBSET Separators /\ EndToken \notin {"]"}
    BY KindsInside DEF Separators
  <2>3. PICK index : index = Parsed[<<"complex", p + 1, {"]"}>>]
    OBVIOUS
  <2>4. Quiet("complex", index)
    BY <1>1, <2>1, <2>2, <2>3, QuietIs
  <2>5. Fine("complex", p + 1, {"]"}, index)
    BY <1>1, <2>2, <2>3, CallsAre, ParsedSound
  <2>6. CASE index.ok
    <3>1. PICK n \in Places : n = index.next /\ p + 1 < n /\ n + 1 \in Places
      BY <1>1, <2>2, <2>5, <2>6, EndInside DEF Fine
    <3>2. n + 1 > p
      BY <1>1, <3>1 DEF Places
    <3>3. Quiet("suffixes", Parsed[<<"suffixes", n + 1, 0>>])
      BY <2>1, <3>1, <3>2, QuietIs
    <3>4. Suffixes(Parsed, p) = Listed(<<"[", index.tree>>, Parsed[<<"suffixes", n + 1, 0>>])
      BY <1>4, <2>3, <2>6, <3>1, SuffixesIs
    <3> QED BY <3>3, <3>4, QuietListed
  <2>7. CASE ~index.ok
    <3>1. Suffixes(Parsed, p) = Complaint(index)
      BY <1>4, <2>3, <2>7, SuffixesIs
    <3> QED BY <2>4, <3>1, QuietComplaint DEF Quiet
  <2> QED BY <2>6, <2>7
<1>5. CASE Token(p) # "." /\ Token(p) # "["
  BY <1>5, SuffixesIs, QuietResults
<1> QED BY <1>2, <1>3, <1>4, <1>5

LEMMA ArgumentsQuiet ==
    ASSUME tokens \in Seq(Tokens), NEW p \in Places, NEW n \in Nat, p <= Len(tokens) => QuietAhead(p),
           \A ends \in SUBSET Separators : Quiet("complex", Parsed[<<"complex", p, ends>>])
    PROVE  Quiet("arguments", Arguments(Parsed, p, n))
<1>1. Len(tokens) \in Nat /\ p \in Nat
  BY TokenAt DEF Places
<1>2. CASE n = 0
  <2>1. Arguments(Parsed, p, n) = Ok(p, <<>>)
    BY <1>2, ArgumentsIs
  <2> QED BY <2>1, QuietResults
<1>3. CASE n # 0
  <2>1. PICK ends : ends = ArgumentEnds(n)
    OBVIOUS
  <2>2. ends \in SUBSET Separators /\ EndToken \notin ends
    BY <2>1, KindsInside DEF Separators, ArgumentEnds
  <2>3. PICK r : r = Parsed[<<"complex", p, ends>>]
    OBVIOUS
  <2>4. Fine("complex", p, ends, r) /\ Quiet("complex", r)
    BY <2>2, <2>3, CallsAre, ParsedSound
  <2>5. CASE r.ok
    <3>1. PICK k \in Places : k = r.next /\ k + 1 \in Places /\ p < k + 1 /\ p <= Len(tokens)
      BY <2>2, <2>4, <2>5, EndInside DEF Fine
    <3>2. n - 1 \in Nat /\ k + 1 > p
      BY <1>1, <1>3, <3>1 DEF Places
    <3>3. PICK rest : rest = Parsed[<<"arguments", k + 1, n - 1>>]
      OBVIOUS
    <3>4. Quiet("arguments", rest)
      BY <3>1, <3>2, <3>3, QuietIs
    <3>5. Arguments(Parsed, p, n) = Listed(r.tree, Parsed[<<"arguments", r.next + 1, n - 1>>])
      BY <1>3, <2>1, <2>3, <2>5, ArgumentsIs
    <3> QED BY <3>1, <3>3, <3>4, <3>5, QuietListed
  <2>6. CASE ~r.ok
    <3>1. Arguments(Parsed, p, n) = Complaint(r)
      BY <1>3, <2>1, <2>3, <2>6, ArgumentsIs
    <3> QED BY <2>4, <3>1, QuietComplaint DEF Quiet
  <2> QED BY <2>5, <2>6
<1> QED BY <1>2, <1>3

LEMMA AppliedQuiet ==
    ASSUME NEW kind, NEW name, NEW list, Quiet("arguments", list)
    PROVE  Quiet("simple", Applied(kind, name, list))
<1>1. CASE list.ok
  <2>1. PICK t : t = <<kind, name, list.tree>>
    OBVIOUS
  <2>2. Applied(kind, name, list) = Ok(list.next, t)
    BY <1>1, <2>1 DEF Applied
  <2> QED BY <2>2, QuietResults
<1>2. CASE ~list.ok
  BY <1>2 DEF Applied, Quiet
<1> QED BY <1>1, <1>2

LEMMA OperandQuiet ==
    ASSUME tokens \in Seq(Tokens), NoInitializer, NEW p \in Places, p <= Len(tokens) => QuietAhead(p)
    PROVE  Quiet("simple", Operand(Parsed, p))
<1>1. Len(tokens) \in Nat /\ p \in Nat /\ p + 1 \in Places /\ p + 2 \in Places /\ p + 1 > p /\ p + 2 > p
  BY TokenAt DEF Places
<1>2. ASSUME Token(p) # EndToken PROVE QuietAhead(p)
  BY <1>2, TokenInside
<1>3. Token(p) \notin DOMAIN Elements
  <2>1. CASE p <= Len(tokens)
    <3>1. Token(p) = tokens[p] /\ p \in 1..Len(tokens)
      BY <1>1, <2>1, TokenAt DEF Places
    <3> QED BY <3>1 DEF NoInitializer
  <2>2. CASE ~(p <= Len(tokens))
    <3>1. p > Len(tokens)
      BY <1>1, <2>2
    <3>2. Token(p) = EndToken
      BY <3>1, TokenAt
    <3> QED BY <3>2, KindsInside
  <2> QED BY <2>1, <2>2
<1>4. CASE Token(p) \in Leaves \cup Numbers
  <2>1. Operand(Parsed, p) = Ok(p + 1, <<"leaf", Token(p)>>)
    BY <1>4, OperandIs
  <2> QED BY <2>1, QuietResults
<1>5. CASE Token(p) \in DOMAIN Arity
  <2>1. CASE Token(p + 1) # "("
    <3>1. Operand(Parsed, p) = Failed(p + 1, TRUE, FALSE)
      BY <1>5, <2>1, OperandIs
    <3> QED BY <3>1, QuietResults
  <2>2. CASE Token(p + 1) = "("
    <3>1. PICK n \in Nat : n = Arity[Token(p)]
      BY <1>5, CountsAssumption
    <3>2. PICK list : list = Parsed[<<"arguments", p + 2, n>>]
      OBVIOUS
    <3>3. Quiet("arguments", list)
      BY <1>1, <1>2, <1>5, <3>2, KindsInside, QuietIs
    <3>4. Operand(Parsed, p) = Applied("call", Token(p), list)
      BY <1>5, <2>2, <3>1, <3>2, OperandIs
    <3> QED BY <3>3, <3>4, AppliedQuiet
  <2> QED BY <2>1, <2>2
<1>6. CASE Token(p) \in Prefixes
  <2>1. PICK r : r = Parsed[<<"simple", p + 1, 0>>]
    OBVIOUS
  <2>2. Quiet("simple", r)
    BY <1>1, <1>2, <1>6, <2>1, KindsInside, QuietIs
  <2>3. CASE r.ok
    <3>1. Operand(Parsed, p) = Ok(r.next, <<"prefix", Token(p), r.tree>>)
      BY <1>6, <2>1, <2>3, OperandIs
    <3> QED BY <3>1, QuietResults
  <2>4. CASE ~r.ok
    <3>1. Operand(Parsed, p) = Complaint(r)
      BY <1>6, <2>1, <2>4, OperandIs
    <3> QED BY <2>2, <3>1, QuietComplaint DEF Quiet
  <2> QED BY <2>3, <2>4
<1>7. CASE Token(p) = "("
  <2>1. PICK r : r = Parsed[<<"complex", p + 1, {")"}>>]
    OBVIOUS
  <2>2. {")"} \in SUBSET Separators
    BY DEF Separators
  <2>3. Quiet("complex", r)
    BY <1>1, <1>2, <1>7, <2>1, <2>2, KindsInside, QuietIs
  <2>4. CASE r.ok
    <3>1. Operand(Parsed, p) = Ok(r.next + 1, r.tree)
      BY <1>7, <2>1, <2>4, OperandIs
    <3> QED BY <3>1, QuietResults
  <2>5. CASE ~r.ok
    <3>1. Operand(Parsed, p) = Complaint(r)
      BY <1>7, <2>1, <2>5, OperandIs
    <3> QED BY <2>3, <3>1, QuietComplaint DEF Quiet
  <2> QED BY <2>4, <2>5
<1>8. CASE /\ Token(p) \notin Leaves \cup Numbers /\ Token(p) \notin DOMAIN Arity
           /\ Token(p) \notin Prefixes /\ Token(p) # "("
  <2>1. Operand(Parsed, p) = Failed(p + 1, TRUE, FALSE)
    BY <1>3, <1>8, OperandIs
  <2> QED BY <2>1, QuietResults
<1> QED BY <1>4, <1>5, <1>6, <1>7, <1>8

LEMMA ParseSimpleQuiet ==
    ASSUME tokens \in Seq(Tokens), NoInitializer, NEW p \in Places, p <= Len(tokens) => QuietAhead(p)
    PROVE  Quiet("simple", ParseSimple(Parsed, p))
<1>1. Len(tokens) \in Nat /\ p \in Nat
  BY TokenAt DEF Places
<1>2. PICK base : base = Operand(Parsed, p)
  OBVIOUS
<1>3. Quiet("simple", base)
  BY <1>2, OperandQuiet
<1>4. CASE ~base.ok
  <2>1. ParseSimple(Parsed, p) = base
    BY <1>2, <1>4, ParseSimpleIs
  <2> QED BY <1>3, <2>1
<1>5. CASE base.ok
  <2>1. p <= Len(tokens) => Ahead(Parsed, Parsed, p)
    BY ParsedUnfolded DEF Ahead
  <2>2. Sound(p, base) /\ Moves(p, base)
    BY <1>2, <2>1, OperandSound
  <2>3. PICK q \in Places : q = base.next /\ q > p /\ p <= Len(tokens)
    BY <1>1, <1>5, <2>2 DEF Sound, Moves, Places
  <2>4. PICK list : list = Parsed[<<"suffixes", q, 0>>]
    OBVIOUS
  <2>5. Quiet("suffixes", list)
    BY <2>3, <2>4, QuietIs
  <2>6. CASE list.ok
    <3>1. PICK t : t = <<"value", base.tree, list.tree>>
      OBVIOUS
    <3>2. ParseSimple(Parsed, p) = Ok(list.next, t)
      BY <1>2, <1>5, <2>3, <2>4, <2>6, <3>1, ParseSimpleIs
    <3> QED BY <3>2, QuietResults
  <2>7. CASE ~list.ok
    <3>1. ParseSimple(Parsed, p) = list
      BY <1>2, <1>5, <2>3, <2>4, <2>7, ParseSimpleIs
    <3> QED BY <2>5, <3>1 DEF Quiet
  <2> QED BY <2>6, <2>7
<1> QED BY <1>4, <1>5

LEMMA AssertedQuiet ==
    ASSUME NEW r, Quiet("simple", r)
    PROVE  Quiet("simple", Asserted(r)) /\ (r.ok => Asserted(r) = r)
<1>1. CASE r.ok
  BY <1>1 DEF Asserted
<1>2. CASE ~r.ok
  <2>1. r.said /\ ~r.stop
    BY <1>2 DEF Quiet
  <2>2. Asserted(r) = Failed(r.next, r.said, r.stop \/ ~r.said)
    BY <1>2 DEF Asserted
  <2>3. Asserted(r).said = r.said /\ Asserted(r).stop = (r.stop \/ ~r.said)
    BY <2>2 DEF Failed
  <2>4. Asserted(r).said /\ ~Asserted(r).stop
    BY <2>1, <2>3
  <2> QED BY <1>2, <2>4 DEF Quiet
<1> QED BY <1>1, <1>2

LEMMA SecondQuiet ==
    ASSUME tokens \in Seq(Tokens), NEW p \in Places, QuietAhead(p), NEW ends \in SUBSET Separators,
           NEW a, Sound(p, a), Moves(p, a), a.ok, Token(a.next) \in Ops
    PROVE  Quiet("complex", Second(Parsed, a, ends))
<1>1. Len(tokens) \in Nat /\ p \in Nat
  BY TokenAt DEF Places
<1>2. PICK q \in Places : q = a.next /\ p < q /\ q + 1 \in Places /\ p < q + 1
  BY KindsInside, EndInside
<1>3. PICK r : r = Parsed[<<"simple", q + 1, 0>>]
  OBVIOUS
<1>4. Quiet("simple", r) /\ Fine("simple", q + 1, 0, r)
  BY <1>1, <1>2, <1>3, QuietIs, CallsAre, ParsedSound
<1>5. PICK b : b = Asserted(r)
  OBVIOUS
<1>6. PICK c : c = Parsed[<<"complex", b.next + 1, ends>>]
  OBVIOUS
<1>7. b = Asserted(Parsed[<<"simple", a.next + 1, 0>>])
  BY <1>2, <1>3, <1>5
<1>8. Second(Parsed, a, ends) = Decided(a, b, c, ends)
  BY <1>6, <1>7, SecondIs, Zenon
<1>9. Quiet("simple", b) /\ (r.ok => b = r)
  BY <1>4, <1>5, AssertedQuiet
<1>10. CASE ~b.ok
  <2>1. Second(Parsed, a, ends) = b
    BY <1>8, <1>10 DEF Decided
  <2> QED BY <1>9, <2>1 DEF Quiet
<1>11. CASE b.ok
  <2>1. b = r
    BY <1>4, <1>5, <1>11, AssertedIs DEF Fine
  <2>2. PICK n \in Nat : n = b.next /\ q + 1 < n
    BY <1>2, <1>4, <1>11, <2>1 DEF Fine, Sound, Moves
  <2>3. CASE Token(n) \in ends
    <3>1. PICK t : t = <<"op", Token(a.next), a.tree, b.tree>>
      OBVIOUS
    <3>2. Second(Parsed, a, ends) = Ok(n, t)
      BY <1>8, <1>11, <2>2, <2>3, <3>1 DEF Decided
    <3> QED BY <3>2, QuietResults
  <2>4. CASE Token(n) \notin ends /\ Token(n) \notin Ops
    <3>1. Second(Parsed, a, ends) = Failed(n, FALSE, FALSE)
      BY <1>8, <1>11, <2>2, <2>4 DEF Decided
    <3> QED BY <3>1, QuietResults
  <2>5. CASE Token(n) \notin ends /\ Token(n) \in Ops
    <3>1. n + 1 \in Places /\ n + 1 > p
      BY <1>1, <1>2, <2>2 DEF Places
    <3>2. Quiet("complex", c)
      BY <1>6, <2>2, <3>1, QuietIs
    <3>3. CASE ~c.ok
      <4>1. Second(Parsed, a, ends) = c
        BY <1>8, <1>11, <2>2, <2>5, <3>3 DEF Decided
      <4> QED BY <3>2, <4>1
    <3>4. CASE c.ok
      <4>1. PICK t : t = Group(Token(a.next), Token(b.next), a.tree, b.tree, c.tree)
        OBVIOUS
      <4>2. Second(Parsed, a, ends) = Ok(c.next, t)
        BY <1>8, <1>11, <2>2, <2>5, <3>4, <4>1 DEF Decided
      <4> QED BY <4>2, QuietResults
    <3> QED BY <3>3, <3>4
  <2> QED BY <2>3, <2>4, <2>5
<1> QED BY <1>10, <1>11

LEMMA ParseComplexQuiet ==
    ASSUME tokens \in Seq(Tokens), NEW p \in Places, p <= Len(tokens) => QuietAhead(p),
           NEW ends \in SUBSET Separators, Quiet("simple", Parsed[<<"simple", p, 0>>])
    PROVE  Quiet("complex", ParseComplex(Parsed, p, ends))
<1>1. PICK r : r = Parsed[<<"simple", p, 0>>]
  OBVIOUS
<1>2. PICK a : a = Asserted(r)
  OBVIOUS
<1>3. a = Asserted(Parsed[<<"simple", p, 0>>])
  BY <1>1, <1>2
<1>4. Fine("simple", p, 0, r) /\ Quiet("simple", r)
  BY <1>1, CallsAre, ParsedSound
<1>5. Quiet("complex", a)
  BY <1>2, <1>4, AssertedQuiet DEF Quiet
<1>6. CASE ~a.ok \/ Token(a.next) \in ends
  <2>1. ParseComplex(Parsed, p, ends) = a
    BY <1>3, <1>6, ParseComplexIs
  <2> QED BY <1>5, <2>1
<1>7. CASE a.ok /\ Token(a.next) \notin ends /\ Token(a.next) \notin Ops
  <2>1. ParseComplex(Parsed, p, ends) = Failed(a.next, TRUE, FALSE)
    BY <1>3, <1>7, ParseComplexIs
  <2> QED BY <2>1, QuietResults
<1>8. CASE a.ok /\ Token(a.next) \notin ends /\ Token(a.next) \in Ops
  <2>1. ParseComplex(Parsed, p, ends) = Second(Parsed, a, ends)
    BY <1>3, <1>8, ParseComplexIs
  <2>2. a = r
    BY <1>2, <1>4, <1>8, AssertedIs DEF Fine
  <2>3. Sound(p, a) /\ Moves(p, a) /\ p <= Len(tokens)
    BY <1>4, <1>8, <2>2 DEF Fine, Moves
  <2> QED BY <1>8, <2>1, <2>3, SecondQuiet
<1> QED BY <1>6, <1>7, <1>8

LEMMA CallsQuiet ==
    ASSUME tokens \in Seq(Tokens), NoInitializer
    PROVE  \A c \in Calls : QuietCall(c)
<1> DEFINE T == {c \in Calls : QuietCall(c)}
<1>1. ASSUME NEW c \in Calls, Below(T, c) PROVE c \in T
  <2>1. PICK what \in Kinds, p \in Places, n \in Extras :
          /\ c = <<what, p, n>> /\ c[1] = what /\ c[2] = p /\ c[3] = n
          /\ what \in {"simple", "suffixes"} => n = 0
          /\ what \in {"arguments", "elements"} => n \in Nat
          /\ what = "elements" => n # 0
          /\ what = "complex" => n \in SUBSET Separators
    BY CallIs
  <2>2. p <= Len(tokens) => QuietAhead(p)
    BY <1>1, <2>1 DEF Below, QuietAhead
  <2>3. ASSUME NEW k, NEW m, <<k, p, m>> \in Calls, Rank(k) < Rank(what), k # "elements"
        PROVE  Quiet(k, Parsed[<<k, p, m>>])
    <3>1. PICK d : d = <<k, p, m>>
      OBVIOUS
    <3>2. d \in Calls /\ d[1] = k /\ d[2] = p
      BY <2>3, <3>1
    <3>3. d \in T
      BY <1>1, <2>1, <2>3, <3>2 DEF Below
    <3>4. Quiet(k, Parsed[d])
      BY <2>3, <3>2, <3>3 DEF QuietCall
    <3> QED BY <3>1, <3>4
  <2>4. Parsed[c] = Call(Parsed, what, p, n)
    BY <2>1, ParsedSound
  <2> SUFFICES ASSUME what # "elements" PROVE Quiet(what, Call(Parsed, what, p, n))
    BY <2>1, <2>4 DEF QuietCall
  <2>5. CASE what = "simple"
    BY <2>2, <2>5, CallIsOne, ParseSimpleQuiet
  <2>6. CASE what = "suffixes"
    BY <2>2, <2>6, CallIsOne, SuffixesQuiet
  <2>7. CASE what = "complex"
    <3>1. Rank("simple") < Rank("complex") /\ "simple" # "elements"
      BY DEF Rank
    <3>2. Quiet("simple", Parsed[<<"simple", p, 0>>])
      BY <2>3, <2>7, <3>1, CallsAre
    <3> QED BY <2>1, <2>2, <2>7, <3>2, CallIsOne, ParseComplexQuiet
  <2>8. CASE what = "arguments"
    <3>1. Rank("complex") < Rank("arguments") /\ "complex" # "elements"
      BY DEF Rank
    <3>2. \A ends \in SUBSET Separators : Quiet("complex", Parsed[<<"complex", p, ends>>])
      BY <2>3, <2>8, <3>1, CallsAre
    <3> QED BY <2>1, <2>2, <2>8, <3>2, CallIsOne, ArgumentsQuiet
  <2> QED BY <2>5, <2>6, <2>7, <2>8 DEF Kinds
<1>2. Calls \subseteq T
  <2> HIDE DEF T
  <2> QED BY <1>1, CallInduction
<1> QED BY <1>2

\* The assertion of ParseComplexExpression that a simple expression which could not be
\* parsed left a message holds of every text without an initializer.
THEOREM MessagesForRefusals == Spec => []RefusalsHaveMessages
<1>1. Init => RefusalsHaveMessages
  BY DEF Init, Failed, RefusalsHaveMessages
<1>2. TypeOK /\ RefusalsHaveMessages /\ [Next]_vars => RefusalsHaveMessages'
  <2> SUFFICES ASSUME TypeOK, RefusalsHaveMessages, [Next]_vars PROVE RefusalsHaveMessages'
    OBVIOUS
  <2>1. CASE Next
    <3>1. tokens' = tokens /\ result' = Parsed[<<"complex", 1, {EndToken}>>]
      BY <2>1 DEF Next, Parse
    <3>2. tokens \in Seq(Tokens)
      BY InputsAssumption DEF TypeOK
    <3>3. DOMAIN tokens = 1..Len(tokens)
      BY <3>2
    <3>4. CASE NoInitializer
      <4>1. PICK c : c = <<"complex", 1, {EndToken}>>
        OBVIOUS
      <4>2. 1 \in Places /\ {EndToken} \in SUBSET Separators
        BY DEF Places, Separators
      <4>3. c \in Calls /\ c[1] = "complex"
        BY <4>1, <4>2, CallsAre
      <4>4. Quiet("complex", Parsed[c])
        BY <3>2, <3>4, <4>3, CallsQuiet DEF QuietCall
      <4>5. PICK r : r = Parsed[c]
        OBVIOUS
      <4>6. ~r.stop /\ result' = r
        BY <3>1, <4>1, <4>4, <4>5 DEF Quiet
      <4> QED BY <4>6 DEF RefusalsHaveMessages
    <3>5. CASE ~NoInitializer
      BY <3>1, <3>3, <3>5 DEF NoInitializer, RefusalsHaveMessages
    <3> QED BY <3>4, <3>5
  <2>2. CASE UNCHANGED vars
    BY <2>2 DEF vars, RefusalsHaveMessages
  <2> QED BY <2>1, <2>2
<1> QED BY <1>1, <1>2, TypeCorrect, PTL DEF Spec

-----------------------------------------------------------------------------
(* The trees of a piece of the text are defined by those of shorter ones.  *)

Shapes == {"chain", "list", "suffixes"}
Width(i, j) == IF i <= j THEN j - i ELSE 0
Size(d) == 2 * Width(d[2], d[3]) + (IF d[1] = "list" THEN 1 ELSE 0)

\* Two functions give the pieces shorter than n the same trees.
Shorter(i, j, n) == Width(i, j) < n
SameTrees(U, V, n) == \A d \in Pieces : Shorter(d[2], d[3], n) => U[d] = V[d]

LEMMA PieceIs ==
    ASSUME NEW d \in Pieces
    PROVE  /\ \E what \in Shapes, i \in Places, j \in Places, k \in Nat :
                 d = <<what, i, j, k>> /\ d[1] = what /\ d[2] = i /\ d[3] = j /\ d[4] = k
           /\ Width(d[2], d[3]) \in Nat /\ Size(d) \in Nat
<1>1. PICK what \in Shapes, i \in Places, j \in Places, k \in Nat : d = <<what, i, j, k>>
  BY DEF Pieces, Shapes
<1>2. d[1] = what /\ d[2] = i /\ d[3] = j /\ d[4] = k
  BY <1>1
<1>3. Width(i, j) \in Nat
  BY DEF Width, Places
<1> QED BY <1>1, <1>2, <1>3 DEF Size

LEMMA PiecesAre ==
    ASSUME NEW i \in Places, NEW j \in Places, NEW k \in Nat
    PROVE  <<"chain", i, j, k>> \in Pieces /\ <<"list", i, j, k>> \in Pieces /\ <<"suffixes", i, j, k>> \in Pieces
BY DEF Pieces

LEMMA SameChains ==
    ASSUME NEW U, NEW V, NEW n, SameTrees(U, V, n), NEW i \in Places, NEW j \in Places, Shorter(i, j, n), NEW k \in Nat
    PROVE  U[<<"chain", i, j, k>>] = V[<<"chain", i, j, k>>]
<1>1. PICK d : d = <<"chain", i, j, k>>
  OBVIOUS
<1>2. d \in Pieces /\ d[2] = i /\ d[3] = j
  BY <1>1, PiecesAre
<1> QED BY <1>1, <1>2 DEF SameTrees

LEMMA SameLists ==
    ASSUME NEW U, NEW V, NEW n, SameTrees(U, V, n), NEW i \in Places, NEW j \in Places, Shorter(i, j, n), NEW k \in Nat
    PROVE  U[<<"list", i, j, k>>] = V[<<"list", i, j, k>>]
<1>1. PICK d : d = <<"list", i, j, k>>
  OBVIOUS
<1>2. d \in Pieces /\ d[2] = i /\ d[3] = j
  BY <1>1, PiecesAre
<1> QED BY <1>1, <1>2 DEF SameTrees

LEMMA SameSuffixes ==
    ASSUME NEW U, NEW V, NEW n, SameTrees(U, V, n), NEW i \in Places, NEW j \in Places, Shorter(i, j, n), NEW k \in Nat
    PROVE  U[<<"suffixes", i, j, k>>] = V[<<"suffixes", i, j, k>>]
<1>1. PICK d : d = <<"suffixes", i, j, k>>
  OBVIOUS
<1>2. d \in Pieces /\ d[2] = i /\ d[3] = j
  BY <1>1, PiecesAre
<1> QED BY <1>1, <1>2 DEF SameTrees

LEMMA InExpressions ==
    ASSUME NEW T, NEW i, NEW j, NEW t
    PROVE  t \in Expressions(T, i, j) <=> \E k \in 0..(j - i) : t \in T[<<"chain", i, j, k>>] /\ (k = 2 => ByLevel(t))
<1> DEFINE F(k) == {x \in T[<<"chain", i, j, k>>] : k = 2 => ByLevel(x)}
           D == 0..(j - i)
<1>1. Expressions(T, i, j) = UNION {F(k) : k \in D}
  BY DEF Expressions
<1>2. \A k : t \in F(k) <=> t \in T[<<"chain", i, j, k>>] /\ (k = 2 => ByLevel(t))
  OBVIOUS
<1> HIDE DEF F
<1>3. t \in UNION {F(k) : k \in D} <=> \E k \in D : t \in F(k)
  <2> HIDE DEF D
  <2> QED OBVIOUS
<1> QED BY <1>1, <1>2, <1>3, Zenon

LEMMA PrimariesAre ==
    ASSUME NEW T, NEW i, NEW j
    PROVE  /\ Token(i) \in Leaves \cup Numbers =>
                Primaries(T, i, j) = IF j = i + 1 THEN {<<"leaf", Token(i)>>} ELSE {}
           /\ Token(i) = "(" =>
                Primaries(T, i, j) = IF i + 1 < j /\ Token(j - 1) = ")" THEN Expressions(T, i + 1, j - 1) ELSE {}
           /\ Token(i) \in DOMAIN Arity /\ Token(i + 1) = "(" =>
                Primaries(T, i, j) =
                  IF Arity[Token(i)] = 0 THEN IF j = i + 2 THEN {<<"call", Token(i), <<>>>>} ELSE {}
                  ELSE IF i + 2 < j /\ Token(j - 1) = ")"
                  THEN {<<"call", Token(i), l>> : l \in T[<<"list", i + 2, j - 1, Arity[Token(i)]>>]} ELSE {}
           /\ Token(i) \in DOMAIN Elements /\ Token(i + 1) = "(" =>
                Primaries(T, i, j) =
                  IF i + 2 < j
                  THEN UNION {{<<"init", Token(i), l>> : l \in T[<<"list", i + 2, j - 1, k>>]} :
                                 k \in {k \in 1..Elements[Token(i)] : Closes(j - 1, k, Elements[Token(i)])}}
                  ELSE {}
           /\ /\ Token(i) \notin Leaves \cup Numbers /\ Token(i) # "("
              /\ ~(Token(i) \in DOMAIN Arity /\ Token(i + 1) = "(")
              /\ ~(Token(i) \in DOMAIN Elements /\ Token(i + 1) = "(")
              => Primaries(T, i, j) = {}
<1>1. CASE Token(i) \in Leaves \cup Numbers
  <2>1. Token(i) # "(" /\ Token(i) \notin DOMAIN Arity /\ Token(i) \notin DOMAIN Elements
    BY <1>1, KindsApart
  <2>2. Primaries(T, i, j) = IF j = i + 1 THEN {<<"leaf", Token(i)>>} ELSE {}
    BY <1>1, <2>1, Zenon DEF Primaries
  <2> QED BY <1>1, <2>1, <2>2, Zenon
<1>2. CASE Token(i) = "("
  <2>1. Token(i) \notin Leaves \cup Numbers /\ Token(i) \notin DOMAIN Arity /\ Token(i) \notin DOMAIN Elements
    BY <1>2, KindsApart
  <2>2. Primaries(T, i, j) = IF i + 1 < j /\ Token(j - 1) = ")" THEN Expressions(T, i + 1, j - 1) ELSE {}
    BY <1>2, <2>1, Zenon DEF Primaries
  <2> QED BY <1>2, <2>1, <2>2, Zenon
<1>3. CASE Token(i) \in DOMAIN Arity /\ Token(i + 1) = "("
  <2>1. Token(i) \notin Leaves \cup Numbers /\ Token(i) # "(" /\ Token(i) \notin DOMAIN Elements
    BY <1>3, KindsApart
  <2>2. Primaries(T, i, j) =
          IF Arity[Token(i)] = 0 THEN IF j = i + 2 THEN {<<"call", Token(i), <<>>>>} ELSE {}
          ELSE IF i + 2 < j /\ Token(j - 1) = ")"
          THEN {<<"call", Token(i), l>> : l \in T[<<"list", i + 2, j - 1, Arity[Token(i)]>>]} ELSE {}
    BY <1>3, <2>1, Zenon DEF Primaries
  <2> QED BY <1>3, <2>1, <2>2, Zenon
<1>4. CASE Token(i) \in DOMAIN Elements /\ Token(i + 1) = "("
  <2>1. Token(i) \notin Leaves \cup Numbers /\ Token(i) # "(" /\ Token(i) \notin DOMAIN Arity
    BY <1>4, KindsApart
  <2>2. Primaries(T, i, j) =
          IF i + 2 < j
          THEN UNION {{<<"init", Token(i), l>> : l \in T[<<"list", i + 2, j - 1, k>>]} :
                         k \in {k \in 1..Elements[Token(i)] : Closes(j - 1, k, Elements[Token(i)])}}
          ELSE {}
    BY <1>4, <2>1, Zenon DEF Primaries
  <2> QED BY <1>4, <2>1, <2>2, Zenon
<1>5. CASE /\ Token(i) \notin Leaves \cup Numbers /\ Token(i) # "("
           /\ ~(Token(i) \in DOMAIN Arity /\ Token(i + 1) = "(")
           /\ ~(Token(i) \in DOMAIN Elements /\ Token(i + 1) = "(")
  <2>1. Primaries(T, i, j) = {}
    BY <1>5, Zenon DEF Primaries
  <2> QED BY <1>5, <2>1, Zenon
<1> QED BY <1>1, <1>2, <1>3, <1>4, <1>5

\* The ways to be a primary expression.
IsLeaf(i, j, t) == Token(i) \in Leaves \cup Numbers /\ j = i + 1 /\ t = <<"leaf", Token(i)>>
IsGroup(T, i, j, t) == Token(i) = "(" /\ i + 1 < j /\ Token(j - 1) = ")" /\ t \in Expressions(T, i + 1, j - 1)
IsBareCall(i, j, t) ==
    /\ Token(i) \in DOMAIN Arity /\ Token(i + 1) = "(" /\ Arity[Token(i)] = 0 /\ j = i + 2
    /\ t = <<"call", Token(i), <<>>>>
IsCall(T, i, j, t) ==
    /\ Token(i) \in DOMAIN Arity /\ Token(i + 1) = "(" /\ Arity[Token(i)] # 0
    /\ i + 2 < j /\ Token(j - 1) = ")"
    /\ \E l \in T[<<"list", i + 2, j - 1, Arity[Token(i)]>>] : t = <<"call", Token(i), l>>
IsInit(T, i, j, t) ==
    /\ Token(i) \in DOMAIN Elements /\ Token(i + 1) = "(" /\ i + 2 < j
    /\ \E k \in 1..Elements[Token(i)] :
          Closes(j - 1, k, Elements[Token(i)])
          /\ \E l \in T[<<"list", i + 2, j - 1, k>>] : t = <<"init", Token(i), l>>

LEMMA InPrimaries ==
    ASSUME NEW T, NEW i, NEW j, NEW t
    PROVE  t \in Primaries(T, i, j) <=>
             IsLeaf(i, j, t) \/ IsGroup(T, i, j, t) \/ IsBareCall(i, j, t) \/ IsCall(T, i, j, t) \/ IsInit(T, i, j, t)
<1>1. CASE Token(i) \in Leaves \cup Numbers
  <2>1. Token(i) # "(" /\ Token(i) \notin DOMAIN Arity /\ Token(i) \notin DOMAIN Elements
    BY <1>1, KindsApart
  <2>2. Primaries(T, i, j) = IF j = i + 1 THEN {<<"leaf", Token(i)>>} ELSE {}
    BY <1>1, PrimariesAre
  <2> QED BY <1>1, <2>1, <2>2, Zenon DEF IsLeaf, IsGroup, IsBareCall, IsCall, IsInit
<1>2. CASE Token(i) = "("
  <2>1. Token(i) \notin Leaves \cup Numbers /\ Token(i) \notin DOMAIN Arity /\ Token(i) \notin DOMAIN Elements
    BY <1>2, KindsApart
  <2>2. Primaries(T, i, j) = IF i + 1 < j /\ Token(j - 1) = ")" THEN Expressions(T, i + 1, j - 1) ELSE {}
    BY <1>2, PrimariesAre
  <2> QED BY <1>2, <2>1, <2>2, Zenon DEF IsLeaf, IsGroup, IsBareCall, IsCall, IsInit
<1>3. CASE Token(i) \in DOMAIN Arity /\ Token(i + 1) = "("
  <2>1. Token(i) \notin Leaves \cup Numbers /\ Token(i) # "(" /\ Token(i) \notin DOMAIN Elements
    BY <1>3, KindsApart
  <2>2. Primaries(T, i, j) =
          IF Arity[Token(i)] = 0 THEN IF j = i + 2 THEN {<<"call", Token(i), <<>>>>} ELSE {}
          ELSE IF i + 2 < j /\ Token(j - 1) = ")"
          THEN {<<"call", Token(i), l>> : l \in T[<<"list", i + 2, j - 1, Arity[Token(i)]>>]} ELSE {}
    BY <1>3, PrimariesAre
  <2>3. CASE Arity[Token(i)] = 0
    <3>1. Primaries(T, i, j) = IF j = i + 2 THEN {<<"call", Token(i), <<>>>>} ELSE {}
      BY <2>2, <2>3
    <3> QED BY <1>3, <2>1, <2>3, <3>1, Zenon DEF IsLeaf, IsGroup, IsBareCall, IsCall, IsInit
  <2>4. CASE Arity[Token(i)] # 0
    <3>1. Primaries(T, i, j) = IF i + 2 < j /\ Token(j - 1) = ")"
            THEN {<<"call", Token(i), l>> : l \in T[<<"list", i + 2, j - 1, Arity[Token(i)]>>]} ELSE {}
      BY <2>2, <2>4
    <3> QED BY <1>3, <2>1, <2>4, <3>1, Zenon DEF IsLeaf, IsGroup, IsBareCall, IsCall, IsInit
  <2> QED BY <2>3, <2>4
<1>4. CASE Token(i) \in DOMAIN Elements /\ Token(i + 1) = "("
  <2>1. Token(i) \notin Leaves \cup Numbers /\ Token(i) # "(" /\ Token(i) \notin DOMAIN Arity
    BY <1>4, KindsApart
  <2>2. Primaries(T, i, j) =
          IF i + 2 < j
          THEN UNION {{<<"init", Token(i), l>> : l \in T[<<"list", i + 2, j - 1, k>>]} :
                         k \in {k \in 1..Elements[Token(i)] : Closes(j - 1, k, Elements[Token(i)])}}
          ELSE {}
    BY <1>4, PrimariesAre
  <2>3. t \in UNION {{<<"init", Token(i), l>> : l \in T[<<"list", i + 2, j - 1, k>>]} :
                       k \in {k \in 1..Elements[Token(i)] : Closes(j - 1, k, Elements[Token(i)])}}
        <=> \E k \in 1..Elements[Token(i)] :
              Closes(j - 1, k, Elements[Token(i)])
              /\ \E l \in T[<<"list", i + 2, j - 1, k>>] : t = <<"init", Token(i), l>>
    <3> DEFINE F(k) == {<<"init", Token(i), l>> : l \in T[<<"list", i + 2, j - 1, k>>]}
               D == {k \in 1..Elements[Token(i)] : Closes(j - 1, k, Elements[Token(i)])}
    <3>1. \A k : t \in F(k) <=> \E l \in T[<<"list", i + 2, j - 1, k>>] : t = <<"init", Token(i), l>>
      BY Zenon
    <3>2. \A k : k \in D <=> k \in 1..Elements[Token(i)] /\ Closes(j - 1, k, Elements[Token(i)])
      BY Zenon
    <3> HIDE DEF F, D
    <3>3. t \in UNION {F(k) : k \in D} <=> \E k \in D : t \in F(k)
      OBVIOUS
    <3>4. t \in UNION {F(k) : k \in D} <=> \E k \in 1..Elements[Token(i)] :
              Closes(j - 1, k, Elements[Token(i)])
              /\ \E l \in T[<<"list", i + 2, j - 1, k>>] : t = <<"init", Token(i), l>>
      BY <3>1, <3>2, <3>3, Zenon
    <3> QED BY <3>4 DEF F, D
  <2>4. t \in Primaries(T, i, j) <=>
          i + 2 < j /\ \E k \in 1..Elements[Token(i)] :
              Closes(j - 1, k, Elements[Token(i)])
              /\ \E l \in T[<<"list", i + 2, j - 1, k>>] : t = <<"init", Token(i), l>>
    BY <2>2, <2>3, Zenon
  <2> QED BY <1>4, <2>1, <2>4, Zenon DEF IsLeaf, IsGroup, IsBareCall, IsCall, IsInit
<1>5. CASE /\ Token(i) \notin Leaves \cup Numbers /\ Token(i) # "("
           /\ ~(Token(i) \in DOMAIN Arity /\ Token(i + 1) = "(")
           /\ ~(Token(i) \in DOMAIN Elements /\ Token(i + 1) = "(")
  <2>1. Primaries(T, i, j) = {}
    BY <1>5, PrimariesAre
  <2> QED BY <1>5, <2>1, Zenon DEF IsLeaf, IsGroup, IsBareCall, IsCall, IsInit
<1> QED BY <1>1, <1>2, <1>3, <1>4, <1>5

\* The ways to be an expression without a binary operator.
IsValue(T, i, j, t) ==
    \E m \in (i + 1)..j : \E b \in Primaries(T, i, m) : \E k \in 0..(j - m) :
      \E s \in T[<<"suffixes", m, j, k>>] : t = <<"value", b, s>>
IsPrefixed(T, i, j, t) ==
    /\ Token(i) \in Prefixes /\ i + 1 < j
    /\ \E a \in T[<<"chain", i + 1, j, 0>>] : t = <<"value", <<"prefix", Token(i), a>>, <<>>>>

LEMMA InSimples ==
    ASSUME NEW T, NEW i, NEW j, NEW x
    PROVE  x \in Simples(T, i, j) <=>
             IsValue(T, i, j, x) \/ IsPrefixed(T, i, j, x)
<1> DEFINE S(m, k) == T[<<"suffixes", m, j, k>>]
           L(m) == UNION {S(m, k) : k \in 0..(j - m)}
           F(m, b) == {<<"value", b, s>> : s \in L(m)}
           P(m) == Primaries(T, i, m)
           G(m) == UNION {F(m, b) : b \in P(m)}
           D == (i + 1)..j
           A == UNION {G(m) : m \in D}
           B == IF Token(i) \in Prefixes /\ i + 1 < j
                THEN {<<"value", <<"prefix", Token(i), t>>, <<>>>> : t \in T[<<"chain", i + 1, j, 0>>]} ELSE {}
<1>1. Simples(T, i, j) = A \cup B
  BY DEF Simples
<1>2. x \in B <=> /\ Token(i) \in Prefixes /\ i + 1 < j
                  /\ \E a \in T[<<"chain", i + 1, j, 0>>] : x = <<"value", <<"prefix", Token(i), a>>, <<>>>>
  BY Zenon
<1> HIDE DEF B, S
<1>3. \A m, s : s \in L(m) <=> \E k \in 0..(j - m) : s \in S(m, k)
  OBVIOUS
<1> HIDE DEF L
<1>4. \A m, b : x \in F(m, b) <=> \E s \in L(m) : x = <<"value", b, s>>
  BY Zenon
<1> HIDE DEF F, P
<1>5. \A m : x \in G(m) <=> \E b \in P(m) : x \in F(m, b)
  OBVIOUS
<1> HIDE DEF G, D
<1>6. x \in A <=> \E m \in D : x \in G(m)
  OBVIOUS
<1> HIDE DEF A
<1>7. x \in Simples(T, i, j) <=> x \in A \/ x \in B
  BY <1>1
<1>8. \A m, b : x \in F(m, b) <=> \E k \in 0..(j - m) : \E s \in S(m, k) : x = <<"value", b, s>>
  <2> TAKE m, b
  <2>1. (\E s \in L(m) : x = <<"value", b, s>>) <=> \E k \in 0..(j - m) : \E s \in S(m, k) : x = <<"value", b, s>>
    BY <1>3, Zenon
  <2> QED BY <1>4, <2>1, Zenon
<1>9. x \in A <=> \E m \in D : \E b \in P(m) : \E k \in 0..(j - m) : \E s \in S(m, k) : x = <<"value", b, s>>
  BY <1>5, <1>6, <1>8, Zenon
<1>10. x \in Simples(T, i, j) <=>
         \/ \E m \in D : \E b \in P(m) : \E k \in 0..(j - m) : \E s \in S(m, k) : x = <<"value", b, s>>
         \/ /\ Token(i) \in Prefixes /\ i + 1 < j
            /\ \E a \in T[<<"chain", i + 1, j, 0>>] : x = <<"value", <<"prefix", Token(i), a>>, <<>>>>
  BY <1>2, <1>7, <1>9, Zenon
<1> QED BY <1>10, Zenon DEF D, P, S, IsValue, IsPrefixed

\* A binary operator between two expressions.
IsOperation(T, i, j, n, t) ==
    \E m \in (i + 1)..(j - 2) : \E l \in 0..(n - 1) :
      Token(m) \in Ops /\ \E a \in T[<<"chain", i, m, l>>], b \in T[<<"chain", m + 1, j, n - 1 - l>>] :
                            t = <<"op", Token(m), a, b>>

LEMMA InOperations ==
    ASSUME NEW T, NEW i, NEW j, NEW n, NEW t
    PROVE  t \in Operations(T, i, j, n, FALSE) <=>
             IsOperation(T, i, j, n, t)
<1> DEFINE A(m, l) == T[<<"chain", i, m, l>>]
           B(m, l) == T[<<"chain", m + 1, j, n - 1 - l>>]
           E(m, l) == {<<"op", Token(m), a, b>> : a \in A(m, l), b \in B(m, l)}
           F(m, l) == {x \in E(m, l) : FALSE => NoneWeaker(x)}
           K == 0..(n - 1)
           G(m) == UNION {F(m, l) : l \in K}
           D == {m \in (i + 1)..(j - 2) : Token(m) \in Ops}
<1>1. Operations(T, i, j, n, FALSE) = UNION {G(m) : m \in D}
  BY DEF Operations
<1>2. \A m : m \in D <=> m \in (i + 1)..(j - 2) /\ Token(m) \in Ops
  BY Zenon
<1> HIDE DEF A, B, D
<1>3. \A m, l : t \in E(m, l) <=> \E a \in A(m, l), b \in B(m, l) : t = <<"op", Token(m), a, b>>
  OBVIOUS
<1> HIDE DEF E
<1>4. \A m, l : t \in F(m, l) <=> t \in E(m, l)
  BY Zenon
<1> HIDE DEF F, K
<1>5. \A m : t \in G(m) <=> \E l \in K : t \in F(m, l)
  OBVIOUS
<1> HIDE DEF G
<1>6. t \in UNION {G(m) : m \in D} <=> \E m \in D : t \in G(m)
  OBVIOUS
<1>7. t \in Operations(T, i, j, n, FALSE) <=>
        \E m \in (i + 1)..(j - 2) : \E l \in K :
          Token(m) \in Ops /\ \E a \in A(m, l), b \in B(m, l) : t = <<"op", Token(m), a, b>>
  BY <1>1, <1>2, <1>3, <1>4, <1>5, <1>6, Zenon
<1> QED BY <1>7, Zenon DEF A, B, K, IsOperation

Comma == ","

\* An expression, a comma and a list that is not empty.
IsList(T, i, j, n, t) ==
    \E m \in (i + 1)..(j - 2) :
      Token(m) = Comma /\ \E e \in Expressions(T, i, m), l \in T[<<"list", m + 1, j, n - 1>>] : t = <<e>> \o l

LEMMA InLists ==
    ASSUME NEW T, NEW i, NEW j, NEW n, NEW t
    PROVE  /\ t \in Lists(T, i, j, 0) <=> FALSE
           /\ t \in Lists(T, i, j, 1) <=> \E e \in Expressions(T, i, j) : t = <<e>>
           /\ n # 0 /\ n # 1 => (t \in Lists(T, i, j, n) <=> IsList(T, i, j, n, t))
<1>1. Lists(T, i, j, 0) = {}
  BY DEF Lists
<1>2. Lists(T, i, j, 1) = {<<e>> : e \in Expressions(T, i, j)}
  BY DEF Lists
<1>3. ASSUME n # 0, n # 1
      PROVE  t \in Lists(T, i, j, n) <=> IsList(T, i, j, n, t)
  <2> DEFINE A(m) == T[<<"list", m + 1, j, n - 1>>]
             X(m) == Expressions(T, i, m)
             J(e, l) == <<e>> \o l
             F(m) == {J(e, l) : e \in X(m), l \in A(m)}
             D == {m \in (i + 1)..(j - 2) : Token(m) = ","}
  <2>1. Lists(T, i, j, n) = UNION {F(m) : m \in D}
    BY <1>3 DEF Lists
  <2>2. \A m : m \in D <=> m \in (i + 1)..(j - 2) /\ Token(m) = Comma
    BY Zenon DEF Comma
  <2> HIDE DEF A, X, D, J
  <2>3. \A m : t \in F(m) <=> \E e \in X(m), l \in A(m) : t = J(e, l)
    OBVIOUS
  <2> HIDE DEF F
  <2>4. t \in UNION {F(m) : m \in D} <=> \E m \in D : t \in F(m)
    OBVIOUS
  <2>5. t \in Lists(T, i, j, n) <=>
          \E m \in (i + 1)..(j - 2) : Token(m) = Comma /\ \E e \in X(m), l \in A(m) : t = J(e, l)
    BY <2>1, <2>2, <2>3, <2>4, Zenon
  <2> QED BY <2>5, Zenon DEF A, X, J, IsList
<1>4. /\ t \in Lists(T, i, j, 0) <=> FALSE
      /\ t \in Lists(T, i, j, 1) <=> \E e \in Expressions(T, i, j) : t = <<e>>
  BY <1>1, <1>2, Zenon
<1> QED BY <1>3, <1>4

\* A member or an index in front of other suffixes.
IsMember(T, i, j, n, t) ==
    /\ Token(i) = "." /\ Token(i + 1) \in Names /\ i + 2 <= j
    /\ \E s \in T[<<"suffixes", i + 2, j, n - 1>>] : t = << <<".", Token(i + 1)>> >> \o s
IsIndex(T, i, j, n, t) ==
    /\ Token(i) = "["
    /\ \E m \in (i + 2)..(j - 1) :
         Token(m) = "]" /\ \E e \in Expressions(T, i + 1, m), s \in T[<<"suffixes", m + 1, j, n - 1>>] :
                             t = << <<"[", e>> >> \o s

LEMMA InSuffixLists ==
    ASSUME NEW T, NEW i, NEW j, NEW n, NEW t
    PROVE  /\ t \in SuffixLists(T, i, j, 0) <=> i = j /\ t = <<>>
           /\ n # 0 => (t \in SuffixLists(T, i, j, n) <=> IsMember(T, i, j, n, t) \/ IsIndex(T, i, j, n, t))
<1> DEFINE A == IF Token(i) = "." /\ Token(i + 1) \in Names /\ i + 2 <= j
                THEN {<< <<".", Token(i + 1)>> >> \o s : s \in T[<<"suffixes", i + 2, j, n - 1>>]} ELSE {}
           X(m) == Expressions(T, i + 1, m)
           R(m) == T[<<"suffixes", m + 1, j, n - 1>>]
           J(e, s) == << <<"[", e>> >> \o s
           F(m) == {J(e, s) : e \in X(m), s \in R(m)}
           D == {m \in (i + 2)..(j - 1) : Token(m) = "]"}
           C == UNION {F(m) : m \in D}
           B == IF Token(i) = "[" THEN C ELSE {}
<1>1. SuffixLists(T, i, j, 0) = IF i = j THEN {<<>>} ELSE {}
  BY DEF SuffixLists
<1>2. n # 0 => SuffixLists(T, i, j, n) = A \cup B
  BY DEF SuffixLists
<1>3. t \in A <=> IsMember(T, i, j, n, t)
  BY Zenon DEF IsMember
<1>4. t \in SuffixLists(T, i, j, 0) <=> i = j /\ t = <<>>
  BY <1>1, Zenon
<1>5. \A m : m \in D <=> m \in (i + 2)..(j - 1) /\ Token(m) = "]"
  BY Zenon
<1> HIDE DEF A, X, R, D, J
<1>6. \A m : t \in F(m) <=> \E e \in X(m), s \in R(m) : t = J(e, s)
  OBVIOUS
<1> HIDE DEF F
<1>7. t \in C <=> \E m \in D : t \in F(m)
  OBVIOUS
<1> HIDE DEF C
<1>8. t \in B <=> Token(i) = "[" /\ t \in C
  BY Zenon
<1> HIDE DEF B
<1>9. n # 0 => (t \in SuffixLists(T, i, j, n) <=> t \in A \/ t \in B)
  BY <1>2
<1>10. t \in B <=> Token(i) = "[" /\ \E m \in (i + 2)..(j - 1) : Token(m) = "]" /\ \E e \in X(m), s \in R(m) : t = J(e, s)
  BY <1>5, <1>6, <1>7, <1>8, Zenon
<1>11. t \in B <=> IsIndex(T, i, j, n, t)
  BY <1>10, Zenon DEF X, R, J, IsIndex
<1> QED BY <1>3, <1>4, <1>9, <1>11, Zenon

\* Functions that give shorter pieces the same trees give this one the same trees.
LEMMA ExpressionsWithin ==
    ASSUME NEW U, NEW V, NEW i \in Places, NEW j \in Places,
           \A k \in Nat : U[<<"chain", i, j, k>>] = V[<<"chain", i, j, k>>]
    PROVE  Expressions(U, i, j) = Expressions(V, i, j)
<1>1. ASSUME NEW t, NEW X, NEW Y, \A k \in Nat : X[<<"chain", i, j, k>>] = Y[<<"chain", i, j, k>>], t \in Expressions(X, i, j)
      PROVE  t \in Expressions(Y, i, j)
  <2>1. PICK k \in 0..(j - i) : t \in X[<<"chain", i, j, k>>] /\ (k = 2 => ByLevel(t))
    BY <1>1, InExpressions
  <2>2. k \in Nat
    BY DEF Places
  <2>3. t \in Y[<<"chain", i, j, k>>]
    BY <1>1, <2>1, <2>2
  <2> QED BY <2>1, <2>3, InExpressions
<1>2. \A t : t \in Expressions(U, i, j) <=> t \in Expressions(V, i, j)
  BY <1>1
<1> QED BY <1>2

LEMMA SameExpressions ==
    ASSUME NEW U, NEW V, NEW n, SameTrees(U, V, n), NEW i \in Places, NEW j \in Places, Shorter(i, j, n)
    PROVE  Expressions(U, i, j) = Expressions(V, i, j)
<1>1. ASSUME NEW k \in Nat PROVE U[<<"chain", i, j, k>>] = V[<<"chain", i, j, k>>]
  BY SameChains
<1> QED BY <1>1, ExpressionsWithin

LEMMA SameBothWays ==
    ASSUME NEW U, NEW V, NEW n, SameTrees(U, V, n)
    PROVE  SameTrees(V, U, n)
BY DEF SameTrees

LEMMA PrimariesWithin ==
    ASSUME NEW U, NEW V, NEW n \in Nat, SameTrees(U, V, n), NEW i \in Places, NEW j \in Places, i < j, j - i <= n,
           NEW t, t \in Primaries(U, i, j)
    PROVE  t \in Primaries(V, i, j)
<1>1. i \in Nat /\ j \in Nat
  BY DEF Places
<1>2. CASE IsLeaf(i, j, t)
  BY <1>2, InPrimaries
<1>3. CASE IsGroup(U, i, j, t)
  <2>0. Token(i) = "(" /\ i + 1 < j /\ Token(j - 1) = ")" /\ t \in Expressions(U, i + 1, j - 1)
    BY <1>3 DEF IsGroup
  <2>1. PICK a \in Places, b \in Places : a = i + 1 /\ b = j - 1
    BY <1>1, <2>0 DEF Places
  <2>2. Shorter(a, b, n)
    BY <1>1, <2>0, <2>1 DEF Shorter, Width
  <2>4. Expressions(U, a, b) = Expressions(V, a, b)
    BY <2>2, SameExpressions
  <2>5. t \in Expressions(V, i + 1, j - 1)
    BY <2>0, <2>1, <2>4
  <2>6. IsGroup(V, i, j, t)
    BY <2>0, <2>5 DEF IsGroup
  <2> QED BY <2>6, InPrimaries
<1>4. CASE IsBareCall(i, j, t)
  BY <1>4, InPrimaries
<1>5. ASSUME i + 2 < j, NEW k \in Nat PROVE U[<<"list", i + 2, j - 1, k>>] = V[<<"list", i + 2, j - 1, k>>]
  <2>1. PICK a \in Places, b \in Places : a = i + 2 /\ b = j - 1
    BY <1>1, <1>5 DEF Places
  <2>2. Shorter(a, b, n)
    BY <1>1, <1>5, <2>1 DEF Shorter, Width
  <2>3. U[<<"list", a, b, k>>] = V[<<"list", a, b, k>>]
    BY <2>2, SameLists
  <2> QED BY <2>1, <2>3
<1>6. CASE IsCall(U, i, j, t)
  <2>1. /\ Token(i) \in DOMAIN Arity /\ Token(i + 1) = "(" /\ Arity[Token(i)] # 0
        /\ i + 2 < j /\ Token(j - 1) = ")"
    BY <1>6 DEF IsCall
  <2>2. PICK l \in U[<<"list", i + 2, j - 1, Arity[Token(i)]>>] : t = <<"call", Token(i), l>>
    BY <1>6 DEF IsCall
  <2>3. PICK k \in Nat : k = Arity[Token(i)]
    BY <2>1, CountsAssumption
  <2>4. l \in V[<<"list", i + 2, j - 1, k>>]
    BY <1>5, <2>1, <2>2, <2>3
  <2>5. IsCall(V, i, j, t)
    BY <2>1, <2>2, <2>3, <2>4 DEF IsCall
  <2> QED BY <2>5, InPrimaries
<1>7. CASE IsInit(U, i, j, t)
  <2>1. Token(i) \in DOMAIN Elements /\ Token(i + 1) = "(" /\ i + 2 < j
    BY <1>7 DEF IsInit
  <2>2. PICK k \in 1..Elements[Token(i)] :
                 Closes(j - 1, k, Elements[Token(i)])
                 /\ \E l \in U[<<"list", i + 2, j - 1, k>>] : t = <<"init", Token(i), l>>
    BY <1>7 DEF IsInit
  <2>3. PICK l \in U[<<"list", i + 2, j - 1, k>>] : t = <<"init", Token(i), l>>
    BY <2>2
  <2>4. k \in Nat
    BY <2>2
  <2>5. l \in V[<<"list", i + 2, j - 1, k>>]
    BY <1>5, <2>1, <2>3, <2>4
  <2>6. IsInit(V, i, j, t)
    BY <2>1, <2>2, <2>3, <2>5 DEF IsInit
  <2> QED BY <2>6, InPrimaries
<1> QED BY <1>2, <1>3, <1>4, <1>6, <1>7, InPrimaries

LEMMA SimplesWithin ==
    ASSUME NEW U, NEW V, NEW i \in Places, NEW j \in Places, SameTrees(U, V, Width(i, j)),
           NEW t, t \in Simples(U, i, j)
    PROVE  t \in Simples(V, i, j)
<1>1. i \in Nat /\ j \in Nat
  BY DEF Places
<1>2. CASE IsValue(U, i, j, t)
  <2>1. PICK m \in (i + 1)..j : \E b \in Primaries(U, i, m) : \E k \in 0..(j - m) :
              \E s \in U[<<"suffixes", m, j, k>>] : t = <<"value", b, s>>
    BY <1>2 DEF IsValue
  <2>2. PICK b \in Primaries(U, i, m) : \E k \in 0..(j - m) : \E s \in U[<<"suffixes", m, j, k>>] : t = <<"value", b, s>>
    BY <2>1
  <2>3. PICK k \in 0..(j - m) : \E s \in U[<<"suffixes", m, j, k>>] : t = <<"value", b, s>>
    BY <2>2
  <2>4. PICK s \in U[<<"suffixes", m, j, k>>] : t = <<"value", b, s>>
    BY <2>3
  <2>5. m \in Places /\ i < m /\ m <= j /\ k \in Nat
    BY <1>1 DEF Places
  <2>6. Width(i, j) \in Nat /\ m - i <= Width(i, j) /\ Shorter(m, j, Width(i, j))
    BY <1>1, <2>5 DEF Shorter, Width, Places
  <2>7. b \in Primaries(V, i, m)
    BY <2>2, <2>5, <2>6, PrimariesWithin
  <2>8. s \in V[<<"suffixes", m, j, k>>]
    BY <2>4, <2>5, <2>6, SameSuffixes
  <2>9. IsValue(V, i, j, t)
    BY <2>1, <2>3, <2>4, <2>7, <2>8 DEF IsValue
  <2> QED BY <2>9, InSimples
<1>3. CASE IsPrefixed(U, i, j, t)
  <2>1. Token(i) \in Prefixes /\ i + 1 < j
    BY <1>3 DEF IsPrefixed
  <2>2. PICK n \in Places : n = i + 1
    BY <1>1 DEF Places
  <2>3. PICK a \in U[<<"chain", n, j, 0>>] : t = <<"value", <<"prefix", Token(i), a>>, <<>>>>
    BY <1>3, <2>2 DEF IsPrefixed
  <2>4. Shorter(n, j, Width(i, j)) /\ 0 \in Nat
    BY <1>1, <2>1, <2>2 DEF Shorter, Width
  <2>5. a \in V[<<"chain", n, j, 0>>]
    BY <2>3, <2>4, SameChains
  <2>6. IsPrefixed(V, i, j, t)
    BY <2>1, <2>2, <2>3, <2>5 DEF IsPrefixed
  <2> QED BY <2>6, InSimples
<1> QED BY <1>2, <1>3, InSimples

LEMMA OperationsWithin ==
    ASSUME NEW U, NEW V, NEW i \in Places, NEW j \in Places, NEW n \in Nat \ {0}, SameTrees(U, V, Width(i, j)),
           NEW t, t \in Operations(U, i, j, n, FALSE)
    PROVE  t \in Operations(V, i, j, n, FALSE)
<1>1. i \in Nat /\ j \in Nat
  BY DEF Places
<1>0. IsOperation(U, i, j, n, t)
  BY InOperations
<1>2. PICK m \in (i + 1)..(j - 2) : \E l \in 0..(n - 1) :
               Token(m) \in Ops /\ \E a \in U[<<"chain", i, m, l>>], b \in U[<<"chain", m + 1, j, n - 1 - l>>] :
                                     t = <<"op", Token(m), a, b>>
  BY <1>0 DEF IsOperation
<1>3. PICK l \in 0..(n - 1) :
               Token(m) \in Ops /\ \E a \in U[<<"chain", i, m, l>>], b \in U[<<"chain", m + 1, j, n - 1 - l>>] :
                                     t = <<"op", Token(m), a, b>>
  BY <1>2
<1>4. PICK a \in U[<<"chain", i, m, l>>], b \in U[<<"chain", m + 1, j, n - 1 - l>>] : t = <<"op", Token(m), a, b>>
  BY <1>3
<1>5. PICK q \in Places, r \in Nat : m \in Places /\ q = m + 1 /\ l \in Nat /\ r = n - 1 - l
  BY <1>1 DEF Places
<1>6. Shorter(i, m, Width(i, j)) /\ Shorter(q, j, Width(i, j))
  BY <1>1, <1>5 DEF Shorter, Width
<1>7. a \in V[<<"chain", i, m, l>>]
  BY <1>4, <1>5, <1>6, SameChains
<1>8. b \in V[<<"chain", q, j, r>>]
  BY <1>4, <1>5, <1>6, SameChains
<1>9. b \in V[<<"chain", m + 1, j, n - 1 - l>>]
  BY <1>5, <1>8
<1>10. IsOperation(V, i, j, n, t)
  BY <1>2, <1>3, <1>4, <1>7, <1>9 DEF IsOperation
<1> QED BY <1>10, InOperations

LEMMA ListsWithin ==
    ASSUME NEW U, NEW V, NEW i \in Places, NEW j \in Places, NEW n \in Nat, SameTrees(U, V, Width(i, j)),
           \A k \in Nat : U[<<"chain", i, j, k>>] = V[<<"chain", i, j, k>>],
           NEW t, t \in Lists(U, i, j, n)
    PROVE  t \in Lists(V, i, j, n)
<1>1. i \in Nat /\ j \in Nat
  BY DEF Places
<1>2. CASE n = 0
  BY <1>2, InLists, Zenon
<1>3. CASE n = 1
  <2>1. Expressions(U, i, j) = Expressions(V, i, j)
    BY ExpressionsWithin
  <2>2. PICK e \in Expressions(U, i, j) : t = <<e>>
    BY <1>3, InLists
  <2> QED BY <1>3, <2>1, <2>2, InLists
<1>4. CASE n # 0 /\ n # 1
  <2>1. PICK m \in (i + 1)..(j - 2) : Token(m) = Comma /\ \E e \in Expressions(U, i, m),
                      l \in U[<<"list", m + 1, j, n - 1>>] : t = <<e>> \o l
    <3>1. IsList(U, i, j, n, t)
      BY <1>4, InLists
    <3> QED BY <3>1 DEF IsList
  <2>2. PICK e \in Expressions(U, i, m), l \in U[<<"list", m + 1, j, n - 1>>] : t = <<e>> \o l
    BY <2>1
  <2>3. PICK q \in Places, r \in Nat : m \in Places /\ q = m + 1 /\ r = n - 1
    BY <1>1, <1>4 DEF Places
  <2>4. Shorter(i, m, Width(i, j)) /\ Shorter(q, j, Width(i, j))
    BY <1>1, <2>3 DEF Shorter, Width
  <2>6. Expressions(U, i, m) = Expressions(V, i, m)
    BY <2>3, <2>4, SameExpressions
  <2>7. l \in V[<<"list", q, j, r>>]
    BY <2>2, <2>3, <2>4, SameLists
  <2>8. l \in V[<<"list", m + 1, j, n - 1>>]
    BY <2>3, <2>7
  <2>9. e \in Expressions(V, i, m)
    BY <2>2, <2>6
  <2>10. IsList(V, i, j, n, t)
    BY <2>1, <2>2, <2>8, <2>9 DEF IsList
  <2> QED BY <1>4, <2>10, InLists
<1> QED BY <1>2, <1>3, <1>4

LEMMA SuffixListsWithin ==
    ASSUME NEW U, NEW V, NEW i \in Places, NEW j \in Places, NEW n \in Nat, SameTrees(U, V, Width(i, j)),
           NEW t, t \in SuffixLists(U, i, j, n)
    PROVE  t \in SuffixLists(V, i, j, n)
<1>1. i \in Nat /\ j \in Nat
  BY DEF Places
<1>2. CASE n = 0
  <2>1. t \in SuffixLists(U, i, j, 0)
    BY <1>2
  <2>2. t \in SuffixLists(V, i, j, 0)
    BY <2>1, InSuffixLists
  <2> QED BY <1>2, <2>2
<1>3. CASE n # 0
  <2>1. PICK r \in Nat : r = n - 1
    BY <1>3
  <2>2. CASE IsMember(U, i, j, n, t)
    <3>0. Token(i) = "." /\ Token(i + 1) \in Names /\ i + 2 <= j
      BY <2>2 DEF IsMember
    <3>1. PICK s \in U[<<"suffixes", i + 2, j, n - 1>>] : t = << <<".", Token(i + 1)>> >> \o s
      BY <2>2 DEF IsMember
    <3>2. PICK q \in Places : q = i + 2
      BY <1>1 DEF Places
    <3>3. Shorter(q, j, Width(i, j))
      BY <1>1, <3>0, <3>2 DEF Shorter, Width
    <3>4. s \in V[<<"suffixes", q, j, r>>]
      BY <2>1, <3>1, <3>2, <3>3, SameSuffixes
    <3>5. s \in V[<<"suffixes", i + 2, j, n - 1>>]
      BY <2>1, <3>2, <3>4
    <3>6. IsMember(V, i, j, n, t)
      BY <3>0, <3>1, <3>5 DEF IsMember
    <3> QED BY <1>3, <3>6, InSuffixLists
  <2>3. CASE IsIndex(U, i, j, n, t)
    <3>0. Token(i) = "["
      BY <2>3 DEF IsIndex
    <3>1. PICK m \in (i + 2)..(j - 1) : Token(m) = "]" /\ \E e \in Expressions(U, i + 1, m),
                         s \in U[<<"suffixes", m + 1, j, n - 1>>] : t = << <<"[", e>> >> \o s
      BY <2>3 DEF IsIndex
    <3>2. PICK e \in Expressions(U, i + 1, m), s \in U[<<"suffixes", m + 1, j, n - 1>>] : t = << <<"[", e>> >> \o s
      BY <3>1
    <3>3. PICK p \in Places, q \in Places : p = i + 1 /\ q = m + 1 /\ m \in Places
      BY <1>1 DEF Places
    <3>4. Shorter(p, m, Width(i, j)) /\ Shorter(q, j, Width(i, j))
      BY <1>1, <3>3 DEF Shorter, Width
    <3>6. Expressions(U, p, m) = Expressions(V, p, m)
      BY <3>3, <3>4, SameExpressions
    <3>7. s \in V[<<"suffixes", q, j, r>>]
      BY <2>1, <3>2, <3>3, <3>4, SameSuffixes
    <3>8. s \in V[<<"suffixes", m + 1, j, n - 1>>] /\ e \in Expressions(V, i + 1, m)
      BY <2>1, <3>2, <3>3, <3>6, <3>7
    <3>9. IsIndex(V, i, j, n, t)
      BY <3>0, <3>1, <3>2, <3>8 DEF IsIndex
    <3> QED BY <1>3, <3>9, InSuffixLists
  <2> QED BY <1>3, <2>2, <2>3, InSuffixLists
<1> QED BY <1>2, <1>3

LEMMA DerivedSame ==
    ASSUME NEW U, NEW V, NEW d \in Pieces, \A e \in Pieces : Size(e) < Size(d) => U[e] = V[e]
    PROVE  Derived(U, d[1], d[2], d[3], d[4], FALSE) = Derived(V, d[1], d[2], d[3], d[4], FALSE)
<1>1. PICK what \in Shapes, i \in Places, j \in Places, k \in Nat :
        d = <<what, i, j, k>> /\ d[1] = what /\ d[2] = i /\ d[3] = j /\ d[4] = k
  BY PieceIs
<1>2. SameTrees(U, V, Width(i, j))
  <2> SUFFICES ASSUME NEW e \in Pieces, Width(e[2], e[3]) < Width(i, j) PROVE U[e] = V[e]
    BY DEF SameTrees, Shorter
  <2>1. Width(e[2], e[3]) \in Nat /\ Width(i, j) \in Nat
    BY <1>1, PieceIs
  <2>2. Size(e) < Size(d)
    BY <1>1, <2>1 DEF Size
  <2> QED BY <2>2
<1>3. CASE what = "chain"
  <2>1. CASE k = 0
    <3>1. \A t : t \in Simples(U, i, j) <=> t \in Simples(V, i, j)
      BY <1>2, SameBothWays, SimplesWithin
    <3>2. Simples(U, i, j) = Simples(V, i, j)
      BY <3>1
    <3> QED BY <1>1, <1>3, <2>1, <3>2 DEF Derived
  <2>2. CASE k # 0
    <3>1. k \in Nat \ {0}
      BY <2>2
    <3>2. \A t : t \in Operations(U, i, j, k, FALSE) <=> t \in Operations(V, i, j, k, FALSE)
      BY <1>2, <3>1, SameBothWays, OperationsWithin
    <3>3. Operations(U, i, j, k, FALSE) = Operations(V, i, j, k, FALSE)
      BY <3>2
    <3> QED BY <1>1, <1>3, <2>2, <3>3 DEF Derived
  <2> QED BY <2>1, <2>2
<1>4. CASE what = "list"
  <2>1. ASSUME NEW l \in Nat PROVE U[<<"chain", i, j, l>>] = V[<<"chain", i, j, l>>]
    <3>1. PICK e : e = <<"chain", i, j, l>>
      OBVIOUS
    <3>2. e \in Pieces /\ e[1] = "chain" /\ e[2] = i /\ e[3] = j
      BY <3>1, PiecesAre
    <3>3. Width(i, j) \in Nat
      BY <1>1, PieceIs
    <3>4. Size(e) < Size(d)
      BY <1>1, <1>4, <3>2, <3>3 DEF Size
    <3> QED BY <3>1, <3>2, <3>4
  <2>2. \A t : t \in Lists(U, i, j, k) <=> t \in Lists(V, i, j, k)
    BY <1>2, <2>1, SameBothWays, ListsWithin
  <2>3. Lists(U, i, j, k) = Lists(V, i, j, k)
    BY <2>2
  <2> QED BY <1>1, <1>4, <2>3 DEF Derived
<1>5. CASE what = "suffixes"
  <2>1. \A t : t \in SuffixLists(U, i, j, k) <=> t \in SuffixLists(V, i, j, k)
    BY <1>2, SameBothWays, SuffixListsWithin
  <2>2. SuffixLists(U, i, j, k) = SuffixLists(V, i, j, k)
    BY <2>1
  <2> QED BY <1>1, <1>5, <2>2 DEF Derived
<1> QED BY <1>3, <1>4, <1>5 DEF Shapes

\* The trees without the rule for more than two operators.
Grammar == Trees(FALSE)
OfPiece(T, d) == Derived(T, d[1], d[2], d[3], d[4], FALSE)

LEMMA OfPieceSame ==
    ASSUME NEW U, NEW V, NEW d \in Pieces, \A e \in Pieces : Size(e) < Size(d) => U[e] = V[e]
    PROVE  OfPiece(U, d) = OfPiece(V, d)
BY DerivedSame DEF OfPiece

\* The definition of Trees has a solution.
LEMMA TreesUnfolded == \A d \in Pieces : Grammar[d] = OfPiece(Grammar, d)
<1> DEFINE m == [d \in Pieces |-> Size(d)]
           Low(n) == {d \in Pieces : Size(d) < n}
           Solved(S, n) == /\ S = [d \in Low(n) |-> S[d]]
                           /\ \A d \in Low(n) : S[d] = OfPiece(S, d)
<1>1. \A d \in Pieces : Size(d) \in Nat
  BY PieceIs
<1>2. m \in [Pieces -> Nat] /\ \A d \in Pieces : m[d] = Size(d)
  BY <1>1
<1> HIDE DEF m
<1>3. ASSUME NEW n \in Nat, NEW k \in Nat, n <= k, NEW S, Solved(S, n), NEW R, Solved(R, k), NEW x \in Low(n)
      PROVE  S[x] = R[x]
  <2> DEFINE T == {d \in Pieces : d \in Low(n) => S[d] = R[d]}
  <2>1. \A d \in Pieces : (\A e \in Pieces : m[e] < m[d] => e \in T) => d \in T
    <3> SUFFICES ASSUME NEW d \in Pieces, d \in Low(n), \A e \in Pieces : m[e] < m[d] => e \in T PROVE S[d] = R[d]
      OBVIOUS
    <3>1. d \in Low(k) /\ Size(d) \in Nat /\ Size(d) < n
      BY <1>1, <1>3
    <3>2. ASSUME NEW e \in Pieces, Size(e) < Size(d) PROVE S[e] = R[e]
      <4>1. Size(e) \in Nat
        BY <1>1
      <4>2. e \in Low(n)
        BY <3>1, <3>2, <4>1
      <4>3. e \in T
        BY <1>2, <3>2
      <4> QED BY <4>2, <4>3
    <3>3. OfPiece(S, d) = OfPiece(R, d)
      BY <3>2, DerivedSame DEF OfPiece
    <3>4. S[d] = OfPiece(S, d) /\ R[d] = OfPiece(R, d)
      BY <3>1, <1>3
    <3> QED BY <3>3, <3>4
  <2>2. Pieces \subseteq T
    <3> HIDE DEF T, Low, Solved
    <3> QED BY <1>2, <2>1, MeasureInduction
  <2>3. x \in Pieces
    BY <1>3
  <2> QED BY <2>2, <2>3, <1>3
<1>4. \A n \in Nat : \E S : Solved(S, n)
  <2> DEFINE G == {n \in Nat : \E S : Solved(S, n)}
             id == [n \in Nat |-> n]
  <2>1. \A n \in Nat : (\A k \in Nat : id[k] < id[n] => k \in G) => n \in G
    <3> SUFFICES ASSUME NEW n \in Nat, \A k \in Nat : k < n => k \in G PROVE \E S : Solved(S, n)
      OBVIOUS
    <3>1. CASE n = 0
      <4> DEFINE S == [d \in Low(n) |-> {}]
      <4>1. \A d \in Pieces : ~(Size(d) < n)
        BY <1>1, <3>1
      <4>2. Low(n) = {}
        BY <4>1
      <4>3. Solved(S, n)
        BY <4>2
      <4> HIDE DEF S, Solved
      <4> QED BY <4>3
    <3>2. CASE n # 0
      <4>1. n - 1 \in Nat /\ n - 1 < n
        BY <3>2
      <4>2. PICK S : Solved(S, n - 1)
        BY <4>1
      <4> DEFINE R == [d \in Low(n) |-> OfPiece(S, d)]
      <4>3. \A d \in Low(n - 1) : d \in Low(n)
        <5> TAKE d \in Low(n - 1)
        <5>1. d \in Pieces /\ Size(d) \in Nat /\ Size(d) < n - 1
          BY <1>1
        <5> QED BY <4>1, <5>1
      <4>4. \A d \in Low(n - 1) : R[d] = S[d]
        BY <4>2, <4>3
      <4>5. ASSUME NEW d \in Low(n) PROVE R[d] = OfPiece(R, d)
        <5>1. d \in Pieces /\ Size(d) \in Nat /\ Size(d) < n
          BY <1>1
        <5>2. ASSUME NEW e \in Pieces, Size(e) < Size(d) PROVE S[e] = R[e]
          <6>1. Size(e) \in Nat
            BY <1>1
          <6>2. e \in Low(n - 1)
            BY <5>1, <5>2, <6>1
          <6> HIDE DEF R
          <6> QED BY <4>4, <6>2
        <5>3. R[d] = OfPiece(S, d)
          OBVIOUS
        <5> HIDE DEF R
        <5>4. OfPiece(S, d) = OfPiece(R, d)
          BY <5>1, <5>2, OfPieceSame
        <5> QED BY <5>3, <5>4
      <4>6. R = [d \in Low(n) |-> R[d]]
        OBVIOUS
      <4>7. Solved(R, n)
        <5> HIDE DEF R
        <5> QED BY <4>5, <4>6
      <4> HIDE DEF R, Solved
      <4> QED BY <4>7
    <3> QED BY <3>1, <3>2
  <2>2. Nat \subseteq G
    <3>1. id \in [Nat -> Nat]
      OBVIOUS
    <3> HIDE DEF G, id
    <3> QED BY <2>1, <3>1, MeasureInduction
  <2> QED BY <2>2
<1> DEFINE At(n) == CHOOSE S : Solved(S, n)
           F == [d \in Pieces |-> At(Size(d) + 1)[d]]
<1>5. \A n \in Nat : Solved(At(n), n)
  BY <1>4
<1>6. ASSUME NEW d \in Pieces, NEW e \in Pieces, Size(e) <= Size(d)
      PROVE  F[e] = At(Size(d) + 1)[e]
  <2>1. Size(e) \in Nat /\ Size(d) \in Nat
    BY <1>1
  <2>2. /\ Size(e) + 1 \in Nat /\ Size(d) + 1 \in Nat /\ Size(e) + 1 <= Size(d) + 1
        /\ e \in Low(Size(e) + 1)
    BY <1>6, <2>1
  <2>3. Solved(At(Size(e) + 1), Size(e) + 1) /\ Solved(At(Size(d) + 1), Size(d) + 1)
    BY <2>2, <1>5
  <2>4. F[e] = At(Size(e) + 1)[e]
    OBVIOUS
  <2> HIDE DEF At, F
  <2> HIDE DEF Solved, Low
  <2>6. At(Size(e) + 1)[e] = At(Size(d) + 1)[e]
    BY <2>2, <2>3, <1>3
  <2> QED BY <2>4, <2>6
<1>7. ASSUME NEW d \in Pieces PROVE F[d] = OfPiece(F, d)
  <2>1. Size(d) \in Nat /\ Size(d) + 1 \in Nat /\ d \in Low(Size(d) + 1) /\ Size(d) <= Size(d)
    <3>1. Size(d) \in Nat
      BY <1>1
    <3> QED BY <3>1
  <2>2. Solved(At(Size(d) + 1), Size(d) + 1)
    BY <2>1, <1>5
  <2> HIDE DEF F, At
  <2>3. At(Size(d) + 1)[d] = OfPiece(At(Size(d) + 1), d)
    BY <2>1, <2>2
  <2> HIDE DEF Low, Solved
  <2>4. F[d] = At(Size(d) + 1)[d]
    BY <2>1, <1>6
  <2>5. ASSUME NEW e \in Pieces, Size(e) < Size(d) PROVE F[e] = At(Size(d) + 1)[e]
    <3>1. Size(e) \in Nat
      BY <1>1
    <3>2. Size(e) <= Size(d)
      BY <2>1, <2>5, <3>1
    <3> QED BY <3>2, <1>6
  <2>7. OfPiece(F, d) = OfPiece(At(Size(d) + 1), d)
    BY <2>5, DerivedSame DEF OfPiece
  <2> QED BY <2>3, <2>4, <2>7
<1>8. F = [d \in Pieces |-> OfPiece(F, d)]
  <2>1. F = [d \in Pieces |-> F[d]]
    OBVIOUS
  <2> HIDE DEF F
  <2> QED BY <1>7, <2>1
<1> HIDE DEF F
<1>9. Grammar = CHOOSE T : T = [d \in Pieces |-> OfPiece(T, d)]
  BY DEF Grammar, Trees, OfPiece
<1>10. Grammar = [d \in Pieces |-> OfPiece(Grammar, d)]
  <2> HIDE DEF Low, Solved
  <2> QED BY <1>8, <1>9
<1>11. PICK T : T = Grammar
  OBVIOUS
<1>12. T = [d \in Pieces |-> OfPiece(T, d)]
  BY <1>10, <1>11
<1>13. \A d \in Pieces : T[d] = OfPiece(T, d)
  BY <1>12
<1> QED BY <1>11, <1>13

\* The trees of each kind of piece.
LEMMA ChainsAre ==
    ASSUME NEW i \in Places, NEW j \in Places, NEW k \in Nat
    PROVE  /\ Grammar[<<"chain", i, j, 0>>] = Simples(Grammar, i, j)
           /\ k # 0 => Grammar[<<"chain", i, j, k>>] = Operations(Grammar, i, j, k, FALSE)
<1>1. PICK T : T = Grammar
  OBVIOUS
<1>2. ASSUME NEW l \in Nat
      PROVE  T[<<"chain", i, j, l>>] = IF l = 0 THEN Simples(T, i, j) ELSE Operations(T, i, j, l, FALSE)
  <2>1. PICK d : d = <<"chain", i, j, l>>
    OBVIOUS
  <2>2. d \in Pieces /\ d[1] = "chain" /\ d[2] = i /\ d[3] = j /\ d[4] = l
    BY <2>1, PiecesAre
  <2>3. T[d] = OfPiece(T, d)
    BY <1>1, <2>2, TreesUnfolded
  <2>4. OfPiece(T, d) = IF l = 0 THEN Simples(T, i, j) ELSE Operations(T, i, j, l, FALSE)
    BY <2>2 DEF OfPiece, Derived
  <2> QED BY <2>1, <2>3, <2>4
<1>3. T[<<"chain", i, j, 0>>] = Simples(T, i, j)
  BY <1>2
<1>4. k # 0 => T[<<"chain", i, j, k>>] = Operations(T, i, j, k, FALSE)
  BY <1>2
<1> QED BY <1>1, <1>3, <1>4

LEMMA ListsAre ==
    ASSUME NEW i \in Places, NEW j \in Places, NEW k \in Nat
    PROVE  Grammar[<<"list", i, j, k>>] = Lists(Grammar, i, j, k)
<1>1. PICK T : T = Grammar
  OBVIOUS
<1>2. PICK d : d = <<"list", i, j, k>>
  OBVIOUS
<1>3. d \in Pieces /\ d[1] = "list" /\ d[2] = i /\ d[3] = j /\ d[4] = k
  BY <1>2, PiecesAre
<1>4. T[d] = OfPiece(T, d)
  BY <1>1, <1>3, TreesUnfolded
<1>5. OfPiece(T, d) = Lists(T, i, j, k)
  BY <1>3 DEF OfPiece, Derived
<1>6. T[<<"list", i, j, k>>] = Lists(T, i, j, k)
  BY <1>2, <1>4, <1>5
<1> QED BY <1>1, <1>6

LEMMA SuffixesAre ==
    ASSUME NEW i \in Places, NEW j \in Places, NEW k \in Nat
    PROVE  Grammar[<<"suffixes", i, j, k>>] = SuffixLists(Grammar, i, j, k)
<1>1. PICK T : T = Grammar
  OBVIOUS
<1>2. PICK d : d = <<"suffixes", i, j, k>>
  OBVIOUS
<1>3. d \in Pieces /\ d[1] = "suffixes" /\ d[2] = i /\ d[3] = j /\ d[4] = k
  BY <1>2, PiecesAre
<1>4. T[d] = OfPiece(T, d)
  BY <1>1, <1>3, TreesUnfolded
<1>5. OfPiece(T, d) = SuffixLists(T, i, j, k)
  BY <1>3 DEF OfPiece, Derived
<1>6. T[<<"suffixes", i, j, k>>] = SuffixLists(T, i, j, k)
  BY <1>2, <1>4, <1>5
<1> QED BY <1>1, <1>6

\* The trees of the pieces of the text.
Chain(i, j, k) == Grammar[<<"chain", i, j, k>>]
List(i, j, k) == Grammar[<<"list", i, j, k>>]
Suffixed(i, j, k) == Grammar[<<"suffixes", i, j, k>>]
Whole(i, j) == Expressions(Grammar, i, j)
Primary(i, j) == Primaries(Grammar, i, j)

\* How trees are made.
LEMMA MakeWhole ==
    ASSUME NEW i \in Places, NEW j \in Places, NEW k \in Nat, k <= j - i, NEW t, t \in Chain(i, j, k), k = 2 => ByLevel(t)
    PROVE  t \in Whole(i, j)
<1>1. k \in 0..(j - i)
  BY DEF Places
<1> QED BY <1>1, InExpressions DEF Whole, Chain

LEMMA MakeLeaf ==
    ASSUME NEW i \in Places, Token(i) \in Leaves \cup Numbers
    PROVE  <<"leaf", Token(i)>> \in Primary(i, i + 1)
<1>1. PICK t : t = <<"leaf", Token(i)>>
  OBVIOUS
<1>2. IsLeaf(i, i + 1, t)
  BY <1>1 DEF IsLeaf
<1> QED BY <1>1, <1>2, InPrimaries DEF Primary

LEMMA MakeGroup ==
    ASSUME NEW i \in Places, NEW j \in Places, Token(i) = "(", i + 1 < j, Token(j) = ")",
           NEW t, t \in Whole(i + 1, j)
    PROVE  t \in Primary(i, j + 1)
<1>1. (j + 1) - 1 = j /\ i + 1 < j + 1
  BY DEF Places
<1>2. IsGroup(Grammar, i, j + 1, t)
  BY <1>1 DEF IsGroup, Whole
<1> QED BY <1>2, InPrimaries DEF Primary

LEMMA MakeBareCall ==
    ASSUME NEW i \in Places, Token(i) \in DOMAIN Arity, Token(i + 1) = "(", Arity[Token(i)] = 0
    PROVE  <<"call", Token(i), <<>>>> \in Primary(i, i + 2)
<1>1. PICK t : t = <<"call", Token(i), <<>>>>
  OBVIOUS
<1>2. IsBareCall(i, i + 2, t)
  BY <1>1 DEF IsBareCall
<1> QED BY <1>1, <1>2, InPrimaries DEF Primary

LEMMA MakeCall ==
    ASSUME NEW i \in Places, NEW j \in Places, Token(i) \in DOMAIN Arity, Token(i + 1) = "(", Arity[Token(i)] # 0,
           i + 2 < j, Token(j - 1) = ")", NEW l, l \in List(i + 2, j - 1, Arity[Token(i)])
    PROVE  <<"call", Token(i), l>> \in Primary(i, j)
<1>1. PICK t : t = <<"call", Token(i), l>>
  OBVIOUS
<1>2. IsCall(Grammar, i, j, t)
  BY <1>1 DEF IsCall, List
<1> QED BY <1>1, <1>2, InPrimaries DEF Primary

LEMMA MakeInit ==
    ASSUME NEW i \in Places, NEW j \in Places, Token(i) \in DOMAIN Elements, Token(i + 1) = "(", i + 2 < j,
           NEW k \in 1..Elements[Token(i)], Closes(j - 1, k, Elements[Token(i)]),
           NEW l, l \in List(i + 2, j - 1, k)
    PROVE  <<"init", Token(i), l>> \in Primary(i, j)
<1>1. PICK t : t = <<"init", Token(i), l>>
  OBVIOUS
<1>2. IsInit(Grammar, i, j, t)
  BY <1>1 DEF IsInit, List
<1> QED BY <1>1, <1>2, InPrimaries DEF Primary

LEMMA MakeValue ==
    ASSUME NEW i \in Places, NEW m \in Places, NEW j \in Places, i < m, m <= j, NEW b, b \in Primary(i, m),
           NEW k \in Nat, k <= j - m, NEW s, s \in Suffixed(m, j, k)
    PROVE  <<"value", b, s>> \in Chain(i, j, 0)
<1>1. PICK t : t = <<"value", b, s>>
  OBVIOUS
<1>2. m \in (i + 1)..j /\ k \in 0..(j - m)
  BY DEF Places
<1>3. IsValue(Grammar, i, j, t)
  BY <1>1, <1>2 DEF IsValue, Primary, Suffixed
<1>4. t \in Simples(Grammar, i, j)
  BY <1>3, InSimples
<1> QED BY <1>1, <1>4, ChainsAre DEF Chain

LEMMA MakePrefixed ==
    ASSUME NEW i \in Places, NEW j \in Places, Token(i) \in Prefixes, i + 1 < j, NEW a, a \in Chain(i + 1, j, 0)
    PROVE  <<"value", <<"prefix", Token(i), a>>, <<>>>> \in Chain(i, j, 0)
<1>1. PICK t : t = <<"value", <<"prefix", Token(i), a>>, <<>>>>
  OBVIOUS
<1>2. IsPrefixed(Grammar, i, j, t)
  BY <1>1 DEF IsPrefixed, Chain
<1>3. t \in Simples(Grammar, i, j)
  BY <1>2, InSimples
<1> QED BY <1>1, <1>3, ChainsAre DEF Chain

LEMMA MakeOperation ==
    ASSUME NEW i \in Places, NEW m \in Places, NEW j \in Places, i < m, m + 1 < j, Token(m) \in Ops,
           NEW l \in Nat, NEW r \in Nat, NEW a, a \in Chain(i, m, l), NEW b, b \in Chain(m + 1, j, r)
    PROVE  <<"op", Token(m), a, b>> \in Chain(i, j, l + r + 1)
<1>1. PICK t : t = <<"op", Token(m), a, b>>
  OBVIOUS
<1>2. PICK n \in Nat : n = l + r + 1 /\ n # 0 /\ l \in 0..(n - 1) /\ n - 1 - l = r
  OBVIOUS
<1>3. m \in (i + 1)..(j - 2)
  BY DEF Places
<1>4. b \in Grammar[<<"chain", m + 1, j, n - 1 - l>>] /\ a \in Grammar[<<"chain", i, m, l>>]
  BY <1>2 DEF Chain
<1>5. IsOperation(Grammar, i, j, n, t)
  BY <1>1, <1>2, <1>3, <1>4 DEF IsOperation
<1>6. t \in Operations(Grammar, i, j, n, FALSE)
  BY <1>5, InOperations
<1>7. t \in Chain(i, j, n)
  BY <1>2, <1>6, ChainsAre DEF Chain
<1> QED BY <1>1, <1>2, <1>7

LEMMA MakeList ==
    ASSUME NEW i \in Places, NEW j \in Places, NEW e, e \in Whole(i, j)
    PROVE  <<e>> \in List(i, j, 1)
<1>1. PICK t : t = <<e>>
  OBVIOUS
<1>2. t \in Lists(Grammar, i, j, 1)
  BY <1>1, InLists DEF Whole
<1> QED BY <1>1, <1>2, ListsAre DEF List

LEMMA MakeLonger ==
    ASSUME NEW i \in Places, NEW m \in Places, NEW j \in Places, i < m, m + 1 < j, Token(m) = Comma,
           NEW e, e \in Whole(i, m), NEW n \in Nat, n # 0, NEW l, l \in List(m + 1, j, n)
    PROVE  <<e>> \o l \in List(i, j, n + 1)
<1>1. PICK t : t = <<e>> \o l
  OBVIOUS
<1>2. PICK k \in Nat : k = n + 1 /\ k # 0 /\ k # 1 /\ k - 1 = n
  OBVIOUS
<1>3. m \in (i + 1)..(j - 2)
  BY DEF Places
<1>4. l \in Grammar[<<"list", m + 1, j, k - 1>>] /\ e \in Expressions(Grammar, i, m)
  BY <1>2 DEF List, Whole
<1>5. IsList(Grammar, i, j, k, t)
  BY <1>1, <1>3, <1>4 DEF IsList
<1>6. t \in Lists(Grammar, i, j, k)
  BY <1>2, <1>5, InLists
<1>7. t \in List(i, j, k)
  BY <1>6, ListsAre DEF List
<1> QED BY <1>1, <1>2, <1>7

LEMMA MakeBare ==
    ASSUME NEW i \in Places
    PROVE  <<>> \in Suffixed(i, i, 0)
<1>1. PICK t : t = <<>>
  OBVIOUS
<1>2. t \in SuffixLists(Grammar, i, i, 0)
  BY <1>1, InSuffixLists
<1> QED BY <1>1, <1>2, SuffixesAre DEF Suffixed

LEMMA MakeSuffix ==
    ASSUME NEW i \in Places, NEW j \in Places, NEW n \in Nat, NEW t,
           IsMember(Grammar, i, j, n + 1, t) \/ IsIndex(Grammar, i, j, n + 1, t)
    PROVE  t \in Suffixed(i, j, n + 1)
<1>1. PICK k \in Nat : k = n + 1 /\ k # 0
  OBVIOUS
<1>2. t \in SuffixLists(Grammar, i, j, k)
  BY <1>1, InSuffixLists
<1>3. t \in Suffixed(i, j, k)
  BY <1>2, SuffixesAre DEF Suffixed
<1> QED BY <1>1, <1>3

LEMMA MakeMember ==
    ASSUME NEW i \in Places, NEW j \in Places, Token(i) = ".", Token(i + 1) \in Names, i + 2 <= j,
           NEW n \in Nat, NEW s, s \in Suffixed(i + 2, j, n)
    PROVE  << <<".", Token(i + 1)>> >> \o s \in Suffixed(i, j, n + 1)
<1>1. PICK t : t = << <<".", Token(i + 1)>> >> \o s
  OBVIOUS
<1>2. PICK k \in Nat : k = n + 1 /\ k - 1 = n
  OBVIOUS
<1>3. s \in Grammar[<<"suffixes", i + 2, j, k - 1>>]
  BY <1>2 DEF Suffixed
<1>4. IsMember(Grammar, i, j, k, t)
  BY <1>1, <1>3 DEF IsMember
<1> QED BY <1>1, <1>2, <1>4, MakeSuffix

LEMMA MakeIndex ==
    ASSUME NEW i \in Places, NEW m \in Places, NEW j \in Places, Token(i) = "[", i + 1 < m, m < j, Token(m) = "]",
           NEW e, e \in Whole(i + 1, m), NEW n \in Nat, NEW s, s \in Suffixed(m + 1, j, n)
    PROVE  << <<"[", e>> >> \o s \in Suffixed(i, j, n + 1)
<1>1. PICK t : t = << <<"[", e>> >> \o s
  OBVIOUS
<1>2. PICK k \in Nat : k = n + 1 /\ k - 1 = n
  OBVIOUS
<1>3. m \in (i + 2)..(j - 1)
  BY DEF Places
<1>4. s \in Grammar[<<"suffixes", m + 1, j, k - 1>>] /\ e \in Expressions(Grammar, i + 1, m)
  BY <1>2 DEF Suffixed, Whole
<1>5. IsIndex(Grammar, i, j, k, t)
  BY <1>1, <1>3, <1>4 DEF IsIndex
<1> QED BY <1>1, <1>2, <1>5, MakeSuffix

-----------------------------------------------------------------------------
(* What is read is an expression of the grammar.                           *)

Bare(q) == Token(q) # "." /\ Token(q) # "["
ReadsSimple(p, r) == r.ok => r.tree \in Chain(p, r.next, 0) /\ Bare(r.next)
ReadsSuffixes(p, r) == r.ok => (\E k \in Nat : k <= r.next - p /\ r.tree \in Suffixed(p, r.next, k)) /\ Bare(r.next)
ReadsComplex(p, r) == r.ok => r.tree \in Whole(p, r.next)
ReadsArguments(p, n, r) ==
    r.ok => IF n = 0 THEN r.next = p /\ r.tree = <<>>
            ELSE p + 1 < r.next /\ Token(r.next - 1) = ")" /\ r.tree \in List(p, r.next - 1, n)
ReadsElements(p, n, r) ==
    r.ok => p + 1 < r.next /\ \E k \in 1..n : Closes(r.next - 1, k, n) /\ r.tree \in List(p, r.next - 1, k)
Reads(what, p, n, r) ==
    /\ what = "simple" => ReadsSimple(p, r)
    /\ what = "suffixes" => ReadsSuffixes(p, r)
    /\ what = "complex" => ReadsComplex(p, r)
    /\ what = "arguments" => ReadsArguments(p, n, r)
    /\ what = "elements" => ReadsElements(p, n, r)
ReadsCall(c) == Reads(c[1], c[2], c[3], Parsed[c])
ReadsAhead(p) == \A c \in Calls : c[2] > p => ReadsCall(c)

LEMMA ReadsIs ==
    ASSUME NEW p, ReadsAhead(p), NEW q \in Places, q > p
    PROVE  /\ ReadsSimple(q, Parsed[<<"simple", q, 0>>]) /\ ReadsSuffixes(q, Parsed[<<"suffixes", q, 0>>])
           /\ \A n \in Nat : ReadsArguments(q, n, Parsed[<<"arguments", q, n>>])
           /\ \A n \in Nat \ {0} : ReadsElements(q, n, Parsed[<<"elements", q, n>>])
           /\ \A ends \in SUBSET Separators : ReadsComplex(q, Parsed[<<"complex", q, ends>>])
<1>1. ASSUME NEW what, NEW n, <<what, q, n>> \in Calls PROVE Reads(what, q, n, Parsed[<<what, q, n>>])
  <2>1. PICK c : c = <<what, q, n>>
    OBVIOUS
  <2>2. c \in Calls /\ c[1] = what /\ c[2] = q /\ c[3] = n
    BY <1>1, <2>1
  <2>3. Reads(what, q, n, Parsed[c])
    BY <2>2 DEF ReadsAhead, ReadsCall
  <2> QED BY <2>1, <2>3
<1>2. ReadsSimple(q, Parsed[<<"simple", q, 0>>])
  BY <1>1, CallsAre DEF Reads
<1>3. ReadsSuffixes(q, Parsed[<<"suffixes", q, 0>>])
  BY <1>1, CallsAre DEF Reads
<1>4. \A n \in Nat : ReadsArguments(q, n, Parsed[<<"arguments", q, n>>])
  BY <1>1, CallsAre DEF Reads
<1>5. \A n \in Nat \ {0} : ReadsElements(q, n, Parsed[<<"elements", q, n>>])
  BY <1>1, CallsAre DEF Reads
<1>6. \A ends \in SUBSET Separators : ReadsComplex(q, Parsed[<<"complex", q, ends>>])
  BY <1>1, CallsAre DEF Reads
<1> QED BY <1>2, <1>3, <1>4, <1>5, <1>6

LEMMA FailureReads ==
    ASSUME NEW p, NEW n, NEW r, ~r.ok
    PROVE  /\ ReadsSimple(p, r) /\ ReadsSuffixes(p, r) /\ ReadsComplex(p, r)
           /\ ReadsArguments(p, n, r) /\ ReadsElements(p, n, r)
BY DEF ReadsSimple, ReadsSuffixes, ReadsComplex, ReadsArguments, ReadsElements

LEMMA FailedReads ==
    ASSUME NEW p, NEW n, NEW next, NEW said, NEW stop
    PROVE  LET r == Failed(next, said, stop)
           IN  /\ ReadsSimple(p, r) /\ ReadsSuffixes(p, r) /\ ReadsComplex(p, r)
               /\ ReadsArguments(p, n, r) /\ ReadsElements(p, n, r)
<1>1. PICK r : r = Failed(next, said, stop)
  OBVIOUS
<1>2. ~r.ok
  BY <1>1, FailedIs
<1> QED BY <1>1, <1>2, FailureReads

LEMMA ComplaintReads ==
    ASSUME NEW p, NEW n, NEW f
    PROVE  LET r == Complaint(f)
           IN  /\ ReadsSimple(p, r) /\ ReadsSuffixes(p, r) /\ ReadsComplex(p, r)
               /\ ReadsArguments(p, n, r) /\ ReadsElements(p, n, r)
BY FailedReads DEF Complaint

LEMMA ListedIs ==
    ASSUME NEW tree, NEW rest
    PROVE  /\ Listed(tree, rest).ok <=> rest.ok
           /\ rest.ok => Listed(tree, rest).next = rest.next /\ Listed(tree, rest).tree = <<tree>> \o rest.tree
<1>1. CASE rest.ok
  <2>1. PICK t : t = <<tree>> \o rest.tree
    OBVIOUS
  <2>2. PICK r : r = Ok(rest.next, t)
    OBVIOUS
  <2>3. Listed(tree, rest) = r
    BY <1>1, <2>1, <2>2 DEF Listed
  <2>4. r.ok /\ r.next = rest.next /\ r.tree = t
    BY <2>2 DEF Ok
  <2> QED BY <1>1, <2>1, <2>3, <2>4
<1>2. CASE ~rest.ok
  BY <1>2 DEF Listed
<1> QED BY <1>1, <1>2

LEMMA SuffixesRead ==
    ASSUME tokens \in Seq(Tokens), NEW p \in Places, p <= Len(tokens) => ReadsAhead(p)
    PROVE  ReadsSuffixes(p, Suffixes(Parsed, p))
<1>1. Len(tokens) \in Nat /\ p \in Nat /\ p + 1 \in Places /\ p + 2 \in Places /\ p + 1 > p /\ p + 2 > p
  BY TokenAt DEF Places
<1>2. CASE Token(p) = "." /\ Token(p + 1) \in Names
  <2>1. ReadsAhead(p)
    BY <1>2, KindsInside, TokenInside
  <2>2. PICK rest : rest = Parsed[<<"suffixes", p + 2, 0>>]
    OBVIOUS
  <2>3. ReadsSuffixes(p + 2, rest)
    BY <1>1, <2>1, <2>2, ReadsIs
  <2>4. Fine("suffixes", p + 2, 0, rest)
    BY <1>1, <2>2, CallsAre, ParsedSound
  <2>5. PICK r : r = Listed(<<".", Token(p + 1)>>, rest)
    OBVIOUS
  <2>6. Suffixes(Parsed, p) = r
    BY <1>2, <2>2, <2>5, SuffixesIs
  <2>7. SUFFICES ASSUME r.ok PROVE (\E k \in Nat : k <= r.next - p /\ r.tree \in Suffixed(p, r.next, k)) /\ Bare(r.next)
    BY <2>6 DEF ReadsSuffixes
  <2>8. rest.ok /\ r.next = rest.next /\ r.tree = << <<".", Token(p + 1)>> >> \o rest.tree
    BY <2>5, <2>7, ListedIs
  <2>9. PICK j \in Places : j = rest.next /\ p + 2 <= j
    BY <1>1, <2>4, <2>8 DEF Fine, Sound, Places
  <2>10. PICK k \in Nat : k <= j - (p + 2) /\ rest.tree \in Suffixed(p + 2, j, k)
    BY <2>3, <2>8, <2>9 DEF ReadsSuffixes
  <2>11. << <<".", Token(p + 1)>> >> \o rest.tree \in Suffixed(p, j, k + 1)
    BY <1>2, <2>9, <2>10, MakeMember
  <2>12. k + 1 \in Nat /\ k + 1 <= j - p
    BY <1>1, <2>9, <2>10 DEF Places
  <2>13. r.tree \in Suffixed(p, j, k + 1)
    BY <2>8, <2>11
  <2>14. Bare(j)
    BY <2>3, <2>8, <2>9 DEF ReadsSuffixes
  <2> QED BY <2>8, <2>9, <2>12, <2>13, <2>14
<1>3. CASE Token(p) = "." /\ Token(p + 1) \notin Names
  <2>1. Suffixes(Parsed, p) = Failed(p + 2, TRUE, FALSE)
    BY <1>3, SuffixesIs
  <2> QED BY <2>1, FailedReads
<1>4. CASE Token(p) = "["
  <2>1. ReadsAhead(p)
    BY <1>4, KindsInside, TokenInside
  <2>2. {"]"} \in SUBSET Separators /\ EndToken \notin {"]"}
    BY KindsInside DEF Separators
  <2>3. PICK index : index = Parsed[<<"complex", p + 1, {"]"}>>]
    OBVIOUS
  <2>4. ReadsComplex(p + 1, index)
    BY <1>1, <2>1, <2>2, <2>3, ReadsIs
  <2>5. Fine("complex", p + 1, {"]"}, index)
    BY <1>1, <2>2, <2>3, CallsAre, ParsedSound
  <2>6. CASE index.ok
    <3>1. PICK m \in Places : m = index.next /\ p + 1 < m /\ m + 1 \in Places
      BY <1>1, <2>2, <2>5, <2>6, EndInside DEF Fine
    <3>2. m + 1 > p /\ Token(m) = "]"
      BY <1>1, <2>5, <2>6, <3>1 DEF Places, Fine
    <3>3. PICK rest : rest = Parsed[<<"suffixes", m + 1, 0>>]
      OBVIOUS
    <3>4. ReadsSuffixes(m + 1, rest)
      BY <2>1, <3>1, <3>2, <3>3, ReadsIs
    <3>5. Fine("suffixes", m + 1, 0, rest)
      BY <3>1, <3>3, CallsAre, ParsedSound
    <3>6. PICK e : e = index.tree /\ e \in Whole(p + 1, m)
      BY <2>4, <2>6, <3>1 DEF ReadsComplex
    <3>7. PICK r : r = Listed(<<"[", e>>, rest)
      OBVIOUS
    <3>8. Suffixes(Parsed, p) = r
      BY <1>4, <2>3, <2>6, <3>1, <3>3, <3>6, <3>7, SuffixesIs
    <3>9. SUFFICES ASSUME r.ok PROVE (\E k \in Nat : k <= r.next - p /\ r.tree \in Suffixed(p, r.next, k)) /\ Bare(r.next)
      BY <3>8 DEF ReadsSuffixes
    <3>10. rest.ok /\ r.next = rest.next /\ r.tree = << <<"[", e>> >> \o rest.tree
      BY <3>7, <3>9, ListedIs
    <3>11. PICK j \in Places : j = rest.next /\ m + 1 <= j
      BY <3>1, <3>5, <3>10 DEF Fine, Sound, Places
    <3>12. PICK k \in Nat : k <= j - (m + 1) /\ rest.tree \in Suffixed(m + 1, j, k)
      BY <3>4, <3>10, <3>11 DEF ReadsSuffixes
    <3>13. m < j /\ k + 1 \in Nat /\ k + 1 <= j - p
      BY <1>1, <3>1, <3>11, <3>12 DEF Places
    <3>14. << <<"[", e>> >> \o rest.tree \in Suffixed(p, j, k + 1)
      BY <1>4, <3>1, <3>2, <3>6, <3>11, <3>12, <3>13, MakeIndex
    <3>15. r.tree \in Suffixed(p, j, k + 1)
      BY <3>10, <3>14
    <3>16. Bare(j)
      BY <3>4, <3>10, <3>11 DEF ReadsSuffixes
    <3> QED BY <3>10, <3>11, <3>13, <3>15, <3>16
  <2>7. CASE ~index.ok
    <3>1. Suffixes(Parsed, p) = Complaint(index)
      BY <1>4, <2>3, <2>7, SuffixesIs
    <3> QED BY <3>1, ComplaintReads
  <2> QED BY <2>6, <2>7
<1>5. CASE Token(p) # "." /\ Token(p) # "["
  <2>1. Suffixes(Parsed, p) = Ok(p, <<>>)
    BY <1>5, SuffixesIs
  <2>0. PICK none : none = <<>>
    OBVIOUS
  <2>2. PICK r : r = Ok(p, none)
    OBVIOUS
  <2>3. r.next = p /\ r.tree = none
    BY <2>2 DEF Ok
  <2>4. r.tree \in Suffixed(p, p, 0)
    BY <2>0, <2>3, MakeBare
  <2>5. 0 \in Nat /\ 0 <= p - p
    BY <1>1
  <2>6. Bare(p)
    BY <1>5 DEF Bare
  <2> QED BY <2>0, <2>1, <2>2, <2>3, <2>4, <2>5, <2>6 DEF ReadsSuffixes
<1> QED BY <1>2, <1>3, <1>4, <1>5

LEMMA EndsIs ==
    ASSUME NEW t, NEW n
    PROVE  /\ n = 1 /\ t \in ArgumentEnds(n) => t = ")"
           /\ n # 1 /\ t \in ArgumentEnds(n) => t = Comma
           /\ t \in {")", ","} => t = ")" \/ t = Comma
<1>1. /\ n = 1 /\ t \in ArgumentEnds(n) => t = ")"
      /\ n # 1 /\ t \in ArgumentEnds(n) => t = Comma
  BY Zenon DEF ArgumentEnds, Comma
<1>2. t \in {")", ","} => t = ")" \/ t = Comma
  BY Zenon DEF Comma
<1> QED BY <1>1, <1>2, Zenon

LEMMA ClosesIs ==
    ASSUME NEW q, NEW k, NEW n
    PROVE  Closes(q, k, n) <=> Token(q) = ")" \/ (Token(q) = Comma /\ k = n)
BY Zenon DEF Closes, Comma

LEMMA OneTree ==
    ASSUME NEW e
    PROVE  <<e>> \o <<>> = <<e>>
<1>1. <<e>> \in Seq({e})
  OBVIOUS
<1> QED BY <1>1, ConcatEmptySeq

LEMMA ArgumentsRead ==
    ASSUME tokens \in Seq(Tokens), NEW p \in Places, NEW n \in Nat, p <= Len(tokens) => ReadsAhead(p),
           \A ends \in SUBSET Separators : ReadsComplex(p, Parsed[<<"complex", p, ends>>])
    PROVE  ReadsArguments(p, n, Arguments(Parsed, p, n))
<1>1. Len(tokens) \in Nat /\ p \in Nat
  BY TokenAt DEF Places
<1>2. CASE n = 0
  <2>1. PICK none : none = <<>>
    OBVIOUS
  <2>2. PICK r : r = Ok(p, none)
    OBVIOUS
  <2>3. Arguments(Parsed, p, n) = r
    BY <1>2, <2>1, <2>2, ArgumentsIs
  <2>4. r.next = p /\ r.tree = none
    BY <2>2 DEF Ok
  <2> QED BY <1>2, <2>1, <2>3, <2>4 DEF ReadsArguments
<1>3. CASE n # 0
  <2>1. PICK ends : ends = ArgumentEnds(n)
    OBVIOUS
  <2>2. ends \in SUBSET Separators /\ EndToken \notin ends
    BY <2>1, KindsInside DEF Separators, ArgumentEnds
  <2>3. PICK r : r = Parsed[<<"complex", p, ends>>]
    OBVIOUS
  <2>4. Fine("complex", p, ends, r) /\ ReadsComplex(p, r)
    BY <2>2, <2>3, CallsAre, ParsedSound
  <2>5. CASE ~r.ok
    <3>1. Arguments(Parsed, p, n) = Complaint(r)
      BY <1>3, <2>1, <2>3, <2>5, ArgumentsIs
    <3> QED BY <3>1, ComplaintReads
  <2>6. CASE r.ok
    <3>1. PICK k \in Places : k = r.next /\ k + 1 \in Places /\ p < k /\ p < k + 1 /\ p <= Len(tokens)
      BY <2>2, <2>4, <2>6, EndInside DEF Fine
    <3>2. Token(k) \in ends
      BY <2>4, <2>6, <3>1 DEF Fine
    <3>3. PICK e : e = r.tree /\ e \in Whole(p, k)
      BY <2>4, <2>6, <3>1 DEF ReadsComplex
    <3>4. PICK l \in Nat : l = n - 1 /\ k + 1 > p
      BY <1>1, <1>3, <3>1 DEF Places
    <3>5. PICK rest : rest = Parsed[<<"arguments", k + 1, l>>]
      OBVIOUS
    <3>6. ReadsArguments(k + 1, l, rest)
      BY <3>1, <3>4, <3>5, ReadsIs
    <3>7. PICK q : q = Listed(e, rest)
      OBVIOUS
    <3>8. Arguments(Parsed, p, n) = q
      BY <1>3, <2>1, <2>3, <2>6, <3>1, <3>3, <3>4, <3>5, <3>7, ArgumentsIs
    <3>9. CASE ~q.ok
      BY <3>8, <3>9, FailureReads
    <3>10. CASE q.ok
      <4>1. rest.ok /\ q.next = rest.next /\ q.tree = <<e>> \o rest.tree
        BY <3>7, <3>10, ListedIs
      <4>2. CASE n = 1
        <5>1. Token(k) = ")"
          BY <2>1, <3>2, <4>2, EndsIs
        <5>2. rest.next = k + 1 /\ rest.tree = <<>>
          BY <3>4, <3>6, <4>1, <4>2 DEF ReadsArguments
        <5>3. q.tree = <<e>>
          BY <4>1, <5>2, OneTree
        <5>4. q.tree \in List(p, k, 1)
          BY <3>3, <5>3, MakeList
        <5>5. (k + 1) - 1 = k /\ p + 1 < k + 1
          BY <1>1, <3>1 DEF Places
        <5> QED BY <1>3, <3>8, <4>1, <4>2, <5>1, <5>2, <5>4, <5>5 DEF ReadsArguments
      <4>3. CASE n # 1
        <5>1. Token(k) = Comma
          BY <2>1, <3>2, <4>3, EndsIs
        <5>2. l # 0 /\ l + 1 = n
          BY <1>3, <3>4, <4>3
        <5>3. (k + 1) + 1 < rest.next /\ Token(rest.next - 1) = ")" /\ rest.tree \in List(k + 1, rest.next - 1, l)
          BY <3>6, <4>1, <5>2 DEF ReadsArguments
        <5>4. Fine("arguments", k + 1, l, rest)
          BY <3>1, <3>5, CallsAre, ParsedSound
        <5>5. PICK j \in Places : j = rest.next - 1 /\ rest.next \in Nat /\ k + 1 < j
          BY <3>1, <5>3, <5>4 DEF Fine, Sound, Places
        <5>6. rest.tree \in List(k + 1, j, l)
          BY <5>3, <5>5
        <5>7. <<e>> \o rest.tree \in List(p, j, l + 1)
          BY <3>1, <3>3, <5>1, <5>2, <5>5, <5>6, MakeLonger
        <5>8. q.tree \in List(p, q.next - 1, n)
          BY <4>1, <5>2, <5>5, <5>7
        <5>9. p + 1 < q.next /\ Token(q.next - 1) = ")"
          BY <1>1, <3>1, <4>1, <5>3, <5>5 DEF Places
        <5> QED BY <1>3, <3>8, <5>8, <5>9 DEF ReadsArguments
      <4> QED BY <4>2, <4>3
    <3> QED BY <3>9, <3>10
  <2> QED BY <2>5, <2>6
<1> QED BY <1>2, <1>3

LEMMA ElementsRead ==
    ASSUME tokens \in Seq(Tokens), NEW p \in Places, NEW n \in Nat, n # 0, p <= Len(tokens) => ReadsAhead(p),
           \A ends \in SUBSET Separators : ReadsComplex(p, Parsed[<<"complex", p, ends>>])
    PROVE  ReadsElements(p, n, Initializer(Parsed, p, n))
<1>1. Len(tokens) \in Nat /\ p \in Nat
  BY TokenAt DEF Places
<1>2. PICK ends : ends = {")", ","}
  OBVIOUS
<1>3. ends \in SUBSET Separators /\ EndToken \notin ends
  BY <1>2, KindsInside DEF Separators
<1>4. PICK r : r = Parsed[<<"complex", p, ends>>]
  OBVIOUS
<1>5. Fine("complex", p, ends, r) /\ ReadsComplex(p, r)
  BY <1>3, <1>4, CallsAre, ParsedSound
<1>6. PICK i : i = Initializer(Parsed, p, n)
  OBVIOUS
<1>7. CASE ~r.ok
  <2>1. i = r
    BY <1>2, <1>4, <1>6, <1>7, InitializerIs
  <2> QED BY <1>6, <1>7, <2>1, FailureReads
<1>8. CASE r.ok
  <2>1. PICK k \in Places : k = r.next /\ k + 1 \in Places /\ p < k /\ p < k + 1 /\ p <= Len(tokens)
    BY <1>3, <1>5, <1>8, EndInside DEF Fine
  <2>2. Token(k) = ")" \/ Token(k) = Comma
    BY <1>2, <1>5, <1>8, <2>1, EndsIs DEF Fine
  <2>3. PICK e : e = r.tree /\ e \in Whole(p, k)
    BY <1>5, <1>8, <2>1 DEF ReadsComplex
  <2>4. CASE Token(k) = ")" \/ n = 1
    <3>1. PICK t : t = <<e>>
      OBVIOUS
    <3>2. i = Ok(k + 1, t)
      BY <1>2, <1>4, <1>6, <1>8, <2>1, <2>3, <2>4, <3>1, InitializerIs
    <3>3. i.next = k + 1 /\ i.tree = t
      BY <3>2 DEF Ok
    <3>4. t \in List(p, k, 1)
      BY <2>3, <3>1, MakeList
    <3>5. Closes(k, 1, n)
      BY <2>2, <2>4, ClosesIs
    <3>6. i.next - 1 = k /\ p + 1 < i.next /\ 1 \in 1..n
      BY <1>1, <2>1, <3>3 DEF Places
    <3> QED BY <1>6, <3>3, <3>4, <3>5, <3>6 DEF ReadsElements
  <2>5. CASE Token(k) # ")" /\ n # 1
    <3>1. PICK l \in Nat : l = n - 1 /\ k + 1 > p /\ l # 0 /\ l + 1 = n
      BY <1>1, <2>1, <2>5 DEF Places
    <3>2. PICK rest : rest = Parsed[<<"elements", k + 1, l>>]
      OBVIOUS
    <3>3. ReadsElements(k + 1, l, rest)
      BY <2>1, <3>1, <3>2, ReadsIs
    <3>4. i = Listed(e, rest)
      BY <1>2, <1>4, <1>6, <1>8, <2>1, <2>3, <2>5, <3>1, <3>2, InitializerIs
    <3>5. CASE ~i.ok
      BY <1>6, <3>5, FailureReads
    <3>6. CASE i.ok
      <4>1. rest.ok /\ i.next = rest.next /\ i.tree = <<e>> \o rest.tree
        BY <3>4, <3>6, ListedIs
      <4>2. Fine("elements", k + 1, l, rest)
        BY <2>1, <3>1, <3>2, CallsAre, ParsedSound
      <4>3. (k + 1) + 1 < rest.next
        BY <3>3, <4>1 DEF ReadsElements
      <4>4. PICK j \in Places : j = rest.next - 1 /\ rest.next \in Nat /\ k + 1 < j
        <5>1. rest.next \in Nat
          BY <4>2 DEF Fine, Sound
        <5> QED BY <2>1, <4>3, <5>1 DEF Places
      <4>5. PICK m \in 1..l : Closes(j, m, l) /\ rest.tree \in List(k + 1, j, m)
        BY <3>3, <4>1, <4>4 DEF ReadsElements
      <4>6. m \in Nat /\ m # 0 /\ m + 1 \in 1..n /\ (m = l => m + 1 = n)
        BY <3>1, <4>5
      <4>7. <<e>> \o rest.tree \in List(p, j, m + 1)
        BY <2>1, <2>2, <2>3, <2>5, <4>4, <4>5, <4>6, MakeLonger
      <4>8. Closes(j, m + 1, n)
        BY <4>5, <4>6, ClosesIs
      <4>9. p + 1 < i.next /\ i.next - 1 = j
        BY <1>1, <2>1, <4>1, <4>3, <4>4 DEF Places
      <4>10. i.tree \in List(p, j, m + 1)
        BY <4>1, <4>7
      <4> QED BY <1>6, <4>6, <4>8, <4>9, <4>10 DEF ReadsElements
    <3> QED BY <3>5, <3>6
  <2> QED BY <2>4, <2>5
<1> QED BY <1>7, <1>8

\* What is in front of the suffixes, or a prefix and what follows it.
ReadsOperand(p, r) ==
    r.ok => \/ r.tree \in Primary(p, r.next)
            \/ /\ Token(p) \in Prefixes /\ Bare(r.next) /\ p + 1 < r.next
               /\ \E a \in Chain(p + 1, r.next, 0) : r.tree = <<"prefix", Token(p), a>>

LEMMA AppliedIs ==
    ASSUME NEW kind, NEW name, NEW list
    PROVE  /\ Applied(kind, name, list).ok <=> list.ok
           /\ list.ok => /\ Applied(kind, name, list).next = list.next
                         /\ Applied(kind, name, list).tree = <<kind, name, list.tree>>
<1>1. CASE list.ok
  <2>1. PICK t : t = <<kind, name, list.tree>>
    OBVIOUS
  <2>2. PICK r : r = Ok(list.next, t)
    OBVIOUS
  <2>3. Applied(kind, name, list) = r
    BY <1>1, <2>1, <2>2 DEF Applied
  <2>4. r.ok /\ r.next = list.next /\ r.tree = t
    BY <2>2 DEF Ok
  <2> QED BY <1>1, <2>1, <2>3, <2>4
<1>2. CASE ~list.ok
  BY <1>2 DEF Applied
<1> QED BY <1>1, <1>2

LEMMA OperandRead ==
    ASSUME tokens \in Seq(Tokens), NEW p \in Places, p <= Len(tokens) => ReadsAhead(p)
    PROVE  ReadsOperand(p, Operand(Parsed, p))
<1>1. Len(tokens) \in Nat /\ p \in Nat /\ p + 1 \in Places /\ p + 2 \in Places /\ p + 1 > p /\ p + 2 > p
  BY TokenAt DEF Places
<1>2. ASSUME Token(p) # EndToken PROVE ReadsAhead(p)
  BY <1>2, TokenInside
<1>3. PICK r : r = Operand(Parsed, p)
  OBVIOUS
<1> SUFFICES ASSUME r.ok
    PROVE  \/ r.tree \in Primary(p, r.next)
           \/ /\ Token(p) \in Prefixes /\ Bare(r.next) /\ p + 1 < r.next
              /\ \E a \in Chain(p + 1, r.next, 0) : r.tree = <<"prefix", Token(p), a>>
  BY <1>3 DEF ReadsOperand
<1>4. CASE Token(p) \in DOMAIN Elements
  <2>1. Token(p + 1) = "("
    <3>1. ASSUME Token(p + 1) # "(" PROVE FALSE
      <4>1. r = Failed(p + 2, TRUE, FALSE)
        BY <1>3, <1>4, <3>1, OperandIs
      <4> QED BY <4>1, FailedIs
    <3> QED BY <3>1
  <2>2. PICK n \in Nat : n = Elements[Token(p)] /\ n # 0
    BY <1>4, CountsAssumption
  <2>3. PICK list : list = Parsed[<<"elements", p + 2, n>>]
    OBVIOUS
  <2>4. ReadsElements(p + 2, n, list)
    BY <1>1, <1>2, <1>4, <2>2, <2>3, KindsInside, ReadsIs
  <2>5. Fine("elements", p + 2, n, list)
    BY <1>1, <2>2, <2>3, CallsAre, ParsedSound
  <2>6. r = Applied("init", Token(p), list)
    BY <1>3, <1>4, <2>1, <2>2, <2>3, OperandIs
  <2>7. list.ok /\ r.next = list.next /\ r.tree = <<"init", Token(p), list.tree>>
    BY <2>6, AppliedIs
  <2>8. PICK j \in Places : j = list.next /\ (p + 2) + 1 < j
    BY <1>1, <2>4, <2>5, <2>7 DEF Fine, Sound, ReadsElements, Places
  <2>9. PICK k \in 1..n : Closes(j - 1, k, n) /\ list.tree \in List(p + 2, j - 1, k)
    BY <2>4, <2>7, <2>8 DEF ReadsElements
  <2>10. p + 2 < j
    BY <1>1, <2>8 DEF Places
  <2>11. <<"init", Token(p), list.tree>> \in Primary(p, j)
    BY <1>4, <2>1, <2>2, <2>9, <2>10, MakeInit
  <2> QED BY <2>7, <2>8, <2>11
<1>5. CASE Token(p) \in Leaves \cup Numbers
  <2>1. PICK t : t = <<"leaf", Token(p)>>
    OBVIOUS
  <2>2. r = Ok(p + 1, t)
    BY <1>3, <1>5, <2>1, OperandIs
  <2>3. r.next = p + 1 /\ r.tree = t
    BY <2>2 DEF Ok
  <2> QED BY <1>5, <2>1, <2>3, MakeLeaf
<1>6. CASE Token(p) \in DOMAIN Arity
  <2>1. Token(p + 1) = "("
    <3>1. ASSUME Token(p + 1) # "(" PROVE FALSE
      <4>1. r = Failed(p + 1, TRUE, FALSE)
        BY <1>3, <1>6, <3>1, OperandIs
      <4> QED BY <4>1, FailedIs
    <3> QED BY <3>1
  <2>2. PICK n \in Nat : n = Arity[Token(p)]
    BY <1>6, CountsAssumption
  <2>3. PICK list : list = Parsed[<<"arguments", p + 2, n>>]
    OBVIOUS
  <2>4. ReadsArguments(p + 2, n, list)
    BY <1>1, <1>2, <1>6, <2>3, KindsInside, ReadsIs
  <2>5. Fine("arguments", p + 2, n, list)
    BY <1>1, <2>3, CallsAre, ParsedSound
  <2>6. r = Applied("call", Token(p), list)
    BY <1>3, <1>6, <2>1, <2>2, <2>3, OperandIs
  <2>7. list.ok /\ r.next = list.next /\ r.tree = <<"call", Token(p), list.tree>>
    BY <2>6, AppliedIs
  <2>8. CASE n = 0
    <3>1. list.next = p + 2 /\ list.tree = <<>>
      BY <2>4, <2>7, <2>8 DEF ReadsArguments
    <3>2. <<"call", Token(p), <<>>>> \in Primary(p, p + 2)
      BY <1>6, <2>1, <2>2, <2>8, MakeBareCall
    <3> QED BY <2>7, <3>1, <3>2
  <2>9. CASE n # 0
    <3>1. (p + 2) + 1 < list.next /\ Token(list.next - 1) = ")" /\ list.tree \in List(p + 2, list.next - 1, n)
      BY <2>4, <2>7, <2>9 DEF ReadsArguments
    <3>2. PICK j \in Places : j = list.next /\ p + 2 < j
      BY <1>1, <2>5, <3>1 DEF Fine, Sound, Places
    <3>3. <<"call", Token(p), list.tree>> \in Primary(p, j)
      BY <1>6, <2>1, <2>2, <2>9, <3>1, <3>2, MakeCall
    <3> QED BY <2>7, <3>2, <3>3
  <2> QED BY <2>8, <2>9
<1>7. CASE Token(p) \in Prefixes
  <2>1. PICK s : s = Parsed[<<"simple", p + 1, 0>>]
    OBVIOUS
  <2>2. ReadsSimple(p + 1, s)
    BY <1>1, <1>2, <1>7, <2>1, KindsInside, ReadsIs
  <2>3. Fine("simple", p + 1, 0, s)
    BY <1>1, <2>1, CallsAre, ParsedSound
  <2>4. s.ok
    <3>1. ASSUME ~s.ok PROVE FALSE
      <4>1. r = Complaint(s)
        BY <1>3, <1>7, <2>1, <3>1, OperandIs
      <4> QED BY <4>1, FailedIs DEF Complaint
    <3> QED BY <3>1
  <2>5. PICK t : t = <<"prefix", Token(p), s.tree>>
    OBVIOUS
  <2>6. r = Ok(s.next, t)
    BY <1>3, <1>7, <2>1, <2>4, <2>5, OperandIs
  <2>7. r.next = s.next /\ r.tree = t
    BY <2>6 DEF Ok
  <2>8. s.tree \in Chain(p + 1, s.next, 0) /\ Bare(s.next)
    BY <2>2, <2>4 DEF ReadsSimple
  <2>9. p + 1 < s.next
    BY <2>3, <2>4 DEF Fine, Moves
  <2> QED BY <1>7, <2>5, <2>7, <2>8, <2>9
<1>8. CASE Token(p) = "("
  <2>1. PICK s : s = Parsed[<<"complex", p + 1, {")"}>>]
    OBVIOUS
  <2>2. {")"} \in SUBSET Separators /\ EndToken \notin {")"}
    BY KindsInside DEF Separators
  <2>3. ReadsComplex(p + 1, s)
    BY <1>1, <1>2, <1>8, <2>1, <2>2, KindsInside, ReadsIs
  <2>4. Fine("complex", p + 1, {")"}, s)
    BY <1>1, <2>1, <2>2, CallsAre, ParsedSound
  <2>5. s.ok
    <3>1. ASSUME ~s.ok PROVE FALSE
      <4>1. r = Complaint(s)
        BY <1>3, <1>8, <2>1, <3>1, OperandIs
      <4> QED BY <4>1, FailedIs DEF Complaint
    <3> QED BY <3>1
  <2>6. r = Ok(s.next + 1, s.tree)
    BY <1>3, <1>8, <2>1, <2>5, OperandIs
  <2>7. r.next = s.next + 1 /\ r.tree = s.tree
    BY <2>6 DEF Ok
  <2>8. PICK j \in Places : j = s.next /\ p + 1 < j
    BY <1>1, <2>2, <2>4, <2>5, EndInside DEF Fine
  <2>9. Token(j) = ")" /\ s.tree \in Whole(p + 1, j)
    BY <2>3, <2>4, <2>5, <2>8 DEF Fine, ReadsComplex
  <2> QED BY <1>8, <2>7, <2>8, <2>9, MakeGroup
<1>9. CASE /\ Token(p) \notin DOMAIN Elements /\ Token(p) \notin Leaves \cup Numbers /\ Token(p) \notin DOMAIN Arity
           /\ Token(p) \notin Prefixes /\ Token(p) # "("
  <2>1. r = Failed(p + 1, TRUE, FALSE)
    BY <1>3, <1>9, OperandIs
  <2> QED BY <2>1, FailedIs
<1> QED BY <1>4, <1>5, <1>6, <1>7, <1>8, <1>9

LEMMA ParseSimpleRead ==
    ASSUME tokens \in Seq(Tokens), NEW p \in Places, p <= Len(tokens) => ReadsAhead(p)
    PROVE  ReadsSimple(p, ParseSimple(Parsed, p))
<1>1. Len(tokens) \in Nat /\ p \in Nat /\ p + 1 \in Places
  BY TokenAt DEF Places
<1>2. PICK base : base = Operand(Parsed, p)
  OBVIOUS
<1>3. ReadsOperand(p, base)
  BY <1>2, OperandRead
<1>4. CASE ~base.ok
  <2>1. ParseSimple(Parsed, p) = base
    BY <1>2, <1>4, ParseSimpleIs
  <2> QED BY <1>4, <2>1, FailureReads
<1>5. CASE base.ok
  <2>1. p <= Len(tokens) => Ahead(Parsed, Parsed, p)
    BY ParsedUnfolded DEF Ahead
  <2>2. Sound(p, base) /\ Moves(p, base)
    BY <1>2, <2>1, OperandSound
  <2>3. PICK m \in Places : m = base.next /\ m > p /\ p <= Len(tokens)
    BY <1>1, <1>5, <2>2 DEF Sound, Moves, Places
  <2>4. PICK list : list = Parsed[<<"suffixes", m, 0>>]
    OBVIOUS
  <2>5. ReadsSuffixes(m, list) /\ Fine("suffixes", m, 0, list)
    BY <2>3, <2>4, ReadsIs, CallsAre, ParsedSound
  <2>6. CASE ~list.ok
    <3>1. ParseSimple(Parsed, p) = list
      BY <1>2, <1>5, <2>3, <2>4, <2>6, ParseSimpleIs
    <3> QED BY <2>6, <3>1, FailureReads
  <2>7. CASE list.ok
    <3>1. PICK t : t = <<"value", base.tree, list.tree>>
      OBVIOUS
    <3>2. PICK r : r = Ok(list.next, t)
      OBVIOUS
    <3>3. ParseSimple(Parsed, p) = r
      BY <1>2, <1>5, <2>3, <2>4, <2>7, <3>1, <3>2, ParseSimpleIs
    <3>4. r.next = list.next /\ r.tree = t
      BY <3>2 DEF Ok
    <3>5. PICK j \in Places : j = list.next /\ m <= j
      BY <2>3, <2>5, <2>7 DEF Fine, Sound, Places
    <3>6. PICK k \in Nat : k <= j - m /\ list.tree \in Suffixed(m, j, k)
      BY <2>5, <2>7, <3>5 DEF ReadsSuffixes
    <3>7. Bare(j)
      BY <2>5, <2>7, <3>5 DEF ReadsSuffixes
    <3>8. t \in Chain(p, j, 0)
      <4>1. CASE base.tree \in Primary(p, m)
        BY <2>3, <3>1, <3>5, <3>6, <4>1, MakeValue
      <4>2. CASE /\ Token(p) \in Prefixes /\ Bare(m) /\ p + 1 < m
                 /\ \E a \in Chain(p + 1, m, 0) : base.tree = <<"prefix", Token(p), a>>
        <5>1. PICK a \in Chain(p + 1, m, 0) : base.tree = <<"prefix", Token(p), a>>
          BY <4>2
        <5>2. list = Suffixes(Parsed, m)
          <6>1. list = Call(Parsed, "suffixes", m, 0)
            BY <2>3, <2>4, CallsAre, ParsedSound
          <6> QED BY <6>1, CallIsOne
        <5>3. PICK none : none = <<>>
          OBVIOUS
        <5>4. list = Ok(m, none)
          BY <4>2, <5>2, <5>3, SuffixesIs DEF Bare
        <5>5. list.next = m /\ list.tree = none
          BY <5>4 DEF Ok
        <5>6. <<"value", <<"prefix", Token(p), a>>, <<>>>> \in Chain(p, m, 0)
          BY <1>1, <4>2, MakePrefixed
        <5> QED BY <3>1, <3>5, <5>1, <5>3, <5>5, <5>6
      <4> QED BY <1>3, <1>5, <2>3, <4>1, <4>2 DEF ReadsOperand
    <3> QED BY <3>3, <3>4, <3>5, <3>7, <3>8 DEF ReadsSimple
  <2> QED BY <2>6, <2>7
<1> QED BY <1>4, <1>5

LEMMA LevelIs ==
    ASSUME NEW op
    PROVE  Level(op) \in Nat
<1>1. /\ op \in {"|", "&", "+", "-"} => Level(op) = 100
      /\ op \notin {"|", "&", "+", "-"} /\ op \in {"*", "/"} => Level(op) = 200
  BY DEF Level
<1> QED BY DEF Level

\* A simple expression is no operation.
LEMMA SimpleIsValue ==
    ASSUME NEW i \in Places, NEW j \in Places, NEW t, t \in Chain(i, j, 0)
    PROVE  ~IsOp(t)
<1>1. t \in Simples(Grammar, i, j)
  BY ChainsAre DEF Chain
<1>2. CASE IsValue(Grammar, i, j, t)
  <2>1. PICK b, s : t = <<"value", b, s>>
    BY <1>2 DEF IsValue
  <2> QED BY <2>1 DEF IsOp
<1>3. CASE IsPrefixed(Grammar, i, j, t)
  <2>1. PICK b, s : t = <<"value", b, s>>
    BY <1>3 DEF IsPrefixed
  <2> QED BY <2>1 DEF IsOp
<1> QED BY <1>1, <1>2, <1>3, InSimples

LEMMA SecondRead ==
    ASSUME tokens \in Seq(Tokens), NEW p \in Places, ReadsAhead(p), NEW ends \in SUBSET Separators,
           NEW a, Sound(p, a), Moves(p, a), a.ok, Token(a.next) \in Ops, a.tree \in Chain(p, a.next, 0)
    PROVE  ReadsComplex(p, Second(Parsed, a, ends))
<1>1. Len(tokens) \in Nat /\ p \in Nat
  BY TokenAt DEF Places
<1>2. PICK q \in Places : q = a.next /\ p < q /\ q + 1 \in Places /\ p < q + 1
  BY KindsInside, EndInside
<1>3. PICK r : r = Parsed[<<"simple", q + 1, 0>>]
  OBVIOUS
<1>4. ReadsSimple(q + 1, r) /\ Fine("simple", q + 1, 0, r)
  BY <1>1, <1>2, <1>3, ReadsIs, CallsAre, ParsedSound
<1>5. PICK b : b = Asserted(r)
  OBVIOUS
<1>6. PICK c : c = Parsed[<<"complex", b.next + 1, ends>>]
  OBVIOUS
<1>7. b = Asserted(Parsed[<<"simple", a.next + 1, 0>>])
  BY <1>2, <1>3, <1>5
<1>8. Second(Parsed, a, ends) = Decided(a, b, c, ends)
  BY <1>6, <1>7, SecondIs, Zenon
<1>9. CASE ~b.ok
  <2>1. Second(Parsed, a, ends) = b
    BY <1>8, <1>9 DEF Decided
  <2> QED BY <1>9, <2>1, FailureReads
<1>10. CASE b.ok
  <2>1. b = r
    BY <1>4, <1>5, <1>10, AssertedIs DEF Fine
  <2>2. PICK n \in Places : n = b.next /\ q + 1 < n
    BY <1>2, <1>4, <1>10, <2>1 DEF Fine, Sound, Moves, Places
  <2>3. a.tree \in Chain(p, q, 0) /\ b.tree \in Chain(q + 1, n, 0)
    BY <1>2, <1>4, <1>10, <2>1, <2>2 DEF ReadsSimple
  <2>4. PICK op0 : op0 = Token(q) /\ op0 \in Ops
    BY <1>2
  <2>5. CASE Token(n) \in ends
    <3>1. PICK t : t = <<"op", op0, a.tree, b.tree>>
      OBVIOUS
    <3>2. Second(Parsed, a, ends) = Ok(n, t)
      BY <1>2, <1>8, <1>10, <2>2, <2>4, <2>5, <3>1 DEF Decided
    <3>3. t \in Chain(p, n, 0 + 0 + 1)
      BY <1>2, <2>2, <2>3, <2>4, <3>1, MakeOperation
    <3>4. 0 + 0 + 1 = 1 /\ 1 <= n - p
      BY <1>1, <1>2, <2>2 DEF Places
    <3>5. t \in Whole(p, n)
      BY <3>3, <3>4, MakeWhole
    <3>6. PICK s : s = Ok(n, t)
      OBVIOUS
    <3>7. s.next = n /\ s.tree = t
      BY <3>6 DEF Ok
    <3> QED BY <3>2, <3>5, <3>6, <3>7 DEF ReadsComplex
  <2>6. CASE Token(n) \notin ends /\ Token(n) \notin Ops
    <3>1. Second(Parsed, a, ends) = Failed(n, FALSE, FALSE)
      BY <1>8, <1>10, <2>2, <2>6 DEF Decided
    <3> QED BY <3>1, FailedReads
  <2>7. CASE Token(n) \notin ends /\ Token(n) \in Ops /\ ~c.ok
    <3>1. Second(Parsed, a, ends) = c
      BY <1>8, <1>10, <2>2, <2>7 DEF Decided
    <3> QED BY <2>7, <3>1, FailureReads
  <2>8. CASE Token(n) \notin ends /\ Token(n) \in Ops /\ c.ok
    <3>1. n + 1 \in Places /\ n + 1 > p
      BY <1>1, <1>2, <2>2 DEF Places
    <3>2. c = Parsed[<<"complex", n + 1, ends>>]
      BY <1>6, <2>2
    <3>3. ReadsComplex(n + 1, c) /\ Fine("complex", n + 1, ends, c)
      BY <3>1, <3>2, ReadsIs, CallsAre, ParsedSound
    <3>4. PICK j \in Places : j = c.next /\ n + 1 < j
      BY <2>8, <3>1, <3>3 DEF Fine, Sound, Moves, Places
    <3>5. PICK k \in 0..(j - (n + 1)) : c.tree \in Chain(n + 1, j, k)
      BY <2>8, <3>3, <3>4, InExpressions DEF ReadsComplex, Whole, Chain
    <3>6. PICK op1 : op1 = Token(n) /\ op1 \in Ops
      BY <2>8
    <3>7. PICK t : t = Group(op0, op1, a.tree, b.tree, c.tree)
      OBVIOUS
    <3>8. Second(Parsed, a, ends) = Ok(j, t)
      BY <1>2, <1>8, <1>10, <2>2, <2>4, <2>8, <3>4, <3>6, <3>7 DEF Decided
    <3>9. k \in Nat /\ k + 2 \in Nat /\ k + 2 <= j - p /\ (k + 2 = 2 => k = 0) /\ q + 1 < j
      <4>1. q \in Nat /\ n \in Nat /\ j \in Nat
        BY DEF Places
      <4>2. k \in Nat /\ k <= j - (n + 1)
        BY <3>4, <3>5, <4>1
      <4>3. q + 1 < j
        BY <1>2, <2>2, <3>4, <4>1
      <4>4. k + 2 <= j - p
        BY <1>1, <1>2, <2>2, <3>4, <4>1, <4>2
      <4> QED BY <4>2, <4>3, <4>4
    <3>10. ~IsOp(a.tree) /\ ~IsOp(b.tree) /\ (k = 0 => ~IsOp(c.tree))
      BY <1>2, <2>3, <3>1, <3>5, SimpleIsValue
    <3>11. t \in Chain(p, j, k + 2) /\ (k = 0 => ByLevel(t))
      <4>1. CASE Level(op1) > Level(op0)
        <5>1. PICK u : u = <<"op", op1, b.tree, c.tree>>
          OBVIOUS
        <5>2. u \in Chain(q + 1, j, 0 + k + 1)
          BY <1>2, <2>2, <2>3, <3>4, <3>5, <3>6, <3>9, <5>1, MakeOperation
        <5>3. PICK l \in Nat : l = 0 + k + 1 /\ 0 + l + 1 = k + 2
          BY <3>9
        <5>4. t = <<"op", op0, a.tree, u>>
          BY <3>7, <4>1, <5>1 DEF Group
        <5>5. t \in Chain(p, j, 0 + l + 1)
          BY <1>2, <2>3, <2>4, <3>9, <5>2, <5>3, <5>4, MakeOperation
        <5>6. t[2] = op0 /\ t[3] = a.tree /\ t[4] = u
          BY <5>4
        <5>7. u[2] = op1
          BY <5>1
        <5>8. ByLevel(t)
          BY <3>10, <4>1, <5>6, <5>7 DEF ByLevel
        <5> QED BY <5>3, <5>5, <5>8
      <4>2. CASE ~(Level(op1) > Level(op0))
        <5>1. PICK u : u = <<"op", op0, a.tree, b.tree>>
          OBVIOUS
        <5>2. u \in Chain(p, n, 0 + 0 + 1)
          BY <1>2, <2>2, <2>3, <2>4, <5>1, MakeOperation
        <5>3. p < n /\ 0 + 0 + 1 = 1 /\ 1 + k + 1 = k + 2
          BY <1>1, <1>2, <2>2, <3>9 DEF Places
        <5>4. t = <<"op", op1, u, c.tree>>
          BY <3>7, <4>2, <5>1 DEF Group
        <5>5. t \in Chain(p, j, 1 + k + 1)
          BY <2>2, <3>4, <3>5, <3>6, <3>9, <5>2, <5>3, <5>4, MakeOperation
        <5>6. t[2] = op1 /\ t[3] = u /\ t[4] = c.tree
          BY <5>4
        <5>7. u[2] = op0
          BY <5>1
        <5>8. Level(op0) >= Level(op1)
          BY <4>2, LevelIs
        <5>9. k = 0 => ByLevel(t)
          BY <3>10, <5>6, <5>7, <5>8 DEF ByLevel
        <5> QED BY <5>3, <5>5, <5>9
      <4> QED BY <4>1, <4>2
    <3>12. t \in Whole(p, j)
      BY <3>9, <3>11, MakeWhole
    <3>13. PICK s : s = Ok(j, t)
      OBVIOUS
    <3>14. s.next = j /\ s.tree = t
      BY <3>13 DEF Ok
    <3> QED BY <3>8, <3>12, <3>13, <3>14 DEF ReadsComplex
  <2> QED BY <2>5, <2>6, <2>7, <2>8
<1> QED BY <1>9, <1>10

LEMMA ParseComplexRead ==
    ASSUME tokens \in Seq(Tokens), NEW p \in Places, p <= Len(tokens) => ReadsAhead(p),
           NEW ends \in SUBSET Separators, ReadsSimple(p, Parsed[<<"simple", p, 0>>])
    PROVE  ReadsComplex(p, ParseComplex(Parsed, p, ends))
<1>1. PICK r : r = Parsed[<<"simple", p, 0>>]
  OBVIOUS
<1>2. PICK a : a = Asserted(r)
  OBVIOUS
<1>3. a = Asserted(Parsed[<<"simple", p, 0>>])
  BY <1>1, <1>2
<1>4. Fine("simple", p, 0, r) /\ ReadsSimple(p, r)
  BY <1>1, CallsAre, ParsedSound
<1>5. CASE ~a.ok
  <2>1. ParseComplex(Parsed, p, ends) = a
    BY <1>3, <1>5, ParseComplexIs
  <2> QED BY <1>5, <2>1, FailureReads
<1>6. CASE a.ok
  <2>1. a = r
    BY <1>2, <1>4, <1>6, AssertedIs DEF Fine
  <2>2. Sound(p, a) /\ Moves(p, a) /\ p <= Len(tokens) /\ a.tree \in Chain(p, a.next, 0)
    BY <1>4, <1>6, <2>1 DEF Fine, Moves, ReadsSimple
  <2>3. CASE Token(a.next) \in ends
    <3>1. ParseComplex(Parsed, p, ends) = a
      BY <1>3, <1>6, <2>3, ParseComplexIs
    <3>2. PICK j \in Places : j = a.next /\ p < j
      BY <1>6, <2>2 DEF Sound, Moves, Places
    <3>3. 0 \in Nat /\ 0 <= j - p
      BY <3>2 DEF Places
    <3>4. a.tree \in Whole(p, j)
      BY <2>2, <3>2, <3>3, MakeWhole
    <3> QED BY <3>1, <3>2, <3>4 DEF ReadsComplex
  <2>4. CASE Token(a.next) \notin ends /\ Token(a.next) \notin Ops
    <3>1. ParseComplex(Parsed, p, ends) = Failed(a.next, TRUE, FALSE)
      BY <1>3, <1>6, <2>4, ParseComplexIs
    <3> QED BY <3>1, FailedReads
  <2>5. CASE Token(a.next) \notin ends /\ Token(a.next) \in Ops
    <3>1. ParseComplex(Parsed, p, ends) = Second(Parsed, a, ends)
      BY <1>3, <1>6, <2>5, ParseComplexIs
    <3> QED BY <1>6, <2>2, <2>5, <3>1, SecondRead
  <2> QED BY <2>3, <2>4, <2>5
<1> QED BY <1>5, <1>6

LEMMA CallsRead ==
    ASSUME tokens \in Seq(Tokens)
    PROVE  \A c \in Calls : ReadsCall(c)
<1> DEFINE T == {c \in Calls : ReadsCall(c)}
<1>1. ASSUME NEW c \in Calls, Below(T, c) PROVE c \in T
  <2>1. PICK what \in Kinds, p \in Places, n \in Extras :
          /\ c = <<what, p, n>> /\ c[1] = what /\ c[2] = p /\ c[3] = n
          /\ what \in {"simple", "suffixes"} => n = 0
          /\ what \in {"arguments", "elements"} => n \in Nat
          /\ what = "elements" => n # 0
          /\ what = "complex" => n \in SUBSET Separators
    BY CallIs
  <2>2. p <= Len(tokens) => ReadsAhead(p)
    BY <1>1, <2>1 DEF Below, ReadsAhead
  <2>3. ASSUME NEW k, NEW m, <<k, p, m>> \in Calls, Rank(k) < Rank(what) PROVE Reads(k, p, m, Parsed[<<k, p, m>>])
    <3>1. PICK d : d = <<k, p, m>>
      OBVIOUS
    <3>2. d \in Calls /\ d[1] = k /\ d[2] = p /\ d[3] = m
      BY <2>3, <3>1
    <3>3. d \in T
      BY <1>1, <2>1, <2>3, <3>2 DEF Below
    <3>4. Reads(k, p, m, Parsed[d])
      BY <3>2, <3>3 DEF ReadsCall
    <3> QED BY <3>1, <3>4
  <2>4. Parsed[c] = Call(Parsed, what, p, n)
    BY <2>1, ParsedSound
  <2> SUFFICES Reads(what, p, n, Call(Parsed, what, p, n))
    BY <2>1, <2>4 DEF ReadsCall
  <2>5. CASE what = "simple"
    <3>1. ReadsSimple(p, Call(Parsed, what, p, n))
      BY <2>2, <2>5, CallIsOne, ParseSimpleRead
    <3> QED BY <2>5, <3>1 DEF Reads
  <2>6. CASE what = "suffixes"
    <3>1. ReadsSuffixes(p, Call(Parsed, what, p, n))
      BY <2>2, <2>6, CallIsOne, SuffixesRead
    <3> QED BY <2>6, <3>1 DEF Reads
  <2>7. CASE what = "complex"
    <3>1. Rank("simple") < Rank("complex")
      BY DEF Rank
    <3>2. ReadsSimple(p, Parsed[<<"simple", p, 0>>])
      BY <2>3, <2>7, <3>1, CallsAre DEF Reads
    <3>3. ReadsComplex(p, Call(Parsed, what, p, n))
      BY <2>1, <2>2, <2>7, <3>2, CallIsOne, ParseComplexRead
    <3> QED BY <2>7, <3>3 DEF Reads
  <2>8. ASSUME what \in {"arguments", "elements"} PROVE \A ends \in SUBSET Separators : ReadsComplex(p, Parsed[<<"complex", p, ends>>])
    <3>1. Rank("complex") < Rank(what)
      BY <2>8 DEF Rank
    <3> QED BY <2>3, <3>1, CallsAre DEF Reads
  <2>9. CASE what = "arguments"
    <3>1. ReadsArguments(p, n, Call(Parsed, what, p, n))
      BY <2>1, <2>2, <2>8, <2>9, CallIsOne, ArgumentsRead
    <3> QED BY <2>9, <3>1 DEF Reads
  <2>10. CASE what = "elements"
    <3>1. ReadsElements(p, n, Call(Parsed, what, p, n))
      BY <2>1, <2>2, <2>8, <2>10, CallIsOne, ElementsRead
    <3> QED BY <2>10, <3>1 DEF Reads
  <2> QED BY <2>5, <2>6, <2>7, <2>9, <2>10 DEF Kinds
<1>2. Calls \subseteq T
  <2> HIDE DEF T
  <2> QED BY <1>1, CallInduction
<1> QED BY <1>2

\* An expression that is read up to the end of the text is all of it.
LEMMA WholeRead ==
    ASSUME tokens \in Seq(Tokens), NEW r, r = Parsed[<<"complex", 1, {EndToken}>>], r.ok
    PROVE  r.tree \in Expressions(Trees(FALSE), 1, Len(tokens) + 1)
<1>1. 1 \in Places /\ {EndToken} \in SUBSET Separators
  BY DEF Places, Separators
<1>2. PICK c : c = <<"complex", 1, {EndToken}>>
  OBVIOUS
<1>3. c \in Calls /\ c[1] = "complex" /\ c[2] = 1
  BY <1>1, <1>2, CallsAre
<1>4. ReadsCall(c)
  BY <1>3, CallsRead
<1>5. ReadsComplex(1, r)
  BY <1>2, <1>3, <1>4 DEF ReadsCall, Reads
<1>6. Fine("complex", 1, {EndToken}, r)
  BY <1>1, CallsAre, ParsedSound
<1>7. PICK n \in Places : n = r.next /\ n <= Len(tokens) + 1 /\ Token(n) = EndToken /\ Len(tokens) \in Nat
  BY <1>1, <1>6, TokenAt DEF Fine, Sound, Moves, Places
<1>8. ~(n <= Len(tokens))
  BY <1>7, TokenAt
<1>9. n = Len(tokens) + 1
  BY <1>7, <1>8 DEF Places
<1> QED BY <1>5, <1>7, <1>9 DEF ReadsComplex, Whole, Grammar

\* The trees depend on the text only.
LEMMA SameText ==
    ASSUME tokens' = tokens
    PROVE  Expressions(Trees(FALSE), 1, Len(tokens) + 1)' = Expressions(Trees(FALSE), 1, Len(tokens) + 1)
BY DEF Expressions, Trees, Derived, Simples, Operations, Lists, SuffixLists, Primaries, Closes, Token, ByLevel, NoneWeaker, IsOp

\* The tree of an accepted expression is one the grammar gives its tokens, all of them.
THEOREM TreesSound == Spec => []TreesHoldExpressions
<1>1. Init => TreesHoldExpressions
  BY DEF Init, Done, TreesHoldExpressions
<1>2. TypeOK /\ TreesHoldExpressions /\ [Next]_vars => TreesHoldExpressions'
  <2> SUFFICES ASSUME TypeOK, TreesHoldExpressions, [Next]_vars PROVE TreesHoldExpressions'
    OBVIOUS
  <2>1. CASE Next
    <3>1. tokens' = tokens /\ result' = Parsed[<<"complex", 1, {EndToken}>>]
      BY <2>1 DEF Next, Parse
    <3>2. tokens \in Seq(Tokens)
      BY InputsAssumption DEF TypeOK
    <3>3. PICK r : r = Parsed[<<"complex", 1, {EndToken}>>]
      OBVIOUS
    <3>4. r.ok => r.tree \in Expressions(Trees(FALSE), 1, Len(tokens) + 1)
      BY <3>2, <3>3, WholeRead
    <3>5. result'.ok => result'.tree \in Expressions(Trees(FALSE), 1, Len(tokens) + 1)'
      BY <3>1, <3>3, <3>4, SameText
    <3> QED BY <3>5 DEF TreesHoldExpressions
  <2>2. CASE UNCHANGED vars
    <3>1. tokens' = tokens /\ phase' = phase /\ result' = result
      BY <2>2 DEF vars
    <3>2. Done' = Done
      BY <3>1 DEF Done
    <3>3. Expressions(Trees(FALSE), 1, Len(tokens) + 1)' = Expressions(Trees(FALSE), 1, Len(tokens) + 1)
      BY <3>1, SameText
    <3> QED BY <3>1, <3>2, <3>3 DEF TreesHoldExpressions
  <2> QED BY <2>1, <2>2
<1> QED BY <1>1, <1>2, TypeCorrect, PTL DEF Spec

-----------------------------------------------------------------------------
(* Every expression of the grammar is read.                                *)

\* An expression with operators is one without, an operator and an expression.
Leads(i, m, j, k) == Token(m) \in Ops /\ Chain(i, m, 0) # {} /\ Chain(m + 1, j, k - 1) # {}

LEMMA OperationIs ==
    ASSUME NEW i \in Places, NEW j \in Places, NEW k \in Nat, k # 0, Chain(i, j, k) # {}
    PROVE  \E m \in Places, l \in Nat, r \in Nat :
             /\ i < m /\ m + 1 < j /\ m + 1 \in Places /\ k = l + r + 1 /\ Token(m) \in Ops
             /\ Chain(i, m, l) # {} /\ Chain(m + 1, j, r) # {}
<1>1. PICK t : t \in Operations(Grammar, i, j, k, FALSE)
  BY ChainsAre DEF Chain
<1>2. IsOperation(Grammar, i, j, k, t)
  BY <1>1, InOperations
<1>3. PICK m \in (i + 1)..(j - 2) : \E l \in 0..(k - 1) :
             Token(m) \in Ops /\ \E a \in Grammar[<<"chain", i, m, l>>], b \in Grammar[<<"chain", m + 1, j, k - 1 - l>>] :
                                   t = <<"op", Token(m), a, b>>
  BY <1>2 DEF IsOperation
<1>4. PICK l \in 0..(k - 1) :
             Token(m) \in Ops /\ \E a \in Grammar[<<"chain", i, m, l>>], b \in Grammar[<<"chain", m + 1, j, k - 1 - l>>] :
                                   t = <<"op", Token(m), a, b>>
  BY <1>3
<1>5. PICK a, b : a \in Grammar[<<"chain", i, m, l>>] /\ b \in Grammar[<<"chain", m + 1, j, k - 1 - l>>]
  BY <1>4
<1>6. i \in Nat /\ j \in Nat
  BY DEF Places
<1>7. m \in Places /\ i < m /\ m + 1 < j /\ m + 1 \in Places
  BY <1>6 DEF Places
<1>8. PICK r \in Nat : r = k - 1 - l /\ l \in Nat /\ k = l + r + 1
  OBVIOUS
<1>9. b \in Chain(m + 1, j, r) /\ a \in Chain(i, m, l)
  BY <1>5, <1>8 DEF Chain
<1> QED BY <1>4, <1>7, <1>8, <1>9

LEMMA Leading ==
    \A d \in Pieces : d[4] # 0 /\ Chain(d[2], d[3], d[4]) # {} =>
      \E m \in Places : d[2] < m /\ m + 1 < d[3] /\ m + 1 \in Places /\ Leads(d[2], m, d[3], d[4])
<1> DEFINE P(d) == d[4] # 0 /\ Chain(d[2], d[3], d[4]) # {} =>
                     \E m \in Places : d[2] < m /\ m + 1 < d[3] /\ m + 1 \in Places /\ Leads(d[2], m, d[3], d[4])
           T == {d \in Pieces : P(d)}
           f == [d \in Pieces |-> Width(d[2], d[3])]
<1>1. f \in [Pieces -> Nat] /\ \A d \in Pieces : f[d] = Width(d[2], d[3])
  BY PieceIs
<1> HIDE DEF f
<1>2. ASSUME NEW d \in Pieces, \A e \in Pieces : f[e] < f[d] => e \in T PROVE d \in T
  <2>1. PICK what \in Shapes, i \in Places, j \in Places, k \in Nat :
          d = <<what, i, j, k>> /\ d[1] = what /\ d[2] = i /\ d[3] = j /\ d[4] = k
    BY PieceIs
  <2>2. SUFFICES ASSUME k # 0, Chain(i, j, k) # {}
                 PROVE  \E m \in Places : i < m /\ m + 1 < j /\ m + 1 \in Places /\ Leads(i, m, j, k)
    BY <2>1
  <2>3. PICK m \in Places, l \in Nat, r \in Nat :
          /\ i < m /\ m + 1 < j /\ m + 1 \in Places /\ k = l + r + 1 /\ Token(m) \in Ops
          /\ Chain(i, m, l) # {} /\ Chain(m + 1, j, r) # {}
    BY <2>2, OperationIs
  <2>4. CASE l = 0
    <3>1. r = k - 1
      BY <2>3, <2>4
    <3>2. Leads(i, m, j, k)
      BY <2>3, <2>4, <3>1 DEF Leads
    <3> QED BY <2>3, <3>2
  <2>5. CASE l # 0
    <3>1. PICK e : e = <<"chain", i, m, l>>
      OBVIOUS
    <3>2. e \in Pieces /\ e[2] = i /\ e[3] = m /\ e[4] = l
      BY <3>1, PiecesAre
    <3>3. Width(i, m) < Width(i, j)
      BY <2>3 DEF Width, Places
    <3>4. P(e)
      BY <1>1, <1>2, <2>1, <3>2, <3>3
    <3>5. PICK n \in Places : i < n /\ n + 1 < m /\ n + 1 \in Places /\ Leads(i, n, m, l)
      BY <2>3, <2>5, <3>2, <3>4
    <3>6. PICK s \in Nat : s = l - 1 /\ s + r + 1 = k - 1
      BY <2>3, <2>5
    <3>7. Token(n) \in Ops /\ Chain(i, n, 0) # {} /\ Chain(n + 1, m, s) # {}
      BY <3>5, <3>6 DEF Leads
    <3>8. PICK a, b : a \in Chain(n + 1, m, s) /\ b \in Chain(m + 1, j, r)
      BY <2>3, <3>7
    <3>9. <<"op", Token(m), a, b>> \in Chain(n + 1, j, s + r + 1)
      BY <2>3, <3>5, <3>8, MakeOperation
    <3>10. Leads(i, n, j, k)
      BY <3>6, <3>7, <3>9 DEF Leads
    <3>11. n + 1 < j
      BY <2>3, <3>5 DEF Places
    <3> QED BY <3>5, <3>10, <3>11
  <2> QED BY <2>4, <2>5
<1>3. Pieces \subseteq T
  <2> HIDE DEF T, P
  <2> QED BY <1>1, <1>2, MeasureInduction
<1> QED BY <1>3

LEMMA LeadingIs ==
    ASSUME NEW i \in Places, NEW j \in Places, NEW k \in Nat, k # 0, Chain(i, j, k) # {}
    PROVE  \E m \in Places, r \in Nat : /\ i < m /\ m + 1 < j /\ m + 1 \in Places /\ Token(m) \in Ops
                                        /\ k = r + 1 /\ Chain(i, m, 0) # {} /\ Chain(m + 1, j, r) # {}
<1>1. PICK d : d = <<"chain", i, j, k>>
  OBVIOUS
<1>2. d \in Pieces /\ d[2] = i /\ d[3] = j /\ d[4] = k
  BY <1>1, PiecesAre
<1>3. PICK m \in Places : i < m /\ m + 1 < j /\ m + 1 \in Places /\ Leads(i, m, j, k)
  BY <1>2, Leading
<1>4. PICK r \in Nat : r = k - 1 /\ k = r + 1
  OBVIOUS
<1>5. Token(m) \in Ops /\ Chain(i, m, 0) # {} /\ Chain(m + 1, j, r) # {}
  BY <1>3, <1>4 DEF Leads
<1> QED BY <1>3, <1>4, <1>5

\* Where a token ends what is read in front of it.
LEMMA EndsAreBare ==
    ASSUME NEW p
    PROVE  /\ Token(p) \in Separators => Bare(p) /\ Token(p) \notin Ops
           /\ Token(p) \in Ops => Bare(p) /\ Token(p) \notin Separators
BY KindsApart DEF Bare

\* A piece that has a tree is read to its end, if what stands there may end it.
Accepts(r, j) == r.ok /\ r.next = j
SimpleEnds(i, j) == Bare(j) => Accepts(Parsed[<<"simple", i, 0>>], j)
SuffixesEnd(i, j) == Bare(j) => Accepts(Parsed[<<"suffixes", i, 0>>], j)
ComplexEnds(i, j) ==
    \A ends \in SUBSET Separators : Token(j) \in ends => Accepts(Parsed[<<"complex", i, ends>>], j)
ArgumentsEnd(i, j, k) == Token(j) = ")" => Accepts(Parsed[<<"arguments", i, k>>], j + 1)
ElementsEnd(i, j, k) ==
    \A n \in Nat : n # 0 /\ k <= n /\ Closes(j, k, n) => Accepts(Parsed[<<"elements", i, n>>], j + 1)

ChainEnds(i, j, k) == Chain(i, j, k) # {} => ComplexEnds(i, j) /\ (k = 0 => SimpleEnds(i, j))
ListEnds(i, j, k) == List(i, j, k) # {} => ArgumentsEnd(i, j, k) /\ ElementsEnd(i, j, k)
SuffixedEnds(i, j, k) == Suffixed(i, j, k) # {} => SuffixesEnd(i, j)
EndsWithin(n) ==
    \A i \in Places, j \in Places, k \in Nat :
      Shorter(i, j, n) => ChainEnds(i, j, k) /\ ListEnds(i, j, k) /\ SuffixedEnds(i, j, k)

LEMMA ParsedIs ==
    ASSUME tokens \in Seq(Tokens), NEW p \in Places
    PROVE  /\ Parsed[<<"simple", p, 0>>] = ParseSimple(Parsed, p)
           /\ Parsed[<<"suffixes", p, 0>>] = Suffixes(Parsed, p)
           /\ \A ends \in SUBSET Separators : Parsed[<<"complex", p, ends>>] = ParseComplex(Parsed, p, ends)
           /\ \A n \in Nat : Parsed[<<"arguments", p, n>>] = Arguments(Parsed, p, n)
           /\ \A n \in Nat \ {0} : Parsed[<<"elements", p, n>>] = Initializer(Parsed, p, n)
<1>1. Parsed[<<"simple", p, 0>>] = Call(Parsed, "simple", p, 0)
  BY CallsAre, ParsedSound
<1>2. Parsed[<<"suffixes", p, 0>>] = Call(Parsed, "suffixes", p, 0)
  BY CallsAre, ParsedSound
<1>3. ASSUME NEW ends \in SUBSET Separators PROVE Parsed[<<"complex", p, ends>>] = Call(Parsed, "complex", p, ends)
  BY CallsAre, ParsedSound
<1>4. ASSUME NEW n \in Nat PROVE Parsed[<<"arguments", p, n>>] = Call(Parsed, "arguments", p, n)
  BY CallsAre, ParsedSound
<1>5. ASSUME NEW n \in Nat \ {0} PROVE Parsed[<<"elements", p, n>>] = Call(Parsed, "elements", p, n)
  BY CallsAre, ParsedSound
<1>6. Parsed[<<"simple", p, 0>>] = ParseSimple(Parsed, p)
  BY <1>1, CallIsOne
<1>7. Parsed[<<"suffixes", p, 0>>] = Suffixes(Parsed, p)
  BY <1>2, CallIsOne
<1>8. \A ends \in SUBSET Separators : Parsed[<<"complex", p, ends>>] = ParseComplex(Parsed, p, ends)
  BY <1>3, CallIsOne
<1>9. \A n \in Nat : Parsed[<<"arguments", p, n>>] = Arguments(Parsed, p, n)
  BY <1>4, CallIsOne
<1>10. \A n \in Nat \ {0} : Parsed[<<"elements", p, n>>] = Initializer(Parsed, p, n)
  BY <1>5, CallIsOne
<1> QED BY <1>6, <1>7, <1>8, <1>9, <1>10

LEMMA ListedAccepts ==
    ASSUME NEW tree, NEW rest, NEW j, Accepts(rest, j)
    PROVE  Accepts(Listed(tree, rest), j)
<1>1. rest.ok /\ rest.next = j
  BY DEF Accepts
<1> QED BY <1>1, ListedIs DEF Accepts

LEMMA OkAccepts ==
    ASSUME NEW j, NEW t
    PROVE  Accepts(Ok(j, t), j)
<1>1. PICK r : r = Ok(j, t)
  OBVIOUS
<1>2. r.ok /\ r.next = j
  BY <1>1 DEF Ok
<1> QED BY <1>1, <1>2 DEF Accepts

\* An expression that has a tree ends at a separator.
LEMMA WholeEnds ==
    ASSUME NEW i \in Places, NEW j \in Places, \A k \in Nat : ChainEnds(i, j, k), Whole(i, j) # {}
    PROVE  ComplexEnds(i, j)
<1>1. PICK e : e \in Expressions(Grammar, i, j)
  BY DEF Whole
<1>2. PICK k \in 0..(j - i) : e \in Grammar[<<"chain", i, j, k>>]
  BY <1>1, InExpressions
<1>3. k \in Nat
  BY DEF Places
<1>4. Chain(i, j, k) # {}
  BY <1>2 DEF Chain
<1> QED BY <1>3, <1>4 DEF ChainEnds

LEMMA WholeEndsWithin ==
    ASSUME NEW n, EndsWithin(n), NEW i \in Places, NEW j \in Places, Shorter(i, j, n), Whole(i, j) # {}
    PROVE  ComplexEnds(i, j)
<1>1. \A k \in Nat : ChainEnds(i, j, k)
  BY DEF EndsWithin
<1> QED BY <1>1, WholeEnds

LEMMA SuffixesWritten ==
    ASSUME tokens \in Seq(Tokens), NEW i \in Places, NEW j \in Places, NEW k \in Nat, EndsWithin(Width(i, j))
    PROVE  SuffixedEnds(i, j, k)
<1>1. SUFFICES ASSUME Suffixed(i, j, k) # {}, Bare(j) PROVE Accepts(Suffixes(Parsed, i), j)
  BY ParsedIs DEF SuffixedEnds, SuffixesEnd
<1>2. PICK t : t \in SuffixLists(Grammar, i, j, k)
  BY <1>1, SuffixesAre DEF Suffixed
<1>3. i \in Nat /\ j \in Nat /\ i + 1 \in Places /\ i + 2 \in Places
  BY DEF Places
<1>4. CASE k = 0
  <2>1. t \in SuffixLists(Grammar, i, j, 0)
    BY <1>2, <1>4
  <2>2. i = j
    BY <2>1, InSuffixLists
  <2>3. Suffixes(Parsed, i) = Ok(i, <<>>)
    BY <1>1, <2>2, SuffixesIs DEF Bare
  <2> QED BY <2>2, <2>3, OkAccepts
<1>5. CASE k # 0
  <2>1. PICK r \in Nat : r = k - 1
    BY <1>5
  <2>2. IsMember(Grammar, i, j, k, t) \/ IsIndex(Grammar, i, j, k, t)
    BY <1>2, <1>5, InSuffixLists
  <2>3. CASE IsMember(Grammar, i, j, k, t)
    <3>1. Token(i) = "." /\ Token(i + 1) \in Names /\ i + 2 <= j
      BY <2>3 DEF IsMember
    <3>2. Suffixed(i + 2, j, r) # {}
      BY <2>1, <2>3 DEF IsMember, Suffixed
    <3>3. PICK q \in Places : q = i + 2
      BY <1>3
    <3>4. Shorter(q, j, Width(i, j))
      BY <1>3, <3>1, <3>3 DEF Shorter, Width
    <3>5. SuffixesEnd(q, j)
      BY <3>2, <3>3, <3>4 DEF EndsWithin, SuffixedEnds
    <3>6. PICK rest : rest = Parsed[<<"suffixes", i + 2, 0>>]
      OBVIOUS
    <3>7. Accepts(rest, j)
      BY <1>1, <3>3, <3>5, <3>6 DEF SuffixesEnd
    <3>8. Suffixes(Parsed, i) = Listed(<<".", Token(i + 1)>>, rest)
      BY <3>1, <3>6, SuffixesIs
    <3> QED BY <3>7, <3>8, ListedAccepts
  <2>4. CASE IsIndex(Grammar, i, j, k, t)
    <3>1. Token(i) = "["
      BY <2>4 DEF IsIndex
    <3>2. PICK m \in (i + 2)..(j - 1) : Token(m) = "]" /\ Expressions(Grammar, i + 1, m) # {}
                                        /\ Grammar[<<"suffixes", m + 1, j, k - 1>>] # {}
      BY <2>4 DEF IsIndex
    <3>3. Suffixed(m + 1, j, r) # {} /\ Whole(i + 1, m) # {}
      BY <2>1, <3>2 DEF Suffixed, Whole
    <3>4. PICK p \in Places, q \in Places : p = i + 1 /\ q = m + 1 /\ m \in Places
      BY <1>3 DEF Places
    <3>5. Shorter(p, m, Width(i, j)) /\ Shorter(q, j, Width(i, j))
      BY <1>3, <3>4 DEF Shorter, Width
    <3>6. ComplexEnds(p, m)
      BY <3>3, <3>4, <3>5, WholeEndsWithin
    <3>7. SuffixesEnd(q, j)
      BY <3>3, <3>4, <3>5 DEF EndsWithin, SuffixedEnds
    <3>8. PICK rest : rest = Parsed[<<"suffixes", m + 1, 0>>]
      OBVIOUS
    <3>9. Accepts(rest, j)
      BY <1>1, <3>4, <3>7, <3>8 DEF SuffixesEnd
    <3>10. {"]"} \in SUBSET Separators
      BY DEF Separators
    <3>11. PICK index : index = Parsed[<<"complex", i + 1, {"]"}>>]
      OBVIOUS
    <3>12. index.ok /\ index.next = m
      BY <3>2, <3>4, <3>6, <3>10, <3>11 DEF ComplexEnds, Accepts
    <3>13. PICK e : e = <<"[", index.tree>>
      OBVIOUS
    <3>14. Suffixes(Parsed, i) = Listed(e, rest)
      BY <3>1, <3>8, <3>11, <3>12, <3>13, SuffixesIs
    <3> QED BY <3>9, <3>14, ListedAccepts
  <2> QED BY <2>2, <2>3, <2>4
<1> QED BY <1>4, <1>5

\* A list with more elements than one: the first of them, a comma and the others.
IsLonger(i, j, k) ==
    \E m \in Places, r \in Nat :
      /\ i < m /\ m + 1 < j /\ m + 1 \in Places /\ k = r + 1 /\ r # 0 /\ Token(m) = Comma
      /\ Whole(i, m) # {} /\ List(m + 1, j, r) # {}

LEMMA ListIs ==
    ASSUME NEW i \in Places, NEW j \in Places, NEW k \in Nat, List(i, j, k) # {}
    PROVE  (k = 1 /\ Whole(i, j) # {}) \/ IsLonger(i, j, k)
<1>1. PICK t : t \in Lists(Grammar, i, j, k)
  BY ListsAre DEF List
<1>2. k # 0
  <2>1. ASSUME k = 0 PROVE FALSE
    <3>1. t \in Lists(Grammar, i, j, 0)
      BY <1>1, <2>1
    <3> QED BY <3>1, InLists
  <2> QED BY <2>1
<1>3. CASE k = 1
  <2>1. t \in Lists(Grammar, i, j, 1)
    BY <1>1, <1>3
  <2>2. Whole(i, j) # {}
    BY <2>1, InLists DEF Whole
  <2> QED BY <1>3, <2>2
<1>4. CASE k # 1
  <2>1. IsList(Grammar, i, j, k, t)
    BY <1>1, <1>2, <1>4, InLists
  <2>2. PICK m \in (i + 1)..(j - 2) : Token(m) = Comma /\ \E e \in Expressions(Grammar, i, m),
                      l \in Grammar[<<"list", m + 1, j, k - 1>>] : t = <<e>> \o l
    BY <2>1 DEF IsList
  <2>3. Expressions(Grammar, i, m) # {} /\ Grammar[<<"list", m + 1, j, k - 1>>] # {}
    BY <2>2
  <2>4. i \in Nat /\ j \in Nat
    BY DEF Places
  <2>5. m \in Places /\ i < m /\ m + 1 < j /\ m + 1 \in Places
    BY <2>4 DEF Places
  <2>6. PICK r \in Nat : r = k - 1 /\ k = r + 1 /\ r # 0
    BY <1>2, <1>4
  <2>7. Whole(i, m) # {} /\ List(m + 1, j, r) # {}
    BY <2>3, <2>6 DEF Whole, List
  <2> QED BY <2>2, <2>5, <2>6, <2>7 DEF IsLonger
<1> QED BY <1>3, <1>4

LEMMA ListWritten ==
    ASSUME tokens \in Seq(Tokens), NEW i \in Places, NEW j \in Places, NEW k \in Nat, EndsWithin(Width(i, j)),
           \A l \in Nat : ChainEnds(i, j, l)
    PROVE  ListEnds(i, j, k)
<1>1. SUFFICES ASSUME List(i, j, k) # {} PROVE ArgumentsEnd(i, j, k) /\ ElementsEnd(i, j, k)
  BY DEF ListEnds
<1>2. j + 1 \in Places /\ i \in Nat /\ j \in Nat
  BY DEF Places
<1>3. PICK both : both = {")", ","}
  OBVIOUS
<1>4. both \in SUBSET Separators /\ (\A t : t = ")" \/ t = Comma => t \in both)
  BY <1>3, Zenon DEF Separators, Comma
<1>5. CASE k = 1 /\ Whole(i, j) # {}
  <2>1. ComplexEnds(i, j)
    BY <1>5, WholeEnds
  <2>2. ASSUME Token(j) = ")" PROVE Accepts(Parsed[<<"arguments", i, 1>>], j + 1)
    <3>1. ArgumentEnds(1) = {")"} /\ {")"} \in SUBSET Separators
      BY DEF ArgumentEnds, Separators
    <3>2. PICK r : r = Parsed[<<"complex", i, ArgumentEnds(1)>>]
      OBVIOUS
    <3>3. r.ok /\ r.next = j
      BY <2>1, <2>2, <3>1, <3>2 DEF ComplexEnds, Accepts
    <3>4. PICK rest : rest = Parsed[<<"arguments", j + 1, 0>>]
      OBVIOUS
    <3>5. rest = Arguments(Parsed, j + 1, 0)
      BY <1>2, <3>4, ParsedIs
    <3>6. rest = Ok(j + 1, <<>>)
      BY <3>5, ArgumentsIs
    <3>7. Accepts(rest, j + 1)
      BY <3>6, OkAccepts
    <3>8. 1 - 1 = 0 /\ 1 # 0
      OBVIOUS
    <3>9. Arguments(Parsed, i, 1) = Listed(r.tree, rest)
      BY <3>2, <3>3, <3>4, <3>8, ArgumentsIs
    <3>10. Parsed[<<"arguments", i, 1>>] = Arguments(Parsed, i, 1)
      BY ParsedIs
    <3> QED BY <3>7, <3>9, <3>10, ListedAccepts
  <2>3. ASSUME NEW n \in Nat, n # 0, Closes(j, 1, n) PROVE Accepts(Parsed[<<"elements", i, n>>], j + 1)
    <3>1. Token(j) = ")" \/ (Token(j) = Comma /\ n = 1)
      BY <2>3, ClosesIs
    <3>2. PICK r : r = Parsed[<<"complex", i, both>>]
      OBVIOUS
    <3>3. r.ok /\ r.next = j
      BY <1>4, <2>1, <3>1, <3>2 DEF ComplexEnds, Accepts
    <3>4. Token(r.next) = ")" \/ n = 1
      BY <3>1, <3>3
    <3>5. PICK t : t = <<r.tree>>
      OBVIOUS
    <3>6. Initializer(Parsed, i, n) = Ok(j + 1, t)
      BY <1>3, <3>2, <3>3, <3>4, <3>5, InitializerIs
    <3>7. Parsed[<<"elements", i, n>>] = Initializer(Parsed, i, n)
      BY <2>3, ParsedIs
    <3> QED BY <3>6, <3>7, OkAccepts
  <2> QED BY <1>5, <2>2, <2>3 DEF ArgumentsEnd, ElementsEnd
<1>6. CASE IsLonger(i, j, k)
  <2>1. PICK m \in Places, l \in Nat :
             /\ i < m /\ m + 1 < j /\ m + 1 \in Places /\ k = l + 1 /\ l # 0 /\ Token(m) = Comma
             /\ Whole(i, m) # {} /\ List(m + 1, j, l) # {}
    BY <1>6 DEF IsLonger
  <2>2. PICK q \in Places : q = m + 1
    BY <2>1
  <2>3. Shorter(i, m, Width(i, j)) /\ Shorter(q, j, Width(i, j))
    BY <1>2, <2>1, <2>2 DEF Shorter, Width, Places
  <2>4. ComplexEnds(i, m)
    BY <2>1, <2>3, WholeEndsWithin
  <2>5. ArgumentsEnd(q, j, l) /\ ElementsEnd(q, j, l)
    BY <2>1, <2>2, <2>3 DEF EndsWithin, ListEnds
  <2>6. k # 0 /\ k # 1 /\ k - 1 = l
    BY <2>1
  <2>7. ASSUME Token(j) = ")" PROVE Accepts(Parsed[<<"arguments", i, k>>], j + 1)
    <3>1. ArgumentEnds(k) \in SUBSET Separators /\ Comma \in ArgumentEnds(k)
      BY <2>6, Zenon DEF ArgumentEnds, Separators, Comma
    <3>2. PICK r : r = Parsed[<<"complex", i, ArgumentEnds(k)>>]
      OBVIOUS
    <3>3. r.ok /\ r.next = m
      BY <2>1, <2>4, <3>1, <3>2 DEF ComplexEnds, Accepts
    <3>4. PICK rest : rest = Parsed[<<"arguments", m + 1, l>>]
      OBVIOUS
    <3>5. Accepts(rest, j + 1)
      BY <2>2, <2>5, <2>7, <3>4 DEF ArgumentsEnd
    <3>6. Arguments(Parsed, i, k) = Listed(r.tree, rest)
      BY <2>6, <3>2, <3>3, <3>4, ArgumentsIs
    <3>7. Parsed[<<"arguments", i, k>>] = Arguments(Parsed, i, k)
      BY ParsedIs
    <3> QED BY <3>5, <3>6, <3>7, ListedAccepts
  <2>8. ASSUME NEW n \in Nat, n # 0, k <= n, Closes(j, k, n) PROVE Accepts(Parsed[<<"elements", i, n>>], j + 1)
    <3>1. PICK s \in Nat : s = n - 1 /\ s # 0 /\ l <= s /\ n # 1 /\ (k = n => l = s)
      BY <2>1, <2>8
    <3>2. PICK r : r = Parsed[<<"complex", i, both>>]
      OBVIOUS
    <3>3. r.ok /\ r.next = m
      BY <1>4, <2>1, <2>4, <3>2 DEF ComplexEnds, Accepts
    <3>4. Token(r.next) # ")"
      BY <2>1, <3>3, Zenon DEF Comma
    <3>5. PICK rest : rest = Parsed[<<"elements", m + 1, s>>]
      OBVIOUS
    <3>6. Closes(j, l, s)
      BY <2>8, <3>1, ClosesIs
    <3>7. Accepts(rest, j + 1)
      BY <2>2, <2>5, <3>1, <3>5, <3>6 DEF ElementsEnd
    <3>8. Initializer(Parsed, i, n) = Listed(r.tree, rest)
      BY <1>3, <3>1, <3>2, <3>3, <3>4, <3>5, InitializerIs
    <3>9. Parsed[<<"elements", i, n>>] = Initializer(Parsed, i, n)
      BY <2>8, ParsedIs
    <3> QED BY <3>7, <3>8, <3>9, ListedAccepts
  <2> QED BY <2>7, <2>8 DEF ArgumentsEnd, ElementsEnd
<1> QED BY <1>1, <1>5, <1>6, ListIs

LEMMA AppliedAccepts ==
    ASSUME NEW kind, NEW name, NEW list, NEW j, Accepts(list, j)
    PROVE  Accepts(Applied(kind, name, list), j)
<1>1. list.ok /\ list.next = j
  BY DEF Accepts
<1> QED BY <1>1, AppliedIs DEF Accepts

LEMMA OperandWritten ==
    ASSUME tokens \in Seq(Tokens), NEW i \in Places, NEW m \in Places, i < m, NEW n \in Nat, m - i <= n,
           EndsWithin(n), Primary(i, m) # {}
    PROVE  Accepts(Operand(Parsed, i), m)
<1>1. PICK b : b \in Primaries(Grammar, i, m)
  BY DEF Primary
<1>2. i \in Nat /\ m \in Nat /\ i + 2 \in Places
  BY DEF Places
<1>3. CASE IsLeaf(i, m, b)
  <2>1. Token(i) \in Leaves \cup Numbers /\ m = i + 1
    BY <1>3 DEF IsLeaf
  <2>2. PICK t : t = <<"leaf", Token(i)>>
    OBVIOUS
  <2>3. Operand(Parsed, i) = Ok(i + 1, t)
    BY <2>1, <2>2, OperandIs
  <2> QED BY <2>1, <2>3, OkAccepts
<1>4. CASE IsGroup(Grammar, i, m, b)
  <2>1. Token(i) = "(" /\ i + 1 < m /\ Token(m - 1) = ")" /\ Expressions(Grammar, i + 1, m - 1) # {}
    BY <1>4 DEF IsGroup
  <2>2. PICK p \in Places, q \in Places : p = i + 1 /\ q = m - 1 /\ q + 1 = m
    BY <1>2, <2>1 DEF Places
  <2>3. Shorter(p, q, n)
    BY <1>2, <2>1, <2>2 DEF Shorter, Width
  <2>4. Whole(p, q) # {}
    BY <2>1, <2>2 DEF Whole
  <2>5. ComplexEnds(p, q)
    BY <2>3, <2>4, WholeEndsWithin
  <2>6. {")"} \in SUBSET Separators
    BY DEF Separators
  <2>7. PICK r : r = Parsed[<<"complex", i + 1, {")"}>>]
    OBVIOUS
  <2>8. r.ok /\ r.next = q
    BY <2>1, <2>2, <2>5, <2>6, <2>7 DEF ComplexEnds, Accepts
  <2>9. Operand(Parsed, i) = Ok(r.next + 1, r.tree)
    BY <2>1, <2>7, <2>8, OperandIs
  <2> QED BY <2>2, <2>8, <2>9, OkAccepts
<1>5. CASE IsBareCall(i, m, b)
  <2>1. Token(i) \in DOMAIN Arity /\ Token(i + 1) = "(" /\ Arity[Token(i)] = 0 /\ m = i + 2
    BY <1>5 DEF IsBareCall
  <2>2. PICK list : list = Parsed[<<"arguments", i + 2, 0>>]
    OBVIOUS
  <2>3. list = Arguments(Parsed, i + 2, 0)
    BY <1>2, <2>2, ParsedIs
  <2>4. list = Ok(i + 2, <<>>)
    BY <2>3, ArgumentsIs
  <2>5. Accepts(list, m)
    BY <2>1, <2>4, OkAccepts
  <2>6. Operand(Parsed, i) = Applied("call", Token(i), list)
    BY <2>1, <2>2, OperandIs
  <2> QED BY <2>5, <2>6, AppliedAccepts
<1>6. CASE IsCall(Grammar, i, m, b)
  <2>1. /\ Token(i) \in DOMAIN Arity /\ Token(i + 1) = "(" /\ Arity[Token(i)] # 0
        /\ i + 2 < m /\ Token(m - 1) = ")" /\ Grammar[<<"list", i + 2, m - 1, Arity[Token(i)]>>] # {}
    BY <1>6 DEF IsCall
  <2>2. PICK p \in Places, q \in Places : p = i + 2 /\ q = m - 1 /\ q + 1 = m
    BY <1>2, <2>1 DEF Places
  <2>3. PICK k \in Nat : k = Arity[Token(i)]
    BY <2>1, CountsAssumption
  <2>4. Shorter(p, q, n)
    BY <1>2, <2>1, <2>2 DEF Shorter, Width
  <2>5. List(p, q, k) # {}
    BY <2>1, <2>2, <2>3 DEF List
  <2>6. ArgumentsEnd(p, q, k)
    BY <2>4, <2>5 DEF EndsWithin, ListEnds
  <2>7. PICK list : list = Parsed[<<"arguments", i + 2, k>>]
    OBVIOUS
  <2>8. Accepts(list, m)
    BY <2>1, <2>2, <2>6, <2>7 DEF ArgumentsEnd
  <2>9. Operand(Parsed, i) = Applied("call", Token(i), list)
    BY <2>1, <2>3, <2>7, OperandIs
  <2> QED BY <2>8, <2>9, AppliedAccepts
<1>7. CASE IsInit(Grammar, i, m, b)
  <2>1. Token(i) \in DOMAIN Elements /\ Token(i + 1) = "(" /\ i + 2 < m
    BY <1>7 DEF IsInit
  <2>2. PICK k \in 1..Elements[Token(i)] : Closes(m - 1, k, Elements[Token(i)]) /\ Grammar[<<"list", i + 2, m - 1, k>>] # {}
    BY <1>7 DEF IsInit
  <2>3. PICK p \in Places, q \in Places : p = i + 2 /\ q = m - 1 /\ q + 1 = m
    BY <1>2, <2>1 DEF Places
  <2>4. PICK s \in Nat : s = Elements[Token(i)] /\ s # 0
    BY <2>1, CountsAssumption
  <2>5. Shorter(p, q, n)
    BY <1>2, <2>1, <2>3 DEF Shorter, Width
  <2>6. k \in Nat /\ k <= s /\ Closes(q, k, s)
    BY <2>2, <2>3, <2>4
  <2>7. List(p, q, k) # {}
    BY <2>2, <2>3 DEF List
  <2>8. ElementsEnd(p, q, k)
    BY <2>5, <2>6, <2>7 DEF EndsWithin, ListEnds
  <2>9. PICK list : list = Parsed[<<"elements", i + 2, s>>]
    OBVIOUS
  <2>10. Accepts(list, m)
    BY <2>3, <2>4, <2>6, <2>8, <2>9 DEF ElementsEnd
  <2>11. Operand(Parsed, i) = Applied("init", Token(i), list)
    BY <2>1, <2>4, <2>9, OperandIs
  <2> QED BY <2>10, <2>11, AppliedAccepts
<1> QED BY <1>1, <1>3, <1>4, <1>5, <1>6, <1>7, InPrimaries

LEMMA ValueAccepts ==
    ASSUME NEW R, NEW i, NEW m, NEW j, Accepts(Operand(R, i), m), Accepts(R[<<"suffixes", m, 0>>], j)
    PROVE  Accepts(ParseSimple(R, i), j)
<1>1. PICK base : base = Operand(R, i)
  OBVIOUS
<1>2. base.ok /\ base.next = m
  BY <1>1 DEF Accepts
<1>3. PICK list : list = R[<<"suffixes", base.next, 0>>]
  OBVIOUS
<1>4. list.ok /\ list.next = j
  BY <1>2, <1>3 DEF Accepts
<1>5. PICK t : t = <<"value", base.tree, list.tree>>
  OBVIOUS
<1>6. ParseSimple(R, i) = Ok(j, t)
  BY <1>1, <1>2, <1>3, <1>4, <1>5, ParseSimpleIs
<1> QED BY <1>6, OkAccepts

LEMMA SimpleWritten ==
    ASSUME tokens \in Seq(Tokens), NEW i \in Places, NEW j \in Places, EndsWithin(Width(i, j)), Chain(i, j, 0) # {}
    PROVE  SimpleEnds(i, j)
<1>1. SUFFICES ASSUME Bare(j) PROVE Accepts(ParseSimple(Parsed, i), j)
  BY ParsedIs DEF SimpleEnds
<1>2. PICK t : t \in Simples(Grammar, i, j)
  BY ChainsAre DEF Chain
<1>3. i \in Nat /\ j \in Nat /\ i + 1 \in Places
  BY DEF Places
<1>4. CASE IsValue(Grammar, i, j, t)
  <2>1. PICK m \in (i + 1)..j : \E b \in Primaries(Grammar, i, m) : \E k \in 0..(j - m) :
              \E s \in Grammar[<<"suffixes", m, j, k>>] : t = <<"value", b, s>>
    BY <1>4 DEF IsValue
  <2>2. PICK b \in Primaries(Grammar, i, m) : \E k \in 0..(j - m) : \E s \in Grammar[<<"suffixes", m, j, k>>] : t = <<"value", b, s>>
    BY <2>1
  <2>3. PICK k \in 0..(j - m) : Grammar[<<"suffixes", m, j, k>>] # {}
    BY <2>2
  <2>4. m \in Places /\ i < m /\ m <= j /\ k \in Nat
    BY <1>3 DEF Places
  <2>5. Width(i, j) \in Nat /\ m - i <= Width(i, j) /\ Shorter(m, j, Width(i, j))
    BY <1>3, <2>4 DEF Shorter, Width, Places
  <2>6. Primary(i, m) # {} /\ Suffixed(m, j, k) # {}
    BY <2>2, <2>3 DEF Primary, Suffixed
  <2>7. Accepts(Operand(Parsed, i), m)
    BY <2>4, <2>5, <2>6, OperandWritten
  <2>8. Accepts(Parsed[<<"suffixes", m, 0>>], j)
    BY <1>1, <2>4, <2>5, <2>6 DEF EndsWithin, SuffixedEnds, SuffixesEnd
  <2> QED BY <2>7, <2>8, ValueAccepts
<1>5. CASE IsPrefixed(Grammar, i, j, t)
  <2>1. Token(i) \in Prefixes /\ i + 1 < j /\ Grammar[<<"chain", i + 1, j, 0>>] # {}
    BY <1>5 DEF IsPrefixed
  <2>2. PICK q \in Places : q = i + 1
    BY <1>3
  <2>3. Chain(q, j, 0) # {}
    BY <2>1, <2>2 DEF Chain
  <2>4. Shorter(q, j, Width(i, j)) /\ 0 \in Nat
    BY <1>3, <2>1, <2>2 DEF Shorter, Width
  <2>5. SimpleEnds(q, j)
    BY <2>3, <2>4 DEF EndsWithin, ChainEnds
  <2>6. PICK r : r = Parsed[<<"simple", i + 1, 0>>]
    OBVIOUS
  <2>7. r.ok /\ r.next = j
    BY <1>1, <2>2, <2>5, <2>6 DEF SimpleEnds, Accepts
  <2>8. PICK u : u = <<"prefix", Token(i), r.tree>>
    OBVIOUS
  <2>9. Operand(Parsed, i) = Ok(j, u)
    BY <2>1, <2>6, <2>7, <2>8, OperandIs
  <2>10. Parsed[<<"suffixes", j, 0>>] = Suffixes(Parsed, j)
    BY ParsedIs
  <2>11. Parsed[<<"suffixes", j, 0>>] = Ok(j, <<>>)
    BY <1>1, <2>10, SuffixesIs DEF Bare
  <2> QED BY <2>9, <2>11, OkAccepts, ValueAccepts
<1> QED BY <1>2, <1>4, <1>5, InSimples

\* A simple expression is read the same way by the caller that asserts its message.
LEMMA AssertedEnds ==
    ASSUME tokens \in Seq(Tokens), NEW p \in Places, NEW j, Accepts(Parsed[<<"simple", p, 0>>], j)
    PROVE  Accepts(Asserted(Parsed[<<"simple", p, 0>>]), j)
<1>1. PICK r : r = Parsed[<<"simple", p, 0>>]
  OBVIOUS
<1>2. r.ok /\ r.next = j
  BY <1>1 DEF Accepts
<1>3. Sound(p, r)
  BY <1>1, CallsAre, ParsedSound DEF Fine
<1>4. Asserted(r) = r
  BY <1>2, <1>3, AssertedIs
<1> QED BY <1>1, <1>2, <1>4 DEF Accepts

\* What stands behind the first operand and its operator, which ends at m.
LEMMA SecondWritten ==
    ASSUME tokens \in Seq(Tokens), NEW q \in Places, NEW j \in Places, NEW r \in Nat, NEW n \in Nat,
           EndsWithin(n), Shorter(q, j, n), Chain(q, j, r) # {},
           NEW ends \in SUBSET Separators, Token(j) \in ends, NEW a, a.next + 1 = q
    PROVE  Accepts(Second(Parsed, a, ends), j)
<1>1. PICK b : b = Asserted(Parsed[<<"simple", a.next + 1, 0>>])
  OBVIOUS
<1>2. PICK c : c = Parsed[<<"complex", b.next + 1, ends>>]
  OBVIOUS
<1>3. Second(Parsed, a, ends) = Decided(a, b, c, ends)
  BY <1>1, <1>2, SecondIs, Zenon
<1>4. b = Asserted(Parsed[<<"simple", q, 0>>])
  BY <1>1
<1>5. CASE r = 0
  <2>1. SimpleEnds(q, j)
    BY <1>5 DEF EndsWithin, ChainEnds
  <2>2. Bare(j)
    BY EndsAreBare
  <2>3. Accepts(Parsed[<<"simple", q, 0>>], j)
    BY <2>1, <2>2 DEF SimpleEnds
  <2>4. b.ok /\ b.next = j
    BY <1>4, <2>3, AssertedEnds DEF Accepts
  <2>5. PICK t : t = <<"op", Token(a.next), a.tree, b.tree>>
    OBVIOUS
  <2>6. Second(Parsed, a, ends) = Ok(j, t)
    BY <1>3, <2>4, <2>5 DEF Decided
  <2> QED BY <2>6, OkAccepts
<1>6. CASE r # 0
  <2>1. PICK o \in Places, s \in Nat : /\ q < o /\ o + 1 < j /\ o + 1 \in Places /\ Token(o) \in Ops
                                       /\ r = s + 1 /\ Chain(q, o, 0) # {} /\ Chain(o + 1, j, s) # {}
    BY <1>6, LeadingIs
  <2>2. PICK u \in Places : u = o + 1
    BY <2>1
  <2>3. 0 \in Nat /\ Shorter(q, j, n)
    OBVIOUS
  <2>4. Width(q, o) < Width(q, j) /\ Width(u, j) < Width(q, j) /\ Width(q, o) \in Nat /\ Width(u, j) \in Nat /\ Width(q, j) \in Nat
    BY <2>1, <2>2 DEF Width, Places
  <2>5. Shorter(q, o, n) /\ Shorter(u, j, n)
    BY <2>3, <2>4 DEF Shorter
  <2>6. SimpleEnds(q, o)
    BY <2>1, <2>3, <2>5 DEF EndsWithin, ChainEnds
  <2>7. Accepts(Parsed[<<"simple", q, 0>>], o)
    BY <2>1, <2>6, EndsAreBare DEF SimpleEnds
  <2>8. b.ok /\ b.next = o
    BY <1>4, <2>7, AssertedEnds DEF Accepts
  <2>9. Token(o) \notin ends
    BY <2>1, EndsAreBare
  <2>10. ComplexEnds(u, j)
    BY <2>1, <2>2, <2>5 DEF EndsWithin, ChainEnds
  <2>11. c = Parsed[<<"complex", u, ends>>]
    BY <1>2, <2>2, <2>8
  <2>12. c.ok /\ c.next = j
    BY <2>10, <2>11 DEF ComplexEnds, Accepts
  <2>13. PICK t : t = Group(Token(a.next), Token(b.next), a.tree, b.tree, c.tree)
    OBVIOUS
  <2>14. Second(Parsed, a, ends) = Ok(j, t)
    BY <1>3, <2>1, <2>8, <2>9, <2>12, <2>13 DEF Decided
  <2> QED BY <2>14, OkAccepts
<1> QED BY <1>5, <1>6

LEMMA ComplexWritten ==
    ASSUME tokens \in Seq(Tokens), NEW i \in Places, NEW j \in Places, NEW k \in Nat, EndsWithin(Width(i, j)),
           Chain(i, j, k) # {}, k = 0 => SimpleEnds(i, j)
    PROVE  ComplexEnds(i, j)
<1>1. SUFFICES ASSUME NEW ends \in SUBSET Separators, Token(j) \in ends
               PROVE  Accepts(ParseComplex(Parsed, i, ends), j)
  BY ParsedIs DEF ComplexEnds
<1>2. PICK a : a = Asserted(Parsed[<<"simple", i, 0>>])
  OBVIOUS
<1>3. CASE k = 0
  <2>1. Accepts(Parsed[<<"simple", i, 0>>], j)
    BY <1>1, <1>3, EndsAreBare DEF SimpleEnds
  <2>2. a.ok /\ a.next = j
    BY <1>2, <2>1, AssertedEnds DEF Accepts
  <2>3. ParseComplex(Parsed, i, ends) = a
    BY <1>1, <1>2, <2>2, ParseComplexIs
  <2> QED BY <2>2, <2>3 DEF Accepts
<1>4. CASE k # 0
  <2>1. PICK m \in Places, r \in Nat : /\ i < m /\ m + 1 < j /\ m + 1 \in Places /\ Token(m) \in Ops
                                       /\ k = r + 1 /\ Chain(i, m, 0) # {} /\ Chain(m + 1, j, r) # {}
    BY <1>4, LeadingIs
  <2>2. 0 \in Nat /\ Width(i, j) \in Nat /\ Shorter(i, m, Width(i, j)) /\ Shorter(m + 1, j, Width(i, j))
    BY <2>1 DEF Shorter, Width, Places
  <2>3. SimpleEnds(i, m)
    BY <2>1, <2>2 DEF EndsWithin, ChainEnds
  <2>4. Accepts(Parsed[<<"simple", i, 0>>], m)
    BY <2>1, <2>3, EndsAreBare DEF SimpleEnds
  <2>5. a.ok /\ a.next = m
    BY <1>2, <2>4, AssertedEnds DEF Accepts
  <2>6. Token(m) \notin ends
    BY <2>1, EndsAreBare
  <2>7. ParseComplex(Parsed, i, ends) = Second(Parsed, a, ends)
    BY <1>2, <2>1, <2>5, <2>6, ParseComplexIs
  <2>8. PICK q \in Places : q = m + 1
    BY <2>1
  <2>9. a.next + 1 = q /\ Shorter(q, j, Width(i, j)) /\ Chain(q, j, r) # {}
    BY <2>1, <2>2, <2>5, <2>8
  <2>10. Accepts(Second(Parsed, a, ends), j)
    BY <1>1, <2>2, <2>9, SecondWritten
  <2> QED BY <2>7, <2>10
<1> QED BY <1>3, <1>4

\* A piece that has a tree is read to its end.
PieceEnds(d) ==
    /\ d[1] = "chain" => ChainEnds(d[2], d[3], d[4])
    /\ d[1] = "list" => ListEnds(d[2], d[3], d[4])
    /\ d[1] = "suffixes" => SuffixedEnds(d[2], d[3], d[4])

LEMMA PiecesWritten ==
    ASSUME tokens \in Seq(Tokens)
    PROVE  \A d \in Pieces : PieceEnds(d)
<1> DEFINE T == {d \in Pieces : PieceEnds(d)}
           f == [d \in Pieces |-> Size(d)]
<1>1. f \in [Pieces -> Nat] /\ \A d \in Pieces : f[d] = Size(d)
  BY PieceIs
<1> HIDE DEF f
<1>2. ASSUME NEW d \in Pieces, \A e \in Pieces : f[e] < f[d] => e \in T PROVE d \in T
  <2>1. PICK what \in Shapes, i \in Places, j \in Places, k \in Nat :
          d = <<what, i, j, k>> /\ d[1] = what /\ d[2] = i /\ d[3] = j /\ d[4] = k
    BY PieceIs
  <2>2. PICK w \in Nat : w = Width(i, j) /\ Size(d) = 2 * w + (IF what = "list" THEN 1 ELSE 0)
    BY <2>1, PieceIs DEF Size
  <2>3. ASSUME NEW e \in Pieces, \/ Width(e[2], e[3]) < w
                                 \/ Width(e[2], e[3]) = w /\ e[1] # "list" /\ what = "list"
        PROVE  PieceEnds(e)
    <3>1. Size(e) < Size(d)
      <4>1. PICK v \in Nat : v = Width(e[2], e[3]) /\ Size(e) = 2 * v + (IF e[1] = "list" THEN 1 ELSE 0)
        BY PieceIs DEF Size
      <4>2. CASE v < w
        BY <2>2, <4>1, <4>2
      <4>3. CASE v = w /\ e[1] # "list" /\ what = "list"
        BY <2>2, <4>1, <4>3
      <4> QED BY <2>3, <4>1, <4>2, <4>3
    <3>2. f[e] < f[d]
      BY <1>1, <3>1
    <3> QED BY <1>2, <3>2
  <2>4. EndsWithin(w)
    <3>1. ASSUME NEW p \in Places, NEW q \in Places, NEW l \in Nat, Shorter(p, q, w)
          PROVE  ChainEnds(p, q, l) /\ ListEnds(p, q, l) /\ SuffixedEnds(p, q, l)
      <4>1. Width(p, q) < w
        BY <3>1 DEF Shorter
      <4>2. PICK e : e = <<"chain", p, q, l>>
        OBVIOUS
      <4>3. e \in Pieces /\ e[1] = "chain" /\ e[2] = p /\ e[3] = q /\ e[4] = l
        BY <4>2, PiecesAre
      <4>4. ChainEnds(p, q, l)
        BY <2>3, <4>1, <4>3 DEF PieceEnds
      <4>5. PICK g : g = <<"list", p, q, l>>
        OBVIOUS
      <4>6. g \in Pieces /\ g[1] = "list" /\ g[2] = p /\ g[3] = q /\ g[4] = l
        BY <4>5, PiecesAre
      <4>7. ListEnds(p, q, l)
        BY <2>3, <4>1, <4>6 DEF PieceEnds
      <4>8. PICK h : h = <<"suffixes", p, q, l>>
        OBVIOUS
      <4>9. h \in Pieces /\ h[1] = "suffixes" /\ h[2] = p /\ h[3] = q /\ h[4] = l
        BY <4>8, PiecesAre
      <4>10. SuffixedEnds(p, q, l)
        BY <2>3, <4>1, <4>9 DEF PieceEnds
      <4> QED BY <4>4, <4>7, <4>10
    <3> QED BY <3>1 DEF EndsWithin
  <2>5. EndsWithin(Width(i, j))
    BY <2>2, <2>4
  <2>6. CASE what = "chain"
    <3>1. ASSUME Chain(i, j, k) # {} PROVE ComplexEnds(i, j) /\ (k = 0 => SimpleEnds(i, j))
      <4>1. k = 0 => SimpleEnds(i, j)
        BY <2>5, <3>1, SimpleWritten
      <4>2. ComplexEnds(i, j)
        BY <2>5, <3>1, <4>1, ComplexWritten
      <4> QED BY <4>1, <4>2
    <3>2. ChainEnds(i, j, k)
      BY <3>1 DEF ChainEnds
    <3> QED BY <2>1, <2>6, <3>2 DEF PieceEnds
  <2>7. CASE what = "list"
    <3>1. ASSUME NEW l \in Nat PROVE ChainEnds(i, j, l)
      <4>1. PICK e : e = <<"chain", i, j, l>>
        OBVIOUS
      <4>2. e \in Pieces /\ e[1] = "chain" /\ e[2] = i /\ e[3] = j /\ e[4] = l
        BY <4>1, PiecesAre
      <4>3. Width(e[2], e[3]) = w /\ e[1] # "list"
        BY <2>2, <4>2
      <4> QED BY <2>3, <2>7, <4>2, <4>3 DEF PieceEnds
    <3>2. ListEnds(i, j, k)
      BY <2>5, <3>1, ListWritten
    <3> QED BY <2>1, <2>7, <3>2 DEF PieceEnds
  <2>8. CASE what = "suffixes"
    <3>1. SuffixedEnds(i, j, k)
      BY <2>5, SuffixesWritten
    <3> QED BY <2>1, <2>8, <3>1 DEF PieceEnds
  <2> QED BY <2>6, <2>7, <2>8 DEF Shapes
<1>3. Pieces \subseteq T
  <2> HIDE DEF T
  <2> QED BY <1>1, <1>2, MeasureInduction
<1> QED BY <1>3

\* An expression of the grammar is read up to the end of the text.
LEMMA WholeWritten ==
    ASSUME tokens \in Seq(Tokens), Expressions(Trees(FALSE), 1, Len(tokens) + 1) # {}
    PROVE  Parsed[<<"complex", 1, {EndToken}>>].ok
<1>1. PICK j \in Places : j = Len(tokens) + 1 /\ Token(j) = EndToken
  BY TokenAt DEF Places
<1>2. 1 \in Places /\ {EndToken} \in SUBSET Separators
  BY DEF Places, Separators
<1>3. Whole(1, j) # {}
  BY <1>1 DEF Whole, Grammar
<1>4. ASSUME NEW k \in Nat PROVE ChainEnds(1, j, k)
  <2>1. PICK d : d = <<"chain", 1, j, k>>
    OBVIOUS
  <2>2. d \in Pieces /\ d[1] = "chain" /\ d[2] = 1 /\ d[3] = j /\ d[4] = k
    BY <1>2, <2>1, PiecesAre
  <2> QED BY <2>2, PiecesWritten DEF PieceEnds
<1>5. ComplexEnds(1, j)
  BY <1>2, <1>3, <1>4, WholeEnds
<1> QED BY <1>1, <1>2, <1>5 DEF ComplexEnds, Accepts

\* ParseComplexExpression accepts the expressions of the grammar and nothing else.
THEOREM GrammarDecided == Spec => []AcceptsExactly
<1>1. Init => AcceptsExactly
  BY DEF Init, Done, AcceptsExactly
<1>2. TypeOK /\ AcceptsExactly /\ [Next]_vars => AcceptsExactly'
  <2> SUFFICES ASSUME TypeOK, AcceptsExactly, [Next]_vars PROVE AcceptsExactly'
    OBVIOUS
  <2>1. CASE Next
    <3>1. tokens' = tokens /\ result' = Parsed[<<"complex", 1, {EndToken}>>]
      BY <2>1 DEF Next, Parse
    <3>2. tokens \in Seq(Tokens)
      BY InputsAssumption DEF TypeOK
    <3>3. PICK r : r = Parsed[<<"complex", 1, {EndToken}>>]
      OBVIOUS
    <3>4. r.ok => Expressions(Trees(FALSE), 1, Len(tokens) + 1) # {}
      BY <3>2, <3>3, WholeRead
    <3>5. Expressions(Trees(FALSE), 1, Len(tokens) + 1) # {} => r.ok
      BY <3>2, <3>3, WholeWritten
    <3>6. result'.ok <=> Expressions(Trees(FALSE), 1, Len(tokens) + 1)' # {}
      BY <3>1, <3>3, <3>4, <3>5, SameText
    <3> QED BY <3>6 DEF AcceptsExactly
  <2>2. CASE UNCHANGED vars
    <3>1. tokens' = tokens /\ phase' = phase /\ result' = result
      BY <2>2 DEF vars
    <3>2. Done' = Done
      BY <3>1 DEF Done
    <3>3. Expressions(Trees(FALSE), 1, Len(tokens) + 1)' = Expressions(Trees(FALSE), 1, Len(tokens) + 1)
      BY <3>1, SameText
    <3> QED BY <3>1, <3>2, <3>3 DEF AcceptsExactly
  <2> QED BY <2>1, <2>2
<1> QED BY <1>1, <1>2, TypeCorrect, PTL DEF Spec
=============================================================================
